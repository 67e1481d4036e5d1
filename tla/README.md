# zorm in TLA+

zorm is a small C++ ORM. One interface (`Idb`) has five backends: a JSON file
written by the program itself, and SQLite, MySQL, PostgreSQL and DM8, which share a
statement builder and a connection pool. This directory holds TLA+ modules for the
parts of it that keep state or compute answers, the TLC configurations that check them
on small instances, and TLAPS proofs for every size.

`PROJECT.json` lists, for each definition, the source lines it stands for, and each
run with its properties, each property with a mutation of the code that breaks it,
the findings and the hazards. This file explains them.

To repeat: `tlc -workers 2 -config <run>.cfg <module>`, `tlapm <module>_proofs.tla`.

## 1. The system

| Component | Source | State | Operations | Module |
|---|---|---|---|---|
| Connection pool | `base/DbPool.h` | slots (handle, busy), `poisoned_`, waiting threads | `acquire`, `~Lease`/`release`, `invalidate` | `DbPool` |
| File lock | `backends/FileLock.cpp`, `.h` | one lock file on disk (pid, host, time) | `tryLock`, `unlock`, `isStale`, reclaim | `FileLock` |
| Processes that share a data file | `backends/JsonFileDb.cpp` (2191-2290) over the lock | data file, each writer's copy of it | `writeWithLock` | `LockedStore` |
| JSON engine | `backends/JsonFileDb.cpp` (2100-2660) | data file, `store_`, `tableIdIndex_`, `loaded_`, `loadFailed_`, `writeMutex_`, `storeMutex_` | `writeWithLock`, `ensureLoadedLocked`, `readStore`, `writeFileAtomic`, reads | `JsonFileDb` |
| Shared instances, temp sweep | `backends/JsonFileDb.cpp` (2156-2186, 2629-2651), `DbBase.cpp` | weak registry by path, instances, temp files | `createShared`, constructor, last release, `sweepStaleTempFiles` | `SharedRegistry` |
| JSON tables | `backends/JsonFileDb.cpp` (690-900, 1740-1890, 2300-2340) | rows of each table, id index | upsert, update, delete by swap-pop, create and drop table, batch, transaction, rollback | `JsonTable` |
| JSON queries | `backends/JsonFileDb.cpp` (900-1740, 1890-2080) | none: an answer is computed from the rows | filter, group, aggregate, sort, project, page | `JsonQuery` |
| SQL statement builder | `base/SqlBackendBase.cpp` (`genSql`, `select`, `attachRecordsPages`) | none: a statement is computed from the parameters | `select` and its count | `SqlBuilder` |
| SQL backends | `base/SqlBackendBase.cpp`, overrides in `backends/` | leases, transaction of a connection, `placeholderIndex_` | `select`, `create`, `update`, `remove`, `execSql`, `insertBatch`, `transGo`, `escapeString` | `SqlBackend` |
| SQL text of the JSON backend | `backends/JsonFileDb.cpp` (1100-1740) | none | parse `select`, `insert`, ... | effects only, in `JsonTable` |
| Drivers (SQLite, MySQL, PostgreSQL, DM8) | `backends/*Db.cpp` | a driver's session | connect, run, bind | external |
| Facade | `DbBase.cpp` | none | forward | its `new JsonFileDb`, in `SharedRegistry` |
| Constants, demo | `GlobalConstants.cpp`, `main.cpp` | none | | not modelled |

How they interact. A thread calls a backend through `DbBase`. A SQL backend leases a
connection from the pool for one statement or one transaction; after a failed write
SQLite's asks the pool to `invalidate` itself. The JSON backend answers reads from
memory under `storeMutex_` (shared). A write takes `writeMutex_`, then the lock file,
then `storeMutex_` (exclusive), reads the file again, rebuilds the index, runs a
closure that changes tables and index, writes a temp file and renames it over the data
file. Other processes meet this one only in the lock file, the data file and the temp
files beside it.

What is hard here, and what makes each component correct:

* **Pool** — a condition variable with one wake-up per release, a flag that spans
  several leases, connects that fail. A connection has one user, no lease dangles, no
  slot leaks, no waiter is forgotten, old connections leave after `invalidate`.
* **File lock** — every system call is a step of its own, holders die, clocks make
  locks "old", a pid is reused or may not be looked at. One holder at a time; an
  abandoned lock is taken over; `tryLock` returns; no process overwrites what another
  one was told is saved.
* **JSON engine** — three locks, a closure or a disk that fails half way, crashes,
  time-outs, files damaged from outside, first loads that race writers. An acknowledged
  write stays; readers see committed contents only and never an empty database in place
  of a file; nothing blocks for ever.
* **Shared instances** — a registry of weak pointers, while the last strong pointer goes
  without a lock; a sweep of files that may be in use. One mirror per file and process;
  no temp file of a running writer is removed.
* **JSON tables** — an index that must follow a swap-pop delete, dropped tables and
  rollbacks in the middle of a transaction. Every table is a map from ids to rows.
* **Queries** — the same question answered by a pipeline over JSON rows, with two
  implementations of paging, and by a SQL statement; values that are numbers, texts, or
  both; a client paging through a table that others change. All answers agree.
* **SQL calls** — five ways out of `transGo`, a second lease inside a call, a shared
  counter, a read followed by a write on another lease, sessions that a statement given as
  text left open. A call takes effect whole or not at all, and says which; a connection
  comes back without a transaction.

## 2. Modules

| Module | Role |
|---|---|
| `DbPool` | the pool, one step per critical section |
| `ExclusiveGrants` | abstract: a resource has one user, at most `limit` grants are out |
| `FileLock` | the lock file, one step per system call |
| `LockedStore` | the read-modify-write cycles of several processes over `FileLock` |
| `JsonFileDb` | the engine of one process with its mutexes, the disk, other processes |
| `AtomicStore` | abstract: a durable value updated in one step, a view that never goes back |
| `SharedRegistry` | `createShared()`, instances that die, temp files and their sweep |
| `JsonTable` | rows and id index inside a write |
| `TableMap` | abstract: named maps and all-or-nothing transactions |
| `JsonQuery` | the query pipeline as operators, over a table that changes |
| `SqlBuilder` | the statements for the same queries, and what a SQL server answers |
| `SqlBackend` | the calls on a shared SQL backend object |
| `MC*` | instances for TLC: model values, processes, queries, calls, surroundings |
| `DbPool_proofs`, `LockedStore_proofs` (with `FileLock`), `SharedRegistry_proofs`, `JsonFileDb_proofs` (with `AtomicStore`), `JsonTable_proofs` (with `TableMap`), `JsonQuery_proofs`, `SqlBuilder_proofs`, `SqlBackend_proofs` | theorems, section 4 |

Surroundings. What differs from one use of a component to the next - the size of a pool,
which machine a process runs on, which calls fail, how often the system may crash - is a
variable `config` that no step changes. `Init` takes it from the constant `Configs`, so one
run explores every setting named in its MC module, and a theorem speaks of all settings at
once. A property that the code keeps only in some of them says so in its first conjunct:
`CalmMutualExclusion` speaks of behaviours without a crash and without a slow holder,
`NoStrandedWaiter` of a pool where connects and statements do not both fail. Section 3 says
what happens where such a condition does not hold.

Composition.

* `SqlBackend` takes the pool as `Pool == INSTANCE ExclusiveGrants`. `DbPool` implements it
  (`ImplementsGrants`, proved), and the calls use nothing else of it (`CallsUseThePool`, proved);
  so the runs of `SqlBackend` need not repeat the pool's steps.
* `LockedStore` EXTENDS `FileLock`: each of its steps is a step of the lock or leaves the
  lock alone (`StoreKeepsLockSpec`, proved), so what is proved of the lock holds of it.
* `JsonFileDb` looks into one process and takes the lock file as exclusive, with the outcomes
  `FileLock` shows possible (free, held, orphan, held by another machine, never filled);
  what a reclaim race does to the data is `LockedStore`'s subject. It takes the closure of a
  write as one atomic change, which `JsonTable` opens up: `TableMap`'s `Commit` is
  `JsonFileDb`'s `Modify` followed by `Rename`, its `Abort` one of the rollbacks.
* `SharedRegistry` takes a whole write as one step, which is what `AtomicStore` allows, and
  asks what several instances of the engine in one process would do.
* `SqlBuilder` EXTENDS `JsonQuery`: both answer the same queries over the same rows.

### DbPool

`handle[i]`, `busy[i]` are `slots_[i]`, `poisoned` is `poisoned_`, `config.maxConn` is
`maxConn_`. A client is a thread with its `Lease`. `acquire()` is `Call` and then one of
`TakeLive`, `Connect`, `ConnectFails`, `Wait`: the code holds the mutex across the scan,
`connect_` included. `Release` is the critical section of `release()` and `Notify` the
`notify_one` after it. A waiter wakes by `Notify` or `SpuriousWake` and scans again. `doomed`
is history: the handles that were leased when `invalidate()` ran. Slots that `slots_` has not
grown to yet behave as empty ones. `config.faults` says whether connects may be refused and
whether statements may fail (and `invalidate` with them).

### FileLock and LockedStore

`pc` names the system call a locker makes next: `create` (`open` with `O_EXCL`),
`write`, `read`, `judge` (`isStale` on what was read), `remove`, and for `unlock` `check`
and `unlink`. `file.by` stands for the pid and host in the file. `aged` replaces the clock:
once a file's stamp is older than `kLockStaleMillis` it stays so. A crash kills every locker
of a process. `LooksDead` is `kill(pid, 0)`: a process of another user looks dead, since the
call fails with `EPERM`, and a dead one whose pid was given out again looks alive. `config`
says on which machine each process runs (`host`), who is of another user (`foreign`), whose
pid is reused (`reused`), whether a live holder may outlast the stale limit (`slow`), whether
the file may resist removal (`stuck`) and how many processes may crash (`crashes`).

`LockedStore` puts `writeWithLock()` around it. `phase[l]` is where a write is apart from its
lock: it begins, and once the lock is held it has `loaded` a copy of the file and then
`saved` the copy with its own write. After a time-out it is at `inspect`, where it is refused
or goes on `unlocked` (`late` remembers that).

### JsonFileDb

The content of the store is the *set of writes* that made it: enough to see a write lost, torn,
repeated or published too early. `disk` may also be `{Corrupt}` or `{Blank}` (truncated, which
`readStore` takes for a valid empty store). The steps of `writeWithLock` are `LockWriter`,
`LockFile` or `TimeOut` then `RefuseWrite`/`ProceedUnlocked`, `LockStore`,
`Reload`/`ReloadFails`, `Modify`/`ModifyFails`, then those of `writeFileAtomic`: `Rename`,
`TempFails`, `Truncate`, `Fill`, `FillFails`, and `UnlockFile`, `ReturnWrite`. A write in place
that fails leaves a file cut off in its array, or none of its bytes (`CutShort`). A read is
`LockShared`, perhaps `EnsureLoaded` under the exclusive lock and `Relock`, then `Read`. Other
processes follow the same protocol in three coarser steps; they may be on another machine, die
with the lock, or write in place and fail there (`ForeignFillFails`). `config.faults` lists what
may go wrong.

### SharedRegistry

`registry` is the weak pointer under the path, `held[c]` the `shared_ptr` of a thread, and
`view[o]` how many writes the mirror of instance `o` holds. `createShared()` is `Enter` (the
purge), `FindInstance` or `FindNone`, `Construct`, `Register`, all under `s_mutex_`;
`Release`, which may end an instance, is under no mutex. `raced` is history: an instance died
between a purge and the lookup after it. `DbBase` is `StartAlone`, `ConstructAlone`. The
constructor's sweep meets the files one by one (`SweepFile`) while other processes make, rename
and abandon theirs; two writers may have had one pid, be on another machine, or be out of
`kill()`'s sight. It ends (`EndSweep`) behind the last file or, where `config.unlisted`, at an
error of the directory iterator, of which the code says nothing; a file may resist removal
(`config.stuck`). `leftover[c]` is history: what was stale when the sweep of `c`'s instance began.

### JsonTable

`store` is a sequence of tables, `index` the partial function `tableIdIndex_`, `given` the file
as it was read. A step is one row operation of a closure; `saved` is what rollback restores. Ids
have *spellings*: `Trim` maps one to its indexed form, `Class` says what `valuesEqual` equates.
`FastPath` and `Scan` are the two ways `select()` has for `{"id": s}`: the first looks the text
up, the second reads it as `buildQuerySpec` does, to which `"null"` and `">,5"` are conditions
(`Special`). `Rebuild` lets the later of two rows with one id win and merges tables of one name
into one entry, as `tableIdIndex_[tableName]` does; then the entry may name a row of another
table than the one `findTableIndex` finds. The scans that `updateRow` and `deleteRow` make
(`UpdateScanned`, `DeleteScanned`) are reached only when a table outlives a drop of its name,
that is in files that name it twice. The refinement maps a table to a function from ids to
values; its rows without an id count as one entry, the set of what they hold.

### JsonQuery and SqlBuilder

A cell is `[kind, text, num]`: a text is its rank in byte order, `NumberOf` its numeric
value if any, `Within` the relation "contains". A query is the record that
`buildQuerySpec` makes. `QueryTableRows` is the set of answers the code may give: one,
except where `std::sort` may order equal rows either way or is given an order it does not
accept; then any arrangement is an answer. `(page - 1) * size` wraps at `MaxInt`. `Select` puts
the fast path by id before it: `OnlyId` are the queries that may come from a parameter object with
no other key, `FastSelect` is their answer.
A walk is a client that reads page 1, 2, ... until a page is empty.

`GenSql` and `CountSql` are the statement and the count statement as data: clauses with the
places of their values, columns, aggregates, group, order, limit. `SqlSelect` is the set of
answers of `select()`, `attachRecordsPages()` included. The operators in between are the
server, external: SQL's three-valued comparisons, NULLs sorted below or above everything, any
order among equals, and a count over groups that a strict server refuses.

### SqlBackend

`st[c]` is the local state of a thread's call, gone when the call returns. A statement has a
kind, the ids it writes and a value; `built` says whether the builder makes its text. `tx[h]`
is the list of statements of the open transaction on connection `h`. `config.mode`
distinguishes the backends: `numbered` (PostgreSQL), `escaped` (MySQL without parameters),
`positional`; `config.heals` marks the one that overrides `selfHealConnections` (SQLite, whose
pool is of one): after a failed write its call still has the lease while it heals the pool
(`Heal`), which closes the connection and so rolls back what a begin given as text left open;
`config.nested` says what the server does with a begin inside a transaction: SQLite refuses
it, MySQL commits what is open, PostgreSQL and DM8 join it. A connection may break at any time, in a
transaction too; `toll` is history: how often one broke, and how many writes outside transactions
failed on a broken one. A call of kind `rows` is DM8's
`insertBatch()`, which creates row after row. `begin` and `commit` also exist as statements
given to `execSql`. The server is external: a statement is atomic, a transaction keeps the rows
it wrote locked, an insert of an id that exists is refused, a statement that waits for a lock may
be made to fail.

## 3. Runs

Passing runs:

| Run | Instance | Shows |
|---|---|---|
| `pool` | 3 clients with 2 calls, 3 handles; 1 or 2 slots, every combination of faults | leases sit in busy slots and leak none; a poisoned pool keeps no idle handle; a doomed handle never comes back to a pool of one; nobody is stranded and every `acquire` returns unless connects and statements both fail; refinement of `ExclusiveGrants`, so that no connection has two users |
| `lock` | 3 engine instances in 2 processes; on one machine or two, with a reused pid, another user, a slow holder, a file that cannot be removed, a crash anywhere | one holder at a time and no acknowledged write lost until a reclaim is due or a write goes on without the lock; a recognisable orphan is reclaimed; `tryLock` returns |
| `json_faults` | 2 threads, 2 writes, 2 foreign writes; failing closure and disk with a crash, a file damaged twice, failing `rename` and writes in place that leave a torn or an empty file, every fault of the lock | durability, what readers see and through which index, a whole file, lock file freed; refinement of `AtomicStore` |
| `json_waits` | 2 threads, 1 foreign write; time-outs, dead and remote holders, an unreadable file | every read and every write returns |
| `registry` | 2 threads, 3 instances, 2 other writers; equal pids, this process's own pid, another machine, another user, files that resist in a directory that cannot be read, `DbBase` | one instance and a current mirror; a sweep removes what is stale and nothing in use |
| `table_index` | grown and hand-written tables, with rows without an id, an id twice, a table twice; 3 steps in a transaction; an id written with a blank too | the index tracks the rows and never leads to another id's row, the fast path equals a scan for a text that is no comparison; refinement of `TableMap` |
| `query` | all tables of up to 3 rows under queries by id alone, filtered, sorted, grouped and paged ones, with and without a choice of columns; walks with 2 changes beside them | a SQL backend answers like the JSON engine, both paging paths slice one answer, groups partition, sorting orders, errors of paging are bounded by the changes |
| `sql_calls` | calls of every kind in ten uses: 2 threads on 2 connections; 1 connection that breaks at any time; numbered placeholders; escaped literals, of 2 threads and of 1; 1 thread alone; DM8 batches; raw begins on each kind of server | changes are whole calls, answers tell the effect, no transaction outlives its call or is entered by another, a connection that breaks costs one write where the backend heals its pool, some call can always go on, every call returns |

Runs that end in a violation, each of one property that a comment, document or test of
the repository states (quoted under `findings` in `PROJECT.json`):

| Run | What the code does |
|---|---|
| `pool_stranded` | a failed reconnect returns without waking anybody, so waiters sleep beside a free slot |
| `lock_race` | two waiters reclaim one orphan; the second removes the first one's new lock |
| `json_heal` | a write that fails after a failed first load clears `loadFailed_`: reads answer with an empty database |
| `sql_escape` | transactions hold a connection while they wait for another one to escape on |

### Where the conditions come from

The conditional properties mark places where the code does less than one might expect, and in
some of them less than a document or a comment says:

* "One shared instance per resolved file path" (JsonFileDb.h:32) holds of pointers that come from
  `createShared()`, and not when the last of them goes between its purge and its lookup;
* page and count "observe the same snapshot" since they share a connection
  (SqlBackendBase.cpp:118-119): so they do in a pool of one; in a larger one another connection may
  commit between the two statements;
* "a temp file whose writer is still running is left alone" (JsonFileDb.cpp:2153-2155) holds of
  the writers that `kill()` lets this process see on this machine;
* `select()` "always returns records + pages" (README.md:134) holds of the SQL backends when there
  are rows;
* comparisons are documented without an exception for `id` (README.md:317); when it is the only
  key, they are not read;
* "called when a WRITE fails at the driver level" (SqlBackendBase.h:88-94) is true of the writes
  outside `transGo()`;
* "a subsequent write must NOT replace it with an empty store" (JsonFileDb.cpp:669-671) is kept for
  a file that cannot be opened or parsed; an empty one is a valid empty store (679-681), also when
  a failed write in place has left it so.

TLC gives a trace for each row of this table when its condition is taken away, in a setting of
`Configs` to which it applied (the second column names one that has to be added):

| Property, and what to drop | What the trace shows |
|---|---|
| `InvalidatedHandlesDie`, `config.maxConn = 1` | with two connections the first reconnect clears the flag, and a handle that `invalidate` met leased goes back to the pool. Only SQLite's pool, of one, is ever invalidated |
| `CalmMutualExclusion`, `config.slow = {}` in `Calm` | `unlock` checks the owner and then unlinks; the file may have become another's in between |
| `CalmMutualExclusion`, `config.foreign = {}` in `Calm` | `kill` fails with `EPERM` for a holder of another user: its lock is taken from it at once |
| `AckedWritesSurvive`, `~late` | the wait ends while the holder lets go of its lock: the lock file names nobody, the write goes on without it (JsonFileDb.cpp:2220), and an acknowledged write is overwritten |
| `AckedIsDurable`, `LockIsKept` | the same inside one process, and with a holder on another machine, whose pid means nothing here |
| `AckedIsDurable`, `"erased" \notin config.faults` in `NothingErased` | `rename` fails, the write in place truncates the file (JsonFileDb.cpp:359) and cannot put a byte into it; the writer is told so, but the next one reads an empty store with "ok" and saves its own write alone |
| `AckedIsDurable`, `config.crashes = 0` in `NothingErased` | the same by a crash behind the truncation |
| `OrphanReclaimed`, `file.filled` | a lock file without content (a crash between `open` and `write`) is never stale |
| `OrphanReclaimed`, `config.reused` in `Recognisable` | an orphan whose pid was given out again waits for the age limit |
| `AnswersAreWhole`, `"rename" \notin config.faults` | a first load during another process's in-place write keeps an empty view |
| `OneInstance`, `ReadsAreCurrent`: `~raced` | the last pointer goes between purge and lookup; `emplace()` does nothing when the expired key is there, so the next `createShared()` makes a twin |
| `OneInstance`, `ReadsAreCurrent`: `~config.direct` | `DbBase` makes an instance beside the registry's; one of the two mirrors goes stale |
| `LiveTempsKept`, `config.remote`, `config.hidden` or the own pid | a writer this process cannot see counts as dead; its temp file goes, its `rename` fails and the data file is written in place |
| `SweepIsThorough`, `~config.unlisted` | the loop ends at the first error of its iterator (JsonFileDb.cpp:2164-2165); the temp files behind it stay |
| `SweepIsThorough`, `~config.stuck` | the error of a removal is dropped (JsonFileDb.cpp:2180-2181) |
| `IndexTracksRows`, `FastPathAgreesWithScan`: `KeysAreUnique(given)` | of two rows with one id the index knows the last; a delete through it hides the other until the next reload |
| `FastPathAgreesWithScan`, `Spellings` for `Keys` | an id with blanks around it is looked up in the index as it is written and never found there, while a scan finds the row |
| `FastPathAgreesWithScan`, `Texts` for `Texts \ DOMAIN Special` | `{"id": ">,5"}` or `{"id": "null"}` alone looks for a row with that very id (JsonFileDb.cpp:2355-2364); with any other key beside it, it is a comparison |
| `FastPathAgreesWithScan`, `ClassesAreKeys` (`Class` the identity) | to a scan the numbers `1` and `1.0` are one id and `a` and ` a` two; to the index it is the other way round |
| `SortedAnswerIsOrdered`, `Comparable` | the order is not transitive over columns that mix numbers and other texts; where a second column to sort by does (four rows), the first one loses its order as well |
| `SortedAnswerIsOrdered`, `WalkErrorsBounded`: `PageFits` | where `(page - 1) * size` overflows, the page begins before the first row: with error values, or with another page's rows |
| `GroupsPartition`, `q.group \notin Aggregates(q)` | an aggregate whose alias is the group column overwrites the group's value, so two groups may look alike |
| `WalkErrorsBounded`, `PageOnly` (a walk over a sorted query) | rows that the order leaves equal may come in another order on each page, so a walk misses and repeats rows with no change at all |
| `PageIsSliceOfWhole`, `fields = {}` (a paged query with fields) | the short paging path (JsonFileDb.cpp:1959) does not project |
| `PageIsSliceOfWhole`, the bound `MaxInt` (`MaxInt` 7, page 5 of size 4) | `(page - 1) * size` overflows; a far page answers with another page's rows |
| `AloneCallsAreExact`, one connection for `select` | another write commits between a page and its count |
| `AloneCallsAreExact`, `~RawTransactions` for `create` | a begin given as text leaves its rows locked, and the next `create()` of the same thread may be refused |
| `AloneCallsAreExact`, one client (two in `Alone`) | two creates of one id both find nothing; one is refused |
| `AloneCallsAreExact`, one client (two, with two connections, in `Numbered`) | threads share the placeholder counter |
| `SomebodyGoesOn`, `RoomToEscape` (`TightEscaped`) | as many threads as connections, each in a transaction, all wait to escape (the run `sql_escape`) |
| `BreakdownCostsOneWrite`, `config.heals` (`Sqlite` with `heals` false) | a backend without `selfHealConnections` hands a dead connection out again, and each write fails on it |
| `BreakdownCostsOneWrite`, with what fails in `transGo()` counted in `toll.lost` | a statement that fails there is rolled back and answered for (SqlBackendBase.cpp:255-258), nothing is healed, and the next transaction gets the same connection |
| `ChangesAreWholeCalls`, `~RawTransactions` | after `execSql("begin")` the next calls on that connection are not committed; a later begin commits them at once (MySQL) or takes them along with its own (PostgreSQL, DM8) |
| `TransactionsAreTheirOwn`, `config.nested = "refused"` | a `transGo()` joins the open session and answers for changes of others |

`SqlAnswersLikeJson` compares the backends under `Portable`, whose conjuncts are the places
where they differ:

* a column holds numbers (or nothing): JSON compares a number with the text `"1"` by value,
  a text column of a server by text;
* a page has a size: without one JSON takes 20 and SQL takes no limit; and `page * size` is an
  `int`;
* no columns are asked for where only a page is (`PageOnly`): the short paging path of JSON does
  not project (JsonFileDb.cpp:1959), a server does;
* where `id` is the only key, its text is a plain one (`OnlyId`): the fast path looks up
  what is a comparison, or a value that is refused, elsewhere;
* no comparison with a missing value: JSON compares its text, SQL answers nothing; and no
  `"null"` as a plain value, which JSON reads as "is missing" and SQL as a text;
* ids that are compared or sorted compare alike as numbers and as texts;
* a column of numbers is compared with numbers only; the columns asked for and sorted by are
  there, and no aggregate is named like one;
* no group over both `null` and missing values, which JSON keeps apart; on a strict server no
  paged group: its count statement `select * ... group by` is refused, and records then counts
  the page (SqlBackendBase.cpp:756-770);
* aggregates without a group are not paged: SQL counts the matching rows, JSON the one answer.

Answers with rows agree row by row, column by column and in `records` and `pages`. Of an answer
without rows the property says only that its status agrees: the JSON engine adds `records` and
`pages` to a 202, the SQL backends do not (SqlBackendBase.cpp:132-134), where README.md:126 and 134
promise both always.

`EscapeUse` in `SqlBackend` is one more: `escapeString` (MysqlDb.cpp:453) uses a connection
after its lease has ended, when another thread may already lease it.

### Bounds, and why they are enough

* Pool: two slots and three clients let one client wait while two hold; two calls each
  let a handle be released, invalidated, reconnected and reused. Three handles with two
  slots let a destroyed handle's address come back. One slot is SQLite's own setting.
* File lock: two processes, of which one may die, are all that reclaiming an orphan
  takes; the third lock object shares a process with another. `lock_race` has three
  processes, since two must reclaim beside a dead one. `MaxReclaims` is 5 in the code; 2
  already gives a failed and a repeated reclaim. `MaxPolls` 1 stands for any number
  of polls, since a poll changes nothing but the counter. The data file is followed in the
  surroundings `Followed`, where nobody crashes: elsewhere `AckedWritesSurvive` promises
  nothing, and a holder just lets go. A locker's write is made once (`acked`).
* JSON engine: two threads are a writer with a reader or a second writer; two writes of
  this process and two foreign writes give every order of cycles around each other; one
  crash or two damages, each at any point. Threads, writes and foreign writes are
  interchangeable, so `json_faults` uses symmetry; `json_waits`, which checks liveness, does
  not.
* Registry: two threads are one that opens and one that lets go; a third instance lets a
  twin and its successor exist. Two other writers may share a pid one after the other.
  `MaxWrites` 2 tells a mirror that is one write behind from one never written.
* Tables: a swap-pop needs a removed row, a last row and a third one; three steps let a
  later step use what the earlier left in the index, after a drop and a new table too. `ByHand`
  adds rows without ids, an id twice and a table twice.
* Queries: page size 2 over 0..3 rows reaches the empty, the full and the short last
  page, and a page beyond it. With `MaxInt` 1000 nothing wraps.
* SQL: two connections are the default of `maxConn_`. Calls include one of every kind,
  multi-row writes, transactions that mix built and given statements, and one whose second
  element cannot be built. Each thread makes two calls (one with escaped literals and with DM8's
  batches, four when alone), so that a call meets what the one before it left behind.

Deadlock checking is off where a bound on calls or writes stops the model while the program
would merely be idle (`DbPool`, `LockedStore`, `SqlBackend`); it is on for the others.

### Fairness

* `DbPool`, `SqlBackend`: weak fairness of each thread's `Step`: a thread that can run
  does run, and a statement returns. No fairness for starting a call, for faults or for
  spurious wake-ups. A thread that waits for a connection is not given one by
  fairness: in `DbPool` it needs a wake-up, in `SqlBackend` a lease that is free again and
  again may go to others, so the runs bound the calls of each thread.
* `LockedStore`: weak fairness of each locker's steps (`StoreFairness`): a live process runs
  on, a holder finishes its write, and an application that was refused the lock tries again;
  `OrphanReclaimed` is about a process that keeps trying. Nothing says that time passes: an
  orphan must be recognisable by its pid or already old.
* `JsonFileDb`: weak fairness of a writer's steps, strong fairness of taking
  `writeMutex_` and `storeMutex_` and of a reader's steps. The C++ standard promises
  no fairness of `std::shared_mutex`; an implementation that prefers readers can starve a
  writer (JsonFileDb.cpp:2232), and the runs do not contradict that. Nothing is assumed
  of other processes: they may keep the file lock for ever.

## 4. Proofs

Each theorem holds for any sets of threads, processes, handles or writes and all surroundings;
the only assumptions are the named `ASSUME` of the module (distinct marks, types of the
constants).

`DbPool_proofs` (`PoolAssumption`):

* `PoolTypeCorrect`, `PoolLeaseSlot`, `PoolPoison`: invariants of `pool`, and
  `PoolLeaseExclusive`, the core of its refinement, all from `PoolInv`, which `PoolInvariant`
  proves inductive.
  Exclusiveness alone is not inductive: that the handle in an idle slot is nobody's follows
  only when every leased handle sits in a *busy* slot and no handle sits in two slots. So
  `PoolInv` adds `SlotsDistinct` and `BusyHasHandle` to the listed invariants.
  There is one lemma per action that touches slots or leases, and one (`QuietStep`) for those
  that do not.
* `OneConnectionHeals`: `InvalidatedHandlesDie`. The extra invariant is that in a pool of one
  a doomed handle implies a poisoned pool and a busy slot.
* `PoolImplementsGrants`: `DbPool` refines `ExclusiveGrants`. `Connect` and `TakeLive`
  map to `Grant`, `Release` to `Return`, every other step stutters. The bound
  on grants follows because leases map one to one to busy slots, and one slot was idle.
* `WaitersAreServed`: `NoStrandedWaiter`. That somebody is awake beside one idle slot is not
  inductive once two slots are idle. `WakeInv` asks for an injection from the idle slots to the
  clients that are on their way: the one whose `release()` freed the slot, the waiter it woke, or
  a newcomer that takes the waiter's place. A refused connect would break the count, so while
  somebody waits every slot keeps its connection, and it does unless a statement fails.

`LockedStore_proofs` (`LockAssumption`):

* `LockCalmExclusion`: `CalmMutualExclusion`. The invariant `LockInv` says that while every
  process is alive, may be looked at and no holder outlasts the stale limit, no file is aged,
  whoever is past `create` and has not unlinked is the creator of the file, and so nobody ever
  judges a file stale. `lock_race` shows that a crash breaks it, the table above that a slow or
  a foreign holder does.
* `LockTypeCorrect`: `TypeOK`, including that exactly the lockers of crashed processes are
  dead.
* `StoreKeepsLockSpec`: every behaviour of `LockedStore` is one of `FileLock`.
* `AckedWritesAreKept`: `AckedWritesSurvive`. Not inductive by itself: a write saves what its
  copy holds, so `StoreInv` adds that a copy holds every acknowledged write; it does because the
  write has held the lock since it loaded the copy, and whoever else saves would hold it too,
  which `LockInv` excludes.

`SharedRegistry_proofs` (`RegistryAssumption`):

* `OneInstancePerPath`, `ReadsSeeOwnWrites`: `OneInstance`, `ReadsAreCurrent`. The invariant
  is that the registry names the instance of every pointer outside `createShared()`, and that
  the thread inside it found nobody alive.
* `RunningWritersKeepTemps`: `LiveTempsKept`. It rests on pids being unique among the
  processes of one machine that run at the same time.
* `SweepsAreThorough`: `SweepIsThorough`. While a file lasts that was stale when the sweep began,
  its writer stays dead or out of sight, so only a successor with the same pid can have saved it;
  and no file exists in the name of a writer still to be born. A finished sweep has passed every
  such file unless the directory failed it.

`JsonFileDb_proofs` (`EngineAssumption`) proves every safety property of `json_faults`, in five
layers, each used by the next:

1. `LocksInv`: each lock is held by whom `pc` says, and a write is run by one thread.
   `LockFileFreed` follows, and `EngineNeverStalls`, the part of `EveryCallReturns` that an
   invariant can say: a thread that waits for a mutex waits, at the end of the chain, for one that
   can go on; except that writers may all wait for another process that has the lock file.
   Readers never do: nobody waits for the lock file under `storeMutex_`.
2. `CommittedInv`: memory, file, what rollback would restore and every earlier content hold
   acknowledged writes only, but for the write of the thread that is between `modify()` and
   its answer. `ReadersSeeCommitted` follows, since no such thread is there under the shared
   lock.
3. `DurableInv`, while nobody goes on without the lock and no write in place ends with an empty
   file: a writer past `tryLock()` has the lock, so the file cannot change between its reload
   and its rename. `AckedWritesAreDurable` follows.
4. `MirrorInv`, while `rename()` works and no write fails beside a damaged file: the store is
   a content the file has had, with its index, and so is what rollback would restore; a reader
   that has loaded the store keeps it loaded. `AnswersAreWholeAlways` and `FileIsWhole` follow.
5. `MineInv`, with the conditions of 3 and 4: memory is never behind the writes of its own
   process, and a write only adds to what was published. `OwnWritesAreRead` follows, and with all
   five `EngineIsAtomicStore`: the engine refines `AtomicStore`. `Rename` and `ForeignCommit` map
   to `Update` - the file holds exactly what was acknowledged, by 2 and 3 - `ReturnWrite` and
   `EnsureLoaded` to `Look`, `Crash` to `Restart`, every other step stutters.

`JsonTable_proofs` (`TableAssumption`) proves every property of
`table_index`, for any names, ids, values and files:

* `IdsLeadToTheirRows`, `IndexIsRebuilt`, `FastPathIsScan`: `IndexNamesItsRows`,
  `IndexTracksRows`, `FastPathAgreesWithScan`. `TableInv` says that each entry is *sound* - its
  ids lead to rows of those ids - and, where the file held no id twice, *full* - every row with an
  id is led to; and so for the saved copies that a rollback puts back. One lemma tells for an
  append, a replacement and a swap-pop that the entry still follows the rows; the lemma
  `TableWritten` carries that from one table to the whole store. That an index which fits is the
  one a rebuild makes is `FittedIsRebuilt`.
* `TablesAreMaps`: `JsonTable` refines `TableMap`. The map of a table depends on the *set* of its
  rows only (`ContentMap`), which an append or a replacement widens by one row or changes in one,
  and a swap-pop makes smaller by exactly the row deleted.

`SqlBackend_proofs` (`BackendAssumption`, `CallAssumption`, `HealAssumption`) proves every safety
property of `sql_calls`, for finitely many threads, any connections (at least one: `maxConn_` is
clamped, DbPool.h:32), rows and calls. `BackendInv` is inductive (`BackendInvariant`) and has these
layers, each used by the next:

1. `LocalsInv`: which step belongs to which call, and what the answer will say: a call has
   applied as many rows as it has left behind, and one more only on its way to "success".
   `AnswerTellsEffect` follows.
2. `LeaseInv`: whether a call holds a connection is said by where it is. A step leaves the owners
   alone, or takes a free connection, or frees the thread's own (`HeldStep`).
3. `SessionInv`. That an open transaction has a call is not inductive by itself: a `TxExec` needs
   to know that its session is open, and the commit what is in it. So `Clean` says that the
   holder of an open session is between its begin and its end, and `Tracked` that the session
   holds exactly the statements this call has run. `TransactionsAreTheirOwn` follows, and
   `ChangesAreWholeCalls` too (`ChangesAreWhole`): what a commit publishes is the whole list of
   statements, with no need to know what their fold computes.
4. `HealInv`, for `BreakdownCostsOneWrite` (`OneWriteIsLost`): the writes lost so far, and the
   one more that a broken connection costs if no call is about to heal it (`Owed`), are at most
   the breaks; the pool has one connection (`OnlyConnection`), so the call that lost a write on
   it keeps it from everybody else until it has healed it. And what one thread alone can rely
   on: `NumberInv` (the placeholders given out so far are `1..n` and the counter is one ahead),
   `CreateInv` (what the lookup found still holds at the insert) and `SnapshotInv` (between page
   and count nobody else writes through the only connection). `AloneCallsAreExact` follows from
   the last three.

Two theorems are about the pool the calls share:

* `CallsUseThePool`: every step of a call is a `Grant` or a `Return` of `ExclusiveGrants`, or leaves
  the leases alone. Nothing else is known of `DbPool`, and nothing else of it is needed.
* `CallsGoOn`: `SomebodyGoesOn`, the part of `EveryCallReturnsGivenRoom` that an invariant can say.
  Suppose every call under way needs a lease it cannot have. A lease to escape on is held only by
  a thread about to drop it, which waits for nothing (`EscapeInv`); so each lease out is the own
  lease of a transaction that waits to escape, at most one for each thread. If the pool is used up
  there are as many such threads as connections, which `RoomToEscape` excludes; if it is not, a
  connection is free and somebody may lease it. Both counts are by injections.

`JsonQuery_proofs` (`QueryAssumption`, `UseAssumption`) proves every property that `query` checks of
`JsonQuery`, for any texts, cells, queries and tables. `UseAssumption` says what a query and a cell
are, and that two number cells of one value are one cell (a spelling such as `1.0` is not told from
`1`):

* `AnswersFitTheirRows`: the invariant `QueryInv`. Rows are typed, and an answer is one of those
  the code may give to a query that was asked, for the rows as they still are.
* `PagesAreCutFromOneAnswer`: `PageIsSliceOfWhole`. Both paging paths cut the answer of the same
  query without a page; that `pages` is the last page with a row on it is integer division.
* `SortingOrdersTheAnswer`: `SortedAnswerIsOrdered`. On columns that can be ordered the comparator
  is a strict weak order, lexicographic over the clauses, so whatever `std::sort` returns is sorted
  by it and so by the first clause; projecting, grouping and cutting a page keep that.
* `GroupsArePartitions`: `GroupsPartition`. Each matching row is in one group, so the sum over the
  groups of what they add up is the sum over the rows (`PartsAddUp`, from `SumUpTo`).
* `ReadersMissLittle`: `WalkErrorsBounded`. The rows a walk has *reached* are the first
  `page * size` of the matching rows. `ReaderInv` says that of the reached rows which matched
  throughout at most one per change was not seen, and that no more rows were read than are reached
  and seen and one per change. The property says this of the end, where every match is reached;
  during the walk a change moves rows into and out of the reached ones: an append adds to the end,
  a rewrite lets at most one row in or out and shifts another, a removal puts the last row where
  the removed one was. `DistinctIds` (no two rows with one id) is what makes "one row" mean one
  id, and is kept only because ids are looked up before a row is added.

These proofs need induction over positions. The library's induction theorems take an operator, which
these provers cannot instantiate, so the lemma `Induct` states it of a set of numbers: a set that
holds 0, and the successor of each number it holds, holds them all. What `SumUpTo` and `RowsAt`
compute is derived from it (`SumIs`, `RowsAtAre`).

`SqlBuilder_proofs` (the same assumptions) proves `BackendsAgree`: `SqlAnswersLikeJson`, for every
query and table that `Portable` leaves, on lenient and strict servers, with values bound or written
out. Its argument follows the statement:

1. Where: the values that clauses have bound so far lie end to end (`BoundIs`), so each numbered
   placeholder is bound to the value its own term was built from. Each clause then holds of the rows
   that the filter of its condition keeps, and `Selected` are the matching rows.
2. Groups: the parts that the server makes of those rows are the groups of the pipeline, with
   the same counts and sums (by `SumIs`); each part becomes the row that grouping or projecting
   shapes of it.
3. Order: on the values of a portable query the comparator of the engine ranks two rows as the
   server does that puts NULLs above all values. `std::sort` returns an arrangement sorted by
   it, and so one the server may choose; the columns that only sorted a row are dropped after
   that on both sides.
4. By id alone: the row that the fast path finds is the one that the whole pipeline finds
   (`LookupIsScan`).
5. Page and count: the slice of the engine is the limit clause, and the count statement counts
   the answer without a page; a strict server's refusal concerns unpaged groups only, where both
   count the rows returned.

Model-checked only, since liveness and `ENABLED` are out of this prover's reach:
`EveryAcquireReturns`, `OrphanReclaimed`, `TryLockReturns`, `EveryCallReturns` of the engine and
`EveryCallReturnsGivenRoom`. Every invariant and every refinement that a run checks is also proved.
What the proofs take for granted of the servers, the drivers and the file system is what the
external definitions of the models state.

## 5. What is abstracted or left out

* `JsonFileDb` takes the file lock to be exclusive; reclaim races, slow holders, reused pids
  and `EPERM` are `FileLock`'s and `LockedStore`'s subject. A foreign process never crashes in
  the middle of an in-place write. A write in place whose `close()` reports an error after every
  byte has reached the disk, so that a write answered with a failure is there all the same, is not
  modelled.
* The durability properties exclude a failing `rename` together with a crash or with a disk that
  takes no byte of the write in place, since the code's own comment accepts that this fallback is
  not atomic (JsonFileDb.cpp:296-302).
* Text: parsing of SQL and JSON, formatting, encodings, numbers beyond their order, case
  folding of `LIKE`. `JsonQuery` and `SqlBuilder` start from the parsed query; doubles are
  integers.
* Texts of inserts and updates. `insertBatch` (SqlBackendBase.cpp:158-220) takes the columns from
  the first row and the values of each row in that row's own key order, which a model without
  texts does not see; nor does it see that literals of `ins` are written unquoted when values are
  not parameterized (SqlBackendBase.cpp:605-608).
* The JSON backend's SQL shims: what a statement does to the tables is in `JsonTable`, how its
  text is taken apart is not. Only the first tuple of `VALUES` is inserted, an id in `SET` is
  ignored, and `create table if not exists x` makes a table named `if`.
* Who is next: `acquire()` has no queue (DbPool.h:124), so a waiter may be overtaken without end;
  the runs bound the calls instead.
* Drivers and servers, beyond what `SqlBackend` and `SqlBuilder` state of them. A commit whose
  reply is lost is not modelled.
* The pool's destructor and constructor, which run when no lease is out.
* PostgreSQL's type tables, `DbBase` beyond its `new JsonFileDb`, constants, the demo, vendored
  code.

## 6. Plan

Done: the modules above, their runs, and theorems for the safety properties of all of them.

The runs are few and broad on purpose: a new scenario of a component joins its run as one
more member of `Configs`, and a new property joins the run whose surroundings it needs.
Next, by importance:

1. The SQL shims of the JSON backend as a parser of token sequences, and the column order of
   `insertBatch`.
2. A lost reply of a commit, after which `transGo()` rolls back what the server has kept.
