# Ciphra in TLA+

Ciphra is an encrypted SQL database: an engine that seals every row before it
leaves the process, a write-ahead-log store for the sealed bytes, and a storage
server that keeps those bytes for remote engines and replicates them without
being able to read them. This directory holds TLA+ models of the parts of it that
keep state, TLC configurations that check them on small instances, and TLAPS
proofs of what matters most for every instance.

## 1. Inventory of the system

| Part | Source (under `src/crates/`) | State | Operations | What makes it hard | What makes it correct |
|---|---|---|---|---|---|
| Storage | `ciphra-storage/src/lib.rs` | table in memory, log file, what of it is fsynced | `open`, `put`, `delete`, `commit`, `compact`, snapshots | power loss at any moment, torn tails, failing writes | acknowledged writes survive, batches are whole, the table is the replay of the log |
| Storage server, replication | `ciphra-net/src/lib.rs`, `ciphra-server/src/main.rs` | store, sequence number, subscribers, read-only flag | GET/SCAN/DUMP/PUT/DELETE/COMMIT, SUBSCRIBE, `follow`, `apply_record` | one thread per connection, lost connections, restarts, chains of replicas | no gap between snapshot and stream, replicas show states the leader had, convergence |
| Sealed channel, handshake | `ciphra-net` (`Channel`, `client_handshake`) | two keys, two counters | `send`, `recv` | ordering, replay, pinning | each frame opens once, in order |
| Remote client | `ciphra-net` (`RemoteStorage`) | one connection | request/response | connection lost after the request | at most one outcome per request |
| Transactions | `ciphra-engine/src/lib.rs` (`Store`, `Engine`) | overlay, saved audit head | BEGIN, COMMIT, ROLLBACK, statements | failing COMMIT, crash inside a transaction | all or nothing, read your writes |
| Audit chain | `ciphra-engine` (`AuditEntry`, `audit_*`) | head in memory and stored, entries | append, verify, sign | head and entries changing together | history and data agree, signed roots stay history |
| Merkle proofs | `ciphra-engine` (`merkle_*`, `audit_inclusion_proof`) | none | build, prove, verify | lone nodes of odd levels | a proof verifies exactly for its entry |
| Tables and indexes | `ciphra-engine` (DDL and DML), `codec.rs` | catalog, rows, sequence, equality index, range blobs | CREATE/DROP TABLE and INDEX, INSERT, UPDATE, DELETE | long sequences of statements, NULL, keys reassigned | indexes exact, key unique, every access path answers alike |
| Predicates | `ciphra-engine` (`CompiledExpr`) | none | evaluate, choose an index | three-valued logic, mixed numeric types | an index path never loses a row |
| Query results | `ciphra-engine` (`select`, `aggregate`, `explain`) | none | ORDER BY, LIMIT, GROUP BY, HAVING, NEAREST TO | NULLs, empty groups | equal to a reference definition |
| Rotation, backup, restore, key parameters | `ciphra-engine` (`rotate_to`, `backup_to`, `restore_from`, `open_*`) | files | re-encrypt, swap, copy | crashes between file operations | one complete database at any time |
| Index advisor | `ciphra-engine` (`Advisor`) | counters | record, advise, reset | schema changes between recording and advising | not modelled: no result depends on it |
| Cryptography | `ciphra-crypto` | none | AEAD, hashes, KDFs, X25519, ML-KEM, ML-DSA | constant-time arithmetic | test vectors; used here as ideal |
| SQL front end | `ciphra-sql` | none | text to tokens to statements, printing conditions | precedence, optional clauses, words that are not reserved | the grammar's only tree, nothing written is lost |
| MySQL import | `ciphra-migrate`, `ciphra/src/main.rs` | none | cut, decode, translate, run | quotes in comments in quotes, failing statements | an import without failures and notes is exact |
| Shell | `ciphra/src/main.rs` | line buffer | collect, run, stop, import | statements that fail midway | an import goes on past them; the rest is not modelled |
| C interface, drivers, benchmarks | `ciphra-ffi`, `drivers/`, `ciphra-bench`, `ciphra-testutil` | | wrappers around `Engine::execute` | | |

How they interact: `Engine` calls `Store`, which either reaches `Storage` directly
or a server through `RemoteStorage`; the server calls the same `Storage` under one
mutex and pushes each committed batch to its subscribers' queues; a replica's
`follow` thread applies those records to its own `Storage` and queues. A statement
becomes one batch: rows, index entries, sequence, audit entry and audit head. The
batch goes to the overlay inside a transaction and to the backend otherwise. Text
reaches the engine from the shell, which collects lines, or from the import, which
rewrites a dump; both end in the parser and in `Engine::execute`.

The things that are hard to test here are listed under `hazards` in
`PROJECT.json`, each with its line and the properties that would catch it.

## 2. Modules

    KV                  tables, entries, batches (shared by the next three)
    DurableKV           abstract: a table that survives crashes
    WalStorage          the log that implements it         <- WalStorageProofs, MCWalStorage
    Replication         leader, replicas, chains           <- ReplicationProofs, MCReplication
    Channel             handshake, sealed frames, requests and streams  <- ChannelProofs
    SharedDatabase      several engines on one server      <- SharedDatabaseProofs
    SerialHistory       abstract: an all-or-nothing list of statements
    Transactions        overlay and audit chain that implement it       <- TransactionsProofs
    MerkleAudit         tree and receipts over that chain (extends it)  <- MCTransactions
    Rotation            opening and key rotation, implements SerialHistory too  <- RotationProofs
    Backup              backup_to and restore_from         <- BackupProofs
    Predicates          values, literals, WHERE clauses
    AccessPath          which index a clause uses (extends Predicates)
    RelationalTable     abstract: a table without indexes
    Tables              the indexed table that implements it       <- TablesProofs, MCTables
    Queries             what SELECT returns (extends AccessPath)   <- MCQueries
    SqlParser           tokens to statements                       <- MCSqlParser
    DumpText            a dump's text to values, and the lexer
    Import              a dump's table to statements, and their run (extends it)  <- MCImport

The layers are modelled separately and joined by their promises: `WalStorage` shows
that a batch is atomic and durable, which is what `Replication`, `Transactions` and
`SharedDatabase` assume of a node's table and of the backend; `Channel` shows that a
request is carried out at most once and, as long as the network repeats no frame to the
client, that a failed connection never works again, which is what `SharedDatabase`
assumes of a request; `Transactions` shows that a
statement is one atomic commit inside and outside transactions, which is what `Tables`
assumes of a statement; `Tables` shows that a clause selects the same rows on every
path, which is what `Queries` starts from; `DumpText` shows what the lexer reads, which
is what `Import` runs.

### WalStorage

`map` is `Storage.map`; `file` is the list of records of `ciphra.wal`; `synced` is how
many of them the last fsync reached. `put`, `delete` and `commit` are two steps, because a
crash may fall between `write_all` (`Put`, `Delete`, `Commit`) and `sync_data`
(`SyncData`). `compact` is `CompactWrite` (temporary file, fsynced) and `CompactRename`.
`compact` does not fsync the directory, so the disk may have the old log under the log's
name for as long as the kernel likes: `behind` holds the logs replaced in that way, each
with what had been fsynced and acknowledged in it, until `DirectoryWrittenBack`. `Killed`
ends the process and keeps what was written, except that the `write_all` in progress may
have come to any point. `PowerLoss`, with the process running or not, leaves this log or
one of `behind`, and of it the synced records and the others up to some point, perhaps
followed by a damaged one. `Open` replays up to the first damaged record and cuts off the
rest; it does not fsync, so a replayed record can still be lost in the next power loss,
and `DurableKV` says so: there may be several `outcomes` until the next acknowledged write
or compaction, and `setbacks`, which only a power loss can bring, until a compaction has
settled. Bytes, lengths and checksums are abstracted to "this record decodes or not"; a
batch is one record because it is under one checksum. `acked` is a history variable: the
table when a call on this log last returned Ok. Nothing in the repository but its tests
calls `compact`.

`write_all` and `sync_data` succeed or end with the process; an error after which the
process goes on is not modelled (section 4).

### Replication

`table`, `seq` and the subscriber queues are `ServerState` of each node; `stream[f]`
is the queue of follower `f` with the connection behind it, in order. `HandleWrite`
is a PUT, DELETE or COMMIT: refused by a replica, else applied, counted and
broadcast, under the lock. `Subscribe` is `follow` reaching `stream_to_subscriber`,
which captures the snapshot and registers the queue under one lock. `ApplySnapshot`
and `ApplyBatch` are the two arms of `apply_record`; the second passes the record on
to the node's own followers, the first does not. `Disconnect` loses everything on
its way; `Restart` keeps the table, forgets `seq` and cuts all connections. A
replica may start with leftovers in its data directory. `hist`, `at`, `epoch` and
`sub` are history variables.

A snapshot beyond `MaxFrame` is refused by the reader (`RefuseSnapshot`), which
subscribes again; `Converges` is about leaders whose table fits in the end.

What holds further down a chain depends on the whole way up. A node that replaces its
table by a snapshot does not pass that snapshot on, so its own followers are no longer
`Intact`; and they hand the hole in the numbers on to *their* followers, whose
subscription is intact. `Unbroken` therefore asks for intact subscriptions all the way
to the leader's own replicas, and for every node in between that the snapshot it
subscribed with has been applied. `NoGap` and the second half of `Converges` are about
unbroken chains. `DrainedIsEqual`, that a follower with nothing left to apply has its
upstream's table, needs an intact last hop only.

### Channel

`client[c]` and `server[c]` are the two ends of a connection with their `Channel` (two
keys, two counters), `toServer` and `toClient` the bytes on their way, frame by frame.
`Connect`, `ServerRespond` and `ClientFinish` are the handshake; a key is the record of
everything `derive_key` hashes, a frame opens under exactly the key and the counter it was
sealed with. `Request` and `Receive` are the halves of `roundtrip`, `Serve` and
`ServeEnds` the loop of a server thread, and the same frames carry a follower's stream
(`Subscribe`, `Push`, `FollowRecord`). Faults are a damaged frame, a frame carried before
that is repeated to either end, whatever it is waiting for, a cut connection, and an
answer above the frame limit, after which the client reads misaligned bytes: it may wait
for ever, and `RequestsReturn` is stated for a client that is still aligned. A server that
is not `Honest` announces a public key whose secret it lacks. `inserted` remembers the
connections whose client was sent a frame twice: `recv` fails there without moving its
counter, `RemoteStorage` stays usable, and the next request reads the answer of the one
before. `AnswersMatch` and `FailureIsFinal` say that nothing else than this can happen,
and only there.

### SharedDatabase

The keys one table has on the server (`params`, `canary`, `rows`, `index`, `nextId`,
`audit`, `head`) and, for each engine, the statement it is in, where in it, and what it
has read so far. One action is one request. Opening is
`GetParams`, `PutParams`, `CheckCanary`, `PutCanary` and `LoadHead`; INSERT reads the
sequence and then commits; SELECT and DELETE read the index entry (`Lookup`) and then
one row at a time (`Fetch`). `Lose` falls between any two
requests; a commit whose answer is lost has happened; `Close` lets an engine be opened
again. Nothing in the code keeps two engines from finding the server empty at once, or
from committing on a head that another has moved. The model lets both happen and
remembers it in `raced`; what engines with two different keys do after the first is cut
off. The properties say exactly what holds without the race: `NeverRefused` but for a
double creation, `SharedHistoryIsSerial` as long as every committing engine knew the
commit before its own (`known`), `ReadersSeeRealRows` always.

### Transactions

`backend` is the stored table, `overlay` the buffered writes of an open transaction,
`auditHead` and `txnAuditHead` the fields of `Engine`. `Execute` is any statement
that writes, with the audit entry and the head in its batch; statements that change
nothing do not reach the chain. `Reopen` ends the process at any point and loads
the head again. `SignAuditRoot` is enabled when `audit_verify` accepts. SHA-256 is
taken to be free of collisions: the root of an entry is the list of everything
hashed into it, so two roots are equal exactly when the histories are.

`SpecFail` adds a COMMIT whose backend commit fails.

### Rotation

The data directory as a crash sees it: `wal`, `behind` (the WALs that a power loss may
bring back because a rename is not fsynced), `tmp` (the scratch directory) and `sidecar`
(the legacy parameter file). Opening is `Sweep`, `ResolveParams`, `CheckCanary`, one per
durable change; `rotate_to` is `StartRotation`, `CopyTable` for each table, `CopyAudit`,
`StampRotation`, `Rename`, `SyncDir`, `RemoveScratch`, `RemoveSidecar` and the same
opening again. `RotationFails` is an error before the rename. `Killed` and `PowerLoss` may
fall anywhere. A process that dies between `Rename` and `SyncDir` leaves the rename in
doubt, and no opening fsyncs the directory: sessions may work on the new WAL before a
power loss brings back the old one. `retired` remembers the keys that rotations which
returned have replaced. Every sealed item carries the key it is sealed under, passphrase
and salt, so that "opens" and "belongs to one key" are facts of the state. A rotation
starts outside transactions, as the command line's does; `Engine::rotate_to` itself does
not look (section 4).

### Backup

The source database is a number of statements, since what matters is which records a
file has: `Dump(n)` lists the records of a database of `n` statements in the order of
their keys. `BackupTo` reads through the overlay, as `Store::dump` does; it may be
interrupted, and has then replaced an earlier file by a part of the new one.
`RestoreFrom` refuses a directory with a log, copies, opens (canary) and verifies the
chain; it may be interrupted, fail on the wrong passphrase, or lose the copy it did
not fsync. A failed restore leaves its copy, which the next attempt refuses and a plain
opening accepts: `RowsNeedTheirKey` is about those. `FileTruncated` is a
snapshot file that loses its end while it is stored; `noted` is forgotten then, since
what is promised for such a file is only that it does not open under a wrong key.

### MerkleAudit

Proving and verifying change no state, so these are functions of the chain that
`Transactions` reaches, with the roots signed on the way. A hash is the term that was
hashed. `ReceiptsAreSound` has three parts: the tree built level by level is the one
that splits at powers of two; a receipt issued at any length of the history verifies
against the root of that length and no other; and whatever entry, index, total and
siblings are shown with a signed root, `VerifyInclusion` accepts members of the
history only. Receipts and signatures are those of a session without an open
transaction.

### Predicates, AccessPath, Tables

One table with two columns, one of which may be the primary key. `schema`, `rows`,
`seq`, `index` and `blob` are the five key spaces the engine keeps for a table. An
index entry keeps the value whose keyed tag it is stored under: tags are taken to be
collision-free. Every statement first validates, then commits one batch, so it is
one action; a rejected statement is no step, and `RejectsOnlyConflicts` says which
INSERTs and UPDATEs are rejected. `Pins`, `EqCols`, `RangeCols` and `CandidateRows` are
the access-path selection; UPDATE and DELETE use it as SELECT does. `sort_range_entries`
is a stable sort stated by counting: an entry comes `n`-th when `n - 1` others belong
before it; `InOrder` lists the row ids and the retained positions in the same way.

The engine compares values in three ways: by encoding (index tags), by `PartialEq`
("has this cell changed?"), by `compare_values` (predicates and sorting). A literal is
its type and its value; the constants `Coerce`, `Kind`, `Rank` and `Class` describe a
column type and the literals a clause may compare it with. `Coerce` is what INSERT and
UPDATE store, defined for the literals they accept; a WHERE clause keeps its literal as
written. So 2 and 2.0 have one `Rank` and two encodings, and on an INT column only 2 is a
stored value. A comparison across `Kind`s is a type error, which ends the statement when a
candidate row meets it (`TypeError`). Of the values a column stores `ValuesAreExact` says
that the three relations agree, which is so of INT and TEXT, and of REAL but for -0.0 and
0.0. `LooksForNothing` is an equality lookup of a literal the column cannot hold:
`PathsAgree` says that this finds nothing, whatever a scan would, and that every other
clause selects the same rows on every path.

### Queries

A table of three columns (INT, TEXT, VECTOR), an index layout, the last SELECT and its
answer. INT is a few values wide, so that SUM overflows where the engine reports an
error. `CandidateRows` delivers rows in the order of the access path, which is what
decides LIMIT without ORDER BY. The properties compare the answer with definitions that
know nothing of plans: a window of some correct ordering, one group per distinct key,
aggregates over the set of its rows. The engine drops a HAVING behind `*` and reports a
type error where a candidate row meets one; the run asks both. REAL arithmetic is left
out.

### SqlParser

The parsing methods, over tokens. The state is an input that grows chunk by chunk behind a
start, as long as the parser could still accept it, so a state is an input and the
invariants are about the parser as a function. `ConditionsAreExact` compares it with the
grammar stated as sets of spans, and reads back what EXPLAIN prints, where a REAL without
a fraction is printed, and so read back, as an INT (`Rounded`); `BatchIsWhole` says that a
batch is its statements; `NothingWrittenIsLost` collects names and literals from the
statement and compares them with those of the text, in order. Keywords are not reserved,
so a column may be called `limit`; one called `not` cannot be addressed in WHERE. A
comment in `ciphra-sql/src/lib.rs` still says that AVG is absent, and one in the lexer
that fractions occur in vectors only; neither is so.

### DumpText, Import

`DumpText` keeps text, because the property is about text: quotes, escapes, comments
and separators at the boundaries of `split_statements`, `top_level_split`,
`decode_mysql_string`, `ciphra_string` and the engine's lexer. `Import` puts a table
around it: the parts of a CREATE TABLE, INSERTs with or without a column list whose
values are written glyph by glyph, `Translate` with its notes, and `RunStatement` for
the loop that goes on after a failure. `Legal` keeps to dumps MySQL can write (keys are
unique, types fit). A column may say PRIMARY KEY or have a comment that does
(`SaysPrimaryKey` is the translator's search for the words), a year is a number the
translator puts into a TEXT column (`MapType`), and a character of several bytes arrives
as one character for each (`Garbled`): `ValuesSurvive` and `CleanImportIsExact` name these
as what they except. Names are quoted, as mysqldump quotes them. A UNIQUE key becomes a
plain index, which the documentation of `ciphra-migrate` says.

## 3. Runs

| Run | Instance | Shows |
|---|---|---|
| `wal` | 2 keys, 2 values, two-entry batches, 2 log records, 1 rename not on disk | `AckedIsDurable`, `LiveMatchesLog`, `ImplementsDurableKV` |
| `replication` | leader and a chain of three replicas, 2 commits, 2 faults, frames of one pair | `StreamsAreGapless`, `ReplicaShowsLeaderPast`, `ReplicaNeverGoesBack`, `Converges` |
| `transactions` | 2 keys, 2 values, 5 audited statements; forged receipts of 2 siblings over 3 entries | `HistoryAgrees`, `SignedIsHistory`, `ReceiptsAreSound`, `ImplementsSerialHistory` |
| `transactions_commit_fails` | as above, 2 statements, COMMIT may fail | the finding of section 4 |
| `tables` | 2 INT columns, 2 values and NULL, clauses with a REAL and a TEXT literal too, inserts of 1 or 2 rows, 3 row ids | `StoreIsExact`, `PathsAgree`, `RejectsOnlyConflicts`, `ImplementsRelationalTable` |
| `rotation` | 2 passphrases, 2 tables, 3 salts, 4 audit entries | `DirectoryIsSound`, `RotationIsFinal`, `ImplementsSerialHistory` |
| `channel` | 1 connection, 2 servers (1 honest), 3 requests, 3 records, 2 faults | `FramesInOrder`, `NonceNeverReused`, `FailureIsFinal`, `PinnedIsAuthentic`, `RequestsReturn` |
| `shared` | 2 engines that create and write, 2 values, 3 statements, 1 lost connection | `NeverRefused`, `SharedHistoryIsSerial`, `ReadersSeeRealRows` |
| `backup` | 2 passphrases, 3 statements, 2 faults | `RowsNeedTheirKey`, `RestoreIsBackup`, `NeverOverwrites` |
| `queries` | 3 rows of 3 columns, every index layout, about 300 statements | `RowsAreExact`, `GroupsAreExact` |
| `parser` | conditions of up to 7 chunks; 4 chunks behind every kind of statement | `ConditionsAreExact`, `BatchIsWhole`, `NothingWrittenIsLost` |
| `import` | 3 columns and keys of 4 types with and without options, 1 or 2 INSERTs of up to 3 values and glyphs | `ValuesSurvive`, `CleanImportIsExact`, `SchemaIsExecutable` |

Some of these are conjunctions of named parts, among them the module's `TypeOK`, each
with its own comment: `StreamsAreGapless` is `NoGap` and `DrainedIsEqual`;
`HistoryAgrees` is `ChainVerifies` and `HistoryIsData`; `ReceiptsAreSound` is
`TreeIsCanonical`, `ReceiptNeedsItsRoot` and `OnlyHistoryVerifies`; `StoreIsExact` is
`PrimaryKeyHolds` and `IndexesAreExact`; `DirectoryIsSound` is `NeverStranded`;
`FramesInOrder` is `ServedInOrder`, `AnswersMatch` and `StreamIsPrefix`;
`SharedHistoryIsSerial` is `StatementsAreSerial` and `SharedChainVerifies`;
`RowsAreExact` is `WindowIsExact` and `NullsLast`; `ConditionsAreExact` is
`ExpressionIsGrammar` and `DisplayIsReadBack`; `BatchIsWhole` is `BatchIsItsPieces`.

Bounds and why they are enough. `MaxLog` = 2 in `wal`: one acknowledged record and one
unsynced or damaged one behind it make every case of replay, truncation and compaction;
compaction brings the log back below the bound, so behaviours are not cut short.
`MaxBehind` = 1: one log that may come back, while the new one is written to, closed and
opened; another compaction waits until the directory is on disk. Three replicas in a chain
are the shortest in which a hole reaches a follower whose own subscription is intact.
`MaxCommits` = 2 and `MaxFaults` = 2: a commit before and after two lost connections, or a
lost connection and a restart; frames of one pair let the table outgrow a frame and shrink
again. `MaxAudit` = 5 in `transactions`: statements before, inside and after a
transaction, and the smallest tree with a lone node that is promoted twice. `MaxInserts` =
3: two rows of one statement and a third, with ids of deleted rows left behind. `MaxSalts`
= 3 and `MaxAudit` = 4 in `rotation`: create a database, write, and rotate it twice, or
start with a legacy directory and rotate it three times, each also interrupted and tried
again. Two values and NULL suffice for a column, since every comparison distinguishes
below, equal, above and unknown; the REAL literal ranks with one of them and is encoded
differently, the TEXT literal is comparable with neither; `Questions` holds all
comparisons on both columns, their negations, and conjunctions and disjunctions across the
columns. Three requests are one that fails in transit, one behind it and one before; two
faults are a repeated frame and a cut, a damaged one and a repetition, or two frames
repeated to the client, which put its answers two behind. Three statements on a shared
server are two rows and a DELETE that finds both, or a DELETE between two inserts. Three
rows are two in one group and one in another, or a window with a row before and one after.
Seven chunks are two comparisons in parentheses and a connective, or a NOT over a
disjunction. Every scanner of the import looks at most one character ahead, so two
neighbouring glyphs in one string, or one on each side of a boundary, make all its cases;
a table of three parts has room for two of them only, which `MaxSize` says.

Deadlock is checked except where the system stops: `Replication` when writes and faults
are used up and every replica has drained its stream, `Channel` when its requests are
made, `SqlParser` when the input has its length.

Fairness (`Replication`, `Channel`). The replica thread in `run_replica` loops for ever
around `follow`, which loops around `recv` and `apply_record`: weak fairness of
`Subscribe` and of taking the next record, applied or refused. It presumes that a lost
connection is noticed by both ends, which TCP does not guarantee without keep-alive or a
read timeout (see the hazard on `follow`). Clients are not obliged to write and faults
are not obliged to happen; `MaxFaults` says that they cease, without which nothing
converges. `Channel` assumes that a server thread goes on with its loop and a client with
its read, the latter only while the stream is aligned: `read_exact` may wait for ever
behind the body of a refused frame.

## 4. Findings and exclusions

The finding with a run of its own, `transactions_commit_fails`: after a COMMIT that fails
in the backend, `Engine::commit_transaction` keeps the advanced audit head, and the next
statement stores a chain that no longer verifies.

The other disagreements between code and documentation that came up while modelling are
stated by the properties of the passing runs where the run meets them, and kept out of the
runs otherwise. This is how:

1. `ciphra-storage` `append`/`commit`: after a partial `write_all` error the torn
   bytes stay in the log; later acknowledged records are discarded by `open`.
   `WalStorage` has no write that fails without the process.
2. `ciphra-net` `apply_record`: a snapshot is not passed on to a replica's own
   followers. `Converges` and `NoGap` ask for `Unbroken` chains, `DrainedIsEqual` for an
   `Intact` subscription.
3. `ciphra-net` `read_frame`: a snapshot above `MAX_FRAME` reaches no replica.
   `Converges` asks for a table that fits.
4. `ciphra-engine` `compile_expr` and `index_value_prefix`: the literal of a clause is not
   coerced to the column's type, so an equality index or the primary key hides the rows a
   scan finds for `id = 2.0` on an INT column, or for an INT literal on a REAL one, and
   returns nothing where a scan reports a type error. The run asks this and `PathsAgree`
   states it. `update` takes -0.0 and 0.0 for equal, so that the primary key can be
   duplicated: `ValuesAreExact` leaves a column with both out.
5. `ciphra-engine` `rotate_to`: called inside a transaction it makes the buffered
   statements durable and ends the transaction. The command line cannot reach this,
   and `StartRotation` is outside transactions.
6. `ciphra-engine` on a server: two writing engines overwrite each other's rows and
   audit entries, both acknowledged, and two engines creating the database at once lock
   everyone out: `raced`. A SELECT through an index sees part of another client's
   statement: `ReadersSeeRealRows` promises real rows, not one moment.
7. `ciphra-engine` `restore_from`: a snapshot that lost its end behind the audit entries
   restores, and the recorded audit root matches, with rows missing. `RestoreIsBackup`
   is about files that are whole.
8. `ciphra-engine` `audit_inclusion_proof`, `sign_audit_root`: inside a transaction they
   attest statements that ROLLBACK removes. `signed` has the roots signed outside.
9. `ciphra-sql`, `ciphra-engine` `select`: `SELECT * ... HAVING` ignores HAVING, which
   `MCQueries` asks and `RowsAreExact` states; a vector whose distance is NaN sorts behind
   NULL, which `MCQueries` does not ask.
10. `ciphra-migrate` `split_statements`: characters of several bytes inside quotes are cut
    into their bytes, without a note; `translate_create_table`: the words PRIMARY KEY in a
    column's comment or default make it the key, and replace a declared one;
    `map_type`: a year becomes TEXT, so that INSERTs with years, which a dump writes as
    numbers, fail; `translate_value`: the smallest BIGINT and large DOUBLEs are written in
    a form the lexer refuses. All are in the run: `ValuesSurvive` says what arrives and
    which INSERTs fail, whole, and `CleanImportIsExact` excepts the first two.
11. `ciphra-migrate` `split_first_token`, `translate_create_table`: a column list directly
    behind an unquoted table name is ignored, and an unquoted column whose name starts
    like a constraint is dropped. Names in `Import` are quoted.
12. `ciphra-storage` `compact` renames without an fsync of the directory: a power loss may
    bring back the log from before it and with it lose writes of which the comment says
    "Durable once this returns". `AckedIsDurable` and `DurableKV` state what is kept. In
    `rotate_to` the fsync follows the rename, and a process that dies between the two
    leaves the next sessions on a WAL that a power loss may still replace: stated by
    `RotationIsFinal` and `SerialHistory`.
13. `ciphra-net` `recv`, `roundtrip`: a frame that fails to open leaves counter and
    connection as they were, so behind a frame that came twice every request reads the
    answer to an earlier one. `AnswersMatch` and `FailureIsFinal` state it.
14. `ciphra-sql` `Display for Literal`: the REAL 1.0 is printed as 1, an INT when it is read
    back; `DisplayIsReadBack` states it. A REAL above the range of integers is printed
    without a point too, and cannot be read back at all; the run has none.
15. Outside the modelled code: the advisor suggests indexes on VECTOR columns, which are
    refused, and charges one scan twice to a column compared by `=` and by order; the
    shell cuts a string that spans lines at a line that ends with `;`.

## 5. Proofs

Eight modules hold theorems. Each is about the specification the run of the same name
checks, for every value of the constants that satisfies the named ASSUMEs: any number of
keys, values, columns, rows, engines, replicas, connections, passphrases and tables, any
length of logs and histories, any number of faults. The laws of a module's data come first
(what a batch, a log, a chain or a queue is after one more record), then one lemma per
action, then the theorems, which are read off an inductive invariant `IInv`. Each `IInv`
was checked by TLC with the constants of the run before it was proved.

| Module | Theorem | States |
|---|---|---|
| `WalStorageProofs` | `TypeCorrect`, `Durability`, `LiveTableIsReplay` | `[]TypeOK`, `[]AckedIsDurable`, `[]LiveMatchesLog` |
| | `Refinement` | `ImplementsDurableKV` |
| `ReplicationProofs` | `GaplessStreams`, `ReplicasShowThePast` | `[]StreamsAreGapless`, `[]ReplicaShowsLeaderPast` |
| | `ReplicasMoveForward` | `ReplicaNeverGoesBack` |
| `ChannelProofs` | `NoncesAreUnique`, `FramesKeepTheirOrder` | `[]NonceNeverReused`, `[]FramesInOrder` |
| | `FailuresAreFinal`, `PinsAuthenticate` | `[]FailureIsFinal`, `[]PinnedIsAuthentic` |
| `SharedDatabaseProofs` | `RightPassphraseOpens`, `SharedCommitsAreSerial`, `ReadersAreRight` | `[]NeverRefused`, `[]SharedHistoryIsSerial`, `[]ReadersSeeRealRows` |
| `TransactionsProofs` | `HistoryAndData`, `SignaturesStand` | `[]HistoryAgrees`, `[]SignedIsHistory` |
| | `Refinement` | `ImplementsSerialHistory` |
| `RotationProofs` | `DirectoryStaysSound`, `RotationsAreFinal` | `[]DirectoryIsSound`, `[]RotationIsFinal` |
| | `RotationRefines` | `ImplementsSerialHistory` |
| `BackupProofs` | `BackupTypes`, `RowsStayWithTheirKey` | `[]TypeOK`, `[]RowsNeedTheirKey` |
| | `RestoresAreExact`, `LogsAreKept` | `RestoreIsBackup`, `NeverOverwrites` |
| `TablesProofs` | `IndexesStayExact`, `AccessPathsAgree`, `OnlyConflictsAreRejected` | `[]StoreIsExact`, `[]PathsAgree`, `[]RejectsOnlyConflicts` |
| | `TablesRefine` | `ImplementsRelationalTable` |

**WalStorage.** `AckedIsDurable` is not inductive: that a commit is acknowledged with the
right table depends on the log having no damaged record while the store is open, on the
table in memory being the replay of the log, and on the record being synced carrying the
batch in hand. `IInv` adds these: all records of an open store decode, at most the last
record of a closed one is damaged and lies beyond `synced`, the temporary file of
`compact` replays to the table, and each log of `behind` is as sound as the one in use.
Replay depends on a prefix only (`ReplayPrefix`), one more sound record is one more batch
applied (`ReplayStep`), a damaged record ends it (`ReplayTorn`), and the log `compact`
writes replays to the table it was written from (`SnapshotReplays`, which needs `Keys` to
be finite). `Refinement` maps each step to a step of `DurableKV`: the outcomes are the
replays of the prefixes that contain the synced part, of the log in use, and the setbacks
those of the logs in `behind`.

**Replication.** What a follower has says nothing without what is on its way. `IInv`
states for each subscription that the records in the queue, applied one by one to the
follower's table, end in the upstream's (`ReplayInv`, for intact subscriptions); that
their numbers lead without a hole from the follower's to the upstream's (`GapInv`, for
unbroken ones); and, for the leader's own replicas, that they carry the leader's commits
in order from the one after the replica's (`PastInv`). `at`, `epoch` and `sub` are tied to
the tables by `LeaderInv` and `SubInv`. The attempt showed that intactness of the last hop
does not make the numbers gapless: TLC has the counterexample with three replicas in a
chain, which is why `Unbroken` exists and why the run has three. Nothing is assumed of
the arrangement of the replicas.

**Channel.** The properties speak of what was served and answered; why they hold is that
an end opens exactly the frame its peer sealed under the same counter. `IInv` says which
keys an end can hold (each derived from its own halves of the handshake and, for the
client, the key it pinned), that every sealed frame was sealed by an end that has since
moved past its counter, and, for each connection, how the two counters, the frames on
their way and the lists of served requests and outcomes line up, in each phase of a
request and of a stream. What is on its way to a
client is the tail of what its server sent, in order, until a frame is repeated to it
(`FlightInv`); from then on all that is known is that the answers handed out are the first
ones, each once, and as many as the client's counter says (`AnswerInv`), which is fewer
than its requests once one has failed. `PinsAuthenticate` rests on the keys alone: a secret
computed without the pinned server's key is different from every secret the client
computes.

**SharedDatabase.** An engine acts on what it read some requests ago. `IInv` says of each
engine what its reads are worth: a head, sequence or snapshot read by an engine that knows
the last commit is current (`FreshInv`), the rows it fetched held the value at some time
since its statement began, and those that held it all the time are fetched or listed
(`ReadInv`), its key is the stored one unless creation raced (`KeyInv`). `IndexInv`, that
every row has its index entry, holds also after writers have raced.

**Transactions.** `IInv` ties both tables, stored and seen, to the heads they carry:
entry `i` of the chain is the `i`-th step of the root with the root before it as `prev`,
rows are those the steps wrote, and nothing is stored beyond the head (`Recorded`); the
stored history is an initial part of the session's, and every signed root of the stored
one. BEGIN and ROLLBACK need that the saved head is the stored one.

**Rotation.** `IInv` says that each database a crash could leave, those of `behind`
included, and the one a session reads are sealed under one key with rows that match their
chains (`DirectoryInv`), that a session's key is the one stored (`SessionInv`), and how
far the scratch database has followed the session's: table by table, then the resealed
chain with the head still missing, then whole and with the same statements (`ScratchInv`).
`RotationsAreFinal` needs the keys besides (`KeysInv`): each has a salt that has been
generated, the scratch database's is new, and one that has been retired is that of no
database on disk, because nothing is left behind between the fsync of the directory and
the return of `rotate_to`. That the statements of a chain (`Data`) are unchanged by
resealing and by the rotation's own entry, and grow by one with every other entry, is
proved from a characterisation of the `n`-th statement by counting, since a filter over a
sequence is recursive.

**Backup.** The reason a partial copy opens under no wrong key is the order of the keys in
a dump: in every log that can arise, a part of a dump, or a part with parameters and a
canary of a failed attempt added, all canaries are the same and a row comes after the
canary of its own key (`LogOK`). `Value`, the last record of a kind, gets its lemmas from
the well-foundedness of the naturals.

**Tables.** That the key is unique cannot be shown without the equality index, since INSERT
and UPDATE look for a key there and nowhere else; that the index is exact cannot be shown
without the types of the rows; and DROP INDEX keeps the key's entries only because the key
column is never among the indexed ones. `IInv` therefore says everything at once: there is
no table and nothing is stored, or ids are below the sequence, cells have their types, the
key holds, the equality index is that of the rows, and each range blob lists its column's
entries in order. The work is in the blobs. In a finite ordered set the number of smaller
members grows with the order and takes every value once (`PlacesCount`, from the theorem
that an injection between sets of one size is onto), so that sorting by counting lists what
it is given (`SortedLists`) and a filter keeps the order (`RetainedLists`); the entries a
statement adds are never among those it leaves (`OverEntries`, `ReplacedEntries`). The
first conjunct that pins a column is true of every row the clause selects (`PinnedHolds`),
so the row's cell has the literal's rank; a literal the column can hold is then the cell
itself (`ValuesAreExact`), and the path finds the row (`SelectedByPath`, `SelectedIsScan`).
A literal it cannot hold has no entry in an exact index, which is the other case of
`PathsAgree`; the refinement then acts on what was selected or on nothing.

Assumptions. Bounds are natural numbers; `Keys` is finite in `WalStorage`; batches,
statements and leftovers have the right form; replicas follow nodes. In `Tables` the
columns are finitely many positive positions, clauses have at most two comparisons, rows
and assignments carry literals the columns accept or NULL, clauses any literals, each of
one kind (`KindIsTotal`, `CoerceIsTyped`), and stored values that differ differ in rank
and class (`ValuesAreExact`: not so of a REAL column with both zeroes, for which the
theorems are false). The markers for "nothing" are no values: `AbsentIsNoValue`,
`AbsentIsNoRecord` and `NoTxnIsNoMap` in `Transactions`, `NoneIsNoValue` in
`SharedDatabase` and `Backup`, `NoneIsNoKey` in `Channel`, `NoneIsNoData` in `Rotation`,
`NoTableIsNoSchema` and `NoBlobIsNoList` in `Tables`; these are what Rust's `Option` says.
A table is not called what the rotation's own entry is (`RotateIsNoTable`). TLC evaluates
all of them in the runs.

Only model-checked, and why:

- `Converges` and `RequestsReturn`: liveness under fairness is out of the prover's reach.
- `ReceiptsAreSound` (`MerkleAudit`), and everything about `SqlParser`, `DumpText` and
  `Import`: their functions recurse over trees, tokens and text, and what a recursive
  definition computes for every input needs an induction none of the installed provers
  can instantiate.
- `RowsAreExact` and `GroupsAreExact` of `Queries`: sorting, sums and
  windows are folds over sequences and sets of rows, with the same obstacle.

## 6. Not modelled

The cryptographic primitives (numeric code over wide words and polynomial rings, with test
vectors; the models use them as ideal), the index advisor (counters no result depends on),
the shell's collecting of lines, meta commands, arguments and printing, the C interface,
the drivers, the benchmarks and the test helpers. Within modelled parts: REAL arithmetic
and the cosine distance, the encodings of rows, schemas, parameters and requests, the
lexer's identifiers and operators, the list of MySQL type names, clauses of more than two
comparisons in evaluation, a write or fsync that fails while the process goes on. A
failing directory fsync, which `rotate_to` ignores, is not modelled, nor is a connection
that dies without either end noticing.

## 7. Plan

Done: all modules of section 2, and the proofs of section 5.

What could follow: clauses nested to any depth, for which `PinnedHolds` needs an induction
over the expression; `Queries` with its sort stated by counting as in `Tables`, after which
`WindowIsExact` is a statement about places; and `ReceiptsAreSound`, once the tree is given
by positions and not by recursion.
