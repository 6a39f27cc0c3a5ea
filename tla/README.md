# A TLA+ verification of k8s_ingestor

k8s_ingestor takes log lines from Fluent Bit over HTTP, masks and normalises
them, and writes them to ClickHouse. Next to the ingestor (`main.go`) it has a
pipeline service (`cmd/pipeline-service`) that keeps a set of per-namespace
collection rules in a file, and a query service (`cmd/query-service`) that reads
the table. This directory holds the specifications of the parts whose difficulty
is in what happens *between* steps: a connection that comes and goes while
others use it, posts that are retried while the first one is still running, a
shutdown that has to drain two channels in the right order, a file that
several requests write at once, and pages read from a table while it grows.

Line numbers are those of the repository at the commit the models were written
from; `PROJECT.json` maps every definition to the lines it translates.

## 1. Inventory

### 1.1 ClickHouse connection and its monitor: `main.go`, `internal/clickhouse/client.go`

*State.* The globals `chClient` (a plain pointer) and `isConnected` (an atomic
flag); a second copy of the pointer inside the handler package, set by
`SetClickHouseClient`.
*Operations.* `main()` opens the first client, copies it to the handler and
starts `monitorConnection`; the monitor wakes up, dials when the pointer is nil,
else pings, and after a failed ping redials up to `MaxRetries` times; the insert
workers test the flag and use the pointer later; `main()` closes the client after
the shutdown signal.
*Hard.* Flag and pointer are written one after the other with no common lock.
The monitor is not awaited at shutdown. A replaced pool is not closed, and neither is
the pool of a dial whose ping fails (`client.go:57-64`). A ping can fail with the
server up. The redial loop gives up for good. The handler's copy is never refreshed.
*Correct when* the flag never stands for an absent or replaced client, a client
that was tested for is still usable when used, leaked pools are bounded, and a
server that comes back is reconnected to as far as the code promises it.

### 1.2 Log ingestion: `withAuth`, `withRateLimit`, `HandleLogs`, `InsertBatch`

*State.* The token bucket of the rate limiter, the table `logs`, and for each
post where its handler is. Fluent Bit keeps a chunk and the number of its tries.
*Operations.* Authorisation, rate limit, decoding, the synchronous insert under a
30 s timeout, and the reply.
*Hard.* Fluent Bit gives up a slow post (and so does `WriteTimeout`) and posts the
chunk again while the first handler still inserts; the error of reading a gzip body
is assigned to a shadowed variable and nobody sees it; an insert fails before or
after ClickHouse stored its rows; the reply does not depend on the insert; the
ingestor dies with handlers in every stage and comes back with a full limiter
and, if ClickHouse is away just then, without a client.
*Correct when* the number of copies and every missing line can be accounted for,
and every handler ends unless the process dies under it.

### 1.3 Worker pool and shutdown: `startWorker`, `startInsertWorker`, `main()`

*State.* `logQueue`, `batchQueue`, `shutdownCh`, two wait groups, the HTTP server.
*Operations.* Workers move entries between the channels and drop when the second
one is full; insert workers insert with retries; `main()` closes `shutdownCh`,
drains the server for at most 30 s, waits for the workers, closes `batchQueue`,
waits for the insert workers, closes the client.
*Hard.* A send on a closed channel panics; draining depends on the order of five
waits; the select of a worker may prefer the shutdown over queued entries.
*Correct when* nobody sends after the close, every entry has exactly one place or
one result, what was queued for insertion is settled before the client closes,
and the signal always ends the process.

### 1.4 Pipeline service: `internal/pipeline/handler.go`

*State.* A map of pointers to pipelines behind a `sync.RWMutex`, and a JSON file.
*Operations.* Create, update, delete, list, get, the generated Fluent Bit
configuration; `save()` after every change; `load()` at start-up.
*Hard.* `save()` takes a read lock, also when its caller still holds the write
lock; it marshals through shared pointers after it let go of the lock; several
`save()`s write one file, each by truncating and then writing it; the process can
die anywhere in between.
*Correct when* readers under the lock see no half-made update, the file agrees
with the map when nothing is going on, a restart forgets an acknowledged
pipeline only for a reason one can name, and a restart never invents a set of
pipelines.

### 1.5 Body decoding: `HandleLogs`

*State.* The slice `logs`, which three decoders fill one after the other.
*Operations.* The whole body as a JSON array; on an error, line by line; if there
is still nothing, the whole body as one object; then one loop over the slice.
*Hard.* A failed array decode leaves records in the slice and the lines are added
to them; the scanner stops at a line over 64 KB and nobody asks it why; a line that
does not decode is passed over in silence.
*Correct when* a valid body is read completely and once, and everything doubled,
missing or refused has a reason one can name.

### 1.6 Dead letter queue: `AddToDLQ`, `HandleDLQ`

*State.* A channel of 10000 entries.
*Operations.* `AddToDLQ` drops when it is full; a retry takes the oldest entry and
sends it back, once for each id it was posted with; a flush receives until it finds
the channel empty; the statistics read its length.
*Hard.* Between a retry's receive and its send, others add, flush and retry; the
send blocks when the room has been given away.
*Correct when* no entry is lost or doubled, a flush leaves only what it can be
excused for, and one can say when a retry hangs.

### 1.7 Query service and query endpoints: `internal/query`, `HandleQuery`, `HandleGetLogs`, `QueryLogs`

*State.* None in the processes: everything is read from the table `logs`, and the
client keeps its offset.
*Operations.* A page with its total and `has_more`; a stream that asks again every
two seconds; aggregates from five queries; the distinct namespaces and pods; the
last rows and free statements on the ingestor.
*Hard.* The count and its page are two queries, the aggregates five, and rows
arrive in between; without a `start` parameter each page has its own window; rows
are ordered by one column, a timestamp in whole seconds or the one `order_by` names; offsets count rows of
a table that grows; ClickHouse breaks in the middle of an answer, or
`Client.Query` cancels the rows it returns, and `rows.Err()` is not asked.
*Correct when* a client that pages to the end, or keeps a stream open, gets every
row that was there, and whatever it misses, or an answer contradicts, has a reason
one can name.

### 1.8 The process: `main.go`

The connection (1.1) and the pool (1.3) are run by one `main()` and meet in
`insertBatch`, which tests `isConnected`, reads `chClient` later and is retried
`MaxRetries` times.
*Hard.* Each side relies on the other: the client may be closed only when no insert
worker holds it, which the waits for the workers have to bring about; a batch may be
given up only because the connection fails or a server that is up refuses it
`MaxRetries` times.
*Correct when* the process is a worker pool as 1.3 says and a connection as 1.1 says,
at the same time.

### 1.9 The other parts

| part | where | state and operations | modelled |
|---|---|---|---|
| level detection, timestamps, defaults | `internal/handler/handler.go:258-327, 600-658` | none: fields of a record from text | no: functions of one record, within reach of a unit test |
| Lua namespace filters | `internal/pipeline/handler.go:118-204`, `fluentbit_conf/` | none: text generated from the pipelines | no: what the text means is decided by Fluent Bit's Lua interpreter |
| masker | `internal/masker` | regular expressions over text | no: text rewriting without state |
| configuration | `internal/config` | read once at start-up | as CONSTANTS |
| tracing, metrics | `internal/tracing`, prometheus counters | write-only | no: no other state depends on them |
| sample apps, dashboards, charts, scripts | `sample-apps`, `web`, `charts`, `gitops`, `k8s`, `scripts` | demonstrations and deployment | no |

*How they interact.* The connection is read by the request handlers (through the
handler's own copy) and by the insert workers (through flag and pointer); the
shutdown of the worker pool ends with the close of that connection; Fluent Bit
sees the ingestor only through statuses and lost connections; the query service
meets the ingestor in the table only; the pipeline service shares nothing with
either while they run.

## 2. Modules

| module | models | state ↔ code |
|---|---|---|
| `ChConnection` | 1.1 | `chClient`, `isConnected`, `handlerClient` are the three globals; a client is the number of its pool, 0 is nil; `opened` counts all pools, also those of dials that failed at the ping; `hiccups` the pings that failed with the server up; `firstClient` (history) is the first pool that became a client; `monitor` and `attempt` are the program counter and loop variable of `monitorConnection`; `checked` the insert workers between the test of the flag and the use of the pointer |
| `LogIngest` | 1.2 | `pc[p]` is the step of the handler chain for a post p = ⟨chunk, try⟩; `tokens` the limiter; `gzip` how the bodies are sent and `lost` what of a body broke off unnoticed; `rows` how often the table holds a line; `tries`, `fate`, `gone` are Fluent Bit's side |
| `WorkerPool` | 1.3 | the two channels are sequences with the capacities of the code; `workers`, `inserters` are the counts of the two wait groups as sets; `mainPc` runs along the waits of `main()` |
| `PipelineRegistry` | the promise of 1.4 | the set of registered ids and every set there has been |
| `PipelineStore` | 1.4 | `live` and `conf` are the map and what its pointers point to; `writer`, `readers`, `blocked` the RWMutex with its writer preference; `data` what a `save()` has in hand; `file` the file, possibly truncated or a mixture |
| `LogBody` | 1.5 | `records` is what the body was made of, reduced to what the decoders tell apart, `alone` which records have a line of their own; `logs` the slice, as positions in `records`; `line` where the scanner is |
| `DeadLetterQueue` | 1.6 | `dlq` is the channel's buffer and `waiting` the senders that block, in their order; `held` what a retry has taken out; `doomed` and `refills` are history variables of two properties |
| `LogQuery` | 1.7 | `rows` is the table: the timestamps in the order of arrival; `column` what its rows hold in the column a client orders by; `lo`, `hi`, `limit`, `offset`, `desc`, `byTime` are the request's parameters, `total` what its count returned; `parts` the aggregates so far; `seen` all the client has got; the rest is history |
| `Ingestor` | 1.8 | the variables of `ChConnection` and `WorkerPool` next to each other, with one `mainPc` that both see through a mapping; `refusals` (history) counts the sends a server that is up has refused |
| `MC*` | | the model values TLC needs |
| `*Proofs` | | theorems and their proofs, section 5 |

Every step that another goroutine can observe is an action of its own. In
`ChConnection` the assignment to `chClient` (`Publish`) and
`isConnected.Store(true)` (`MarkConnected`) are two steps, and so are the nil
check and the call of `Close` in `main()`. In `PipelineStore` `save()` is five
steps: the call of `RLock`, the snapshot, the marshalling (outside the lock, again
reading what the pointers point to), the truncation, the write.
In `LogQuery` each query is a step, and so is a tick of the stream.
In `LogIngest` preparing the batch and sending it are two steps, because a client
may go away and the server may fail in between.

External behaviour is modelled from how the code uses it and marked so in the
map: the ClickHouse server, `sync.RWMutex` (a waiting writer keeps new readers
out, its `Unlock` admits the readers that waited), the token bucket, Fluent Bit's
retries with the `Retry_Limit` of `fluentbit_conf/cm.yaml`.

`Ingestor` has hardly any steps of its own: it takes those of the two modules
(`INSTANCE ... WITH`) and decides what each of them leaves open. `WorkerPool` lets
an insert attempt succeed or fail; in `Ingestor` it fails when the flag is down at
the test, when the server is away at the send, and it may fail on a server that is
up: no connection of the pool comes free, 30 s pass, ClickHouse reports an error. `ChConnection` assumes that
`main()` closes the client when no insert worker is past its test; in `Ingestor`
`main()` closes it when it has been through the waits of `WorkerPool`. The nil
check of `main()` and its call of `Close`, one step in `WorkerPool` and two in
`ChConnection`, are two. The request path is left to `LogIngest`: `HandleLogs` uses the handler's
copy of the pointer, which `ChConnection` shows to be set once and never again, so
that nothing the pool or the monitor does reaches it.

`LogQuery` follows one session: reads change nothing, so two sessions do not see
each other, and what other processes do to the table is `Arrive`. A row is its
number, its timestamp and what it holds in the column that `order_by` names, any
assignment of `Keys` to the rows; rows that are equal in the column they are ordered
by come in either order, independently in each page. A limit below 1, which
`/get-logs` passes on, becomes `DefaultLimit` in `QueryLogs`. `Client.Query` cancels
the context of the rows it returns, so the answer of `/query` may end early with
ClickHouse up (`QueryCancelled`). The aggregate by namespace keeps the
`NamespaceLimit` largest only, which hold a row each at least. Filters other than the time window only make the table
smaller and are left out, as is the 30-day TTL. `internal/query` does not compile at
this commit (line 179 gives a `uint64` to `Total int64`); the model takes it with the
conversion that is missing. `GetStatsFull` scans counts, which are `UInt64`, into
`int64` fields and looks at no error: whether the driver does that or refuses it and
leaves a zero is its own affair, so the model allows both.

`LogBody` runs without other processes: its steps are the iterations of the code.
Its bodies are NDJSON, one object over several lines, or an array in which any of
the records have a line of their own, without a comma or bracket on it: none as Fluent
Bit sends it, the last one in an array with commas at the ends of lines, all but the
first with commas on other lines, and so on. Two records on one line of NDJSON and
other JSON values are left out.

`WorkerPool.Produce` needs a word. `main()` hands `logQueue` to the handler
package, but at this commit nothing sends on it: `HandleLogs` inserts directly.
`Produce` is what the channel is there for. With `Logs = {}` the module is
exactly the running program and the shutdown properties are about it; with entries
it checks that the pool keeps its side as soon as a sender uses it again. The same
holds for `DeadLetterQueue.AddToDLQ`, which has no caller at this commit either.

Commented with "Mutant" in the modules stand variants of single definitions, each
a mistake one could make in that code. No specification uses them: putting one in
the place of its definition breaks the property `PROJECT.json` names for it.

## 3. Runs

| run | question | result |
|---|---|---|
| `connection` | flag and pointer against outages, redials, workers and shutdown in every order | holds, 61 027 states |
| `ingest` | overlapping posts of a chunk: duplicates, losses, termination; an ingestor that dies and restarts | holds, 171 955 states |
| `pool` | entries and shutdown with two workers and two insert workers | holds, 41 789 states |
| `ingestor` | pool and connection under one `main()`: is it both | holds, 63 868 states |
| `pipelines` | concurrent requests, overlapping saves, a crash anywhere, with and without a file; refinement of `PipelineRegistry`; is every request answered | holds, 398 000 states |
| `log_body` | every body of up to three records against the three decoders | holds, 59 771 states |
| `dead_letters` | retries, flushes and failing logs on one channel in every order | holds, 26 901 states |
| `query` | sessions over a table that grows, a clock that moves and a ClickHouse that breaks | holds, 1 083 864 states |
| `connection_handler`, `connection_auto`, `ingest_dlq`, `pipelines_update` | what the repository says and the code does not do | violated, section 4 |

What the properties say:

* `ConnectedMeansLatestClient`, `InsertClientUsable`: the two unsynchronised
  variables are written in the one order that is safe, and shutdown waits for the
  insert workers, so a tested client is there when used and has not been closed.
  `PoolsBounded`: pools are leaked by failed dials and by reconnections. Without a
  first client the monitor leaks one in each round, for as long as that lasts; from
  then on an outage costs `MaxRetries` pools at most, a ping that fails with the
  server up one, and the close of the client one.
  `FirstConnection`, `ReconnectsInTime`: the nil branch never gives up; the redial
  loop uses all its attempts.
* `DuplicatesBounded`: a line is stored at most once more than Fluent Bit gave up
  posts of its chunk. It holds *because* the handler answers 200 whatever became of
  the insert, and also when the ingestor dies: a crash costs a duplicate only because
  the answer is lost with it. `LossExplained` is the other side of that: a missing
  line of a delivered chunk was skipped, its insert failed, or its gzip body broke
  off before it. `PostsFinish` depends
  on the timeout.
* `NoSendAfterClose`, `DrainedBeforeClose`, `CloseSparesRequests`,
  `ShutdownCompletes`: the order of the waits in `main()`. `EntriesAccounted`: in
  one place, or settled once.
* `LockedReadsWhole`: an update is made field by field under the write lock, and no
  reader under the read lock sees half of it. It is stated for a process that was
  not restarted, for a reason worth knowing: `save()` marshals after `RUnlock`, so
  the *file* can hold half an update, and `load()` brings it back.
  `QuiescentFileMatches`, `AckedSurviveRestart`: exactly when the file can be
  behind the map, namely after saves that overlapped or failed, or a death between
  truncation and write. The history variables `clean` and `acked` are there for
  these two properties. `RefinesRegistry`: whatever is lost, a restart brings back
  a set the service once had. `RequestsAnswered`: the lock-out of update and
  delete is the only way to lose an answer.

* `ValidBodyComplete` is what `HandleLogs` promises; the other three say what
  becomes of bodies that are not valid. `DoubledOnlyAlone`: a type error
  in one record of an array lets the line decoder append every other one whose line
  decodes a second time; without a type error, or a line of its own, none is doubled.
  `MissingExplained`: a record missing after a 200 was in no array that parses, and its
  line did not decode or lay behind one that is too long.
  `RefusedMeansUnreadable`: a 400 leaves nothing behind - but an NDJSON body that
  is valid and begins with a line over 64 KB is refused too.
* `NoEntryLost`: in one place, through every receive and send. `FlushClears`: what a
  flush leaves was in a retry's hands. `BlockedByRefill`: retries and flushes
  alone never make a retry wait. `RequestsEnd`: a request ends or waits in a
  channel that stays full, which one flush would end.
* `PagingSkipsNothing`: by whatever column and in whichever direction, rows that
  arrive show up twice rather than hide others; its premises are the list of what *can*
  cost a client a row: a row that arrived between the last count and its page, a row
  before it that left the window (never newest first by timestamp, else in any order), a
  cut answer, a row that is equal in the column ordered by. `PageFillsTotal`: only a cut answer is shorter than its
  total says. `StreamCatchesUp`: the stream remembers nothing; once the table is at rest it
  has missed only rows that, in that table, 50 others at least as new stand before.
  That a burst between two ticks overtakes a row is not excluded by it.
  `StatsTotalExplained`: what the total and the other counts of the five aggregates
  can contradict each other for.
* `ImplementsPool`, `ImplementsConnection`: the two modules with their fairness, so
  everything shown of them holds of the process, `InsertClientUsable` and
  `ShutdownCompletes` among it. `ConnectedInserts` is what neither can say alone: an
  entry in `batchQueue` while the connection lasts is inserted, whatever `main()` does,
  unless the server refuses `MaxRetries` batches from then on.

### Bounds

| run | bound | why it is enough |
|---|---|---|
| `connection*` | 2 retries, 3 outages, 2 hiccups (`connection_auto`: none, an outage is what it is about), 4 pools before there is a client, 2 insert workers | an outage is survived, one exhausts the loop, and one comes during shutdown; pings fail with the server up around each; dials fail before the first client; two workers hold different stages of test and use |
| `ingest` | 1 chunk, 3 lines (full, empty, refused by the batch), 1 retry, burst 1, 2 outages, 2 crashes; `ingest_dlq`: 2 lines, 1 outage, no crash | two posts of one chunk overlap, more than the burst admits at once; with the bodies in gzip any part of one breaks off; a crash hits handlers in different stages, with ClickHouse up and away; chunks interact only through the limiter, which the posts of one chunk share already |
| `pool` | 3 entries, queue 2, batch queue 1, 1 attempt, 1 request slot | both channels fill up, a drop happens, a batch waits while another one is inserted |
| `pipelines` | 2 requests, 2 ids, 1 crash, with and without a path | two saves overlap in every way, with each other and with an update; a writer and a reader meet; a crash hits any step; a stuck request and a waiting one |
| `ingestor` | 1 entry, both queues of length 1, 1 worker, 2 insert workers, 2 retries, 1 outage, no hiccups, 1 pool before there is a client | sends are refused with the server up, without a bound; hiccups and failed first dials are `connection`'s; the outage falls before, between and behind test and send; both attempts fall into it or one; one insert worker has left while the other is still in its retries; the redial loop is exhausted |
| `query` | 3 rows, 3 times, 2 keys, limits 1 and 2, default limit 3, 1 outage, a window of 1, 1 row per round of the stream, 1 namespace | three pages of one row or a full and a short one; two rows share a time or a key; the order of the keys is that of the times or against it; a row arrives between any two queries; one leaves the window; a stream is overtaken |
| `log_body` | 3 records, each of 5 kinds and long or short, in every layout | a first, a middle and a last record; the reason and its victim are two different ones |
| `dead_letters` | 2 requests, 3 logs, capacity 1, 2 ids | both requests hold an entry and both wait for room; a drop, a refill and a flush happen around each of them |

Request slots of `PipelineStore` and `DeadLetterQueue` are reused, so their number bounds what is in progress at a time
and not the number of requests. `MaxOutages`, `MaxHiccups`, `MaxDials`, `MaxCrashes` and the number of ids
(each create draws a new one) are the bounds that keep the state space finite;
the theorems of section 5 hold without a value for them. `RequestsAnswered` is stated
for one of the slots: nothing tells them apart, so what is shown of one holds of all.

Deadlock is not checked: every module has states in which the system has
rightly come to rest (the process has ended, all chunks are delivered or
dropped, all ids are drawn). That nobody waits for ever is the subject of the
liveness properties.

### Fairness

Weak fairness of a goroutine's steps stands for Go scheduling every runnable
goroutine and for sleeps and timeouts that end: the monitor, each worker, each
insert worker, `main()`, each request. An insert ends because `InsertBatch` has a
30 s timeout, `srv.Shutdown` because its context has one. Fluent Bit owes
nothing, and neither do failures. The only strong fairness is that of `mu.Lock()`:
Go's mutex hands itself to a waiter that starves. The handlers of the query service
run and their queries return, with rows or an error, and the ticker of a stream ticks;
that the client asks for the next page is not owed. Neither the ClickHouse
server, nor the shutdown signal, nor the arrival of requests is fair.

## 4. Where the repository says something else

| run | said | done |
|---|---|---|
| `connection_handler` | `main.go:147`: "failed to connect to ClickHouse, will retry in background" | the retry reaches `chClient`, never the handler's copy: after a start without ClickHouse `HandleLogs` inserts nothing for the life of the process, and answers 200 |
| `connection_auto` | `README.md:591`: "El ingestor auto-reconnecta" | after `MaxRetries` failed redials of one outage the monitor returns |
| `ingest_dlq` | `README.md:47`: "DLQ maneja logs fallidos" | a failed insert is logged and answered 200 (the trace: ClickHouse goes away before `PrepareBatch`); nothing calls `AddToDLQ`, so the accepted line is in neither place |
| `pipelines_update` | `README.md:717`: update is an operation of the service | with a store path the update waits for itself: `save()` calls `RLock` under the caller's `Lock`; delete likewise |

Seen while reading and not given a run: `README.md:247` bounds open connections,
per pool, while pools leak; `README.md:330` and the alerts count
`logs_received_total{status="success"}`, which is never incremented;
`README.md:373` says requests do not wait for inserts, and they do;
`README.md:196-203` retries named DLQ entries, and the code uses only how many
names it was given, takes the oldest entries and sends them to the back of the same
queue. An NDJSON line that does not decode is neither accepted nor counted as
rejected. `QueryLogs` never asks `rows.Err()`, and orders by a timestamp of one
second's resolution, or the column of `order_by` (`README.md:690`), without a tie-breaker. The generated Lua filter is called
`filter_by_namespace` while `cm.yaml` calls `filter`, returns timestamp 0 for the
records it keeps, and an empty list of included namespaces lets all of them through.

## 5. Theorems

All are proved with TLAPS for every value of the constants that satisfies the
module's `ASSUME`, which say no more than that numbers are naturals, that a
subset is one, that `NoRequest` is no request, and that a pool with workers has
insert workers. TLC evaluates them in the runs.

| theorem | says | argument |
|---|---|---|
| `ConnectionTypeOK` | `ChConnection!TypeOK` | inductive; the redial counter needs the guard of the loop |
| `FlagNamesLatestClient` | `ConnectedMeansLatestClient` | `IInv` adds what each program counter of the monitor knows of flag, pointer and newest client |
| `CheckedClientUsable` | `InsertClientUsable` | the pointer never becomes nil again, and `main()` closes only with no worker past its test |
| `LeakBounded` | `PoolsBounded` | `Owed` says how many pools of the bound must be free at each step of the monitor: what is left of the redial loop while the server is away, one while it is back or the client is closed. A failed ping brings its outage, hiccup or close to pay for it |
| `PoolTypeOK` | `WorkerPool!TypeOK` | inductive; both channels stay within their capacity |
| `CloseIsSafe`, `BatchesDrained`, `RequestsSpared` | `NoSendAfterClose`, `DrainedBeforeClose`, `CloseSparesRequests` | `IInv` ties every stage of `main()` to what its wait has established: no workers from "close" on, the channel closed from "inserters" on, no insert workers from "client" on, and an insert worker leaves only an empty closed channel |
| `NoneLostInTransit` | `EntriesAccounted` | `PlaceInv` says without counting where the pending entries are: no channel holds one twice (`OnceEach`), no two places share one (`Apart`), and the places together hold all of them (`Complete`). The four counts of the property then are those of sets of at most one element |
| `BodyTypeOK` | `LogBody!TypeOK`, with every log looked at either an entry or rejected | inductive |
| `AloneDoubled`, `MissingHasReason`, `RefusedUnreadable` | `DoubledOnlyAlone`, `MissingExplained`, `RefusedMeansUnreadable` | `IInv` says after each decoder which positions `logs` must hold and which it can hold twice: a parsed array leaves all, the scanner every good line before `line` and, on top of an array, only records whose lines decode |
| `ValidBodyRead` | `ValidBodyComplete` | `ValidInv`: of a body without bad records the decoders leave the identity on `1 .. n` in `logs`, whichever of the three read it, and `accepted` is an increasing selection of it; rejected and accepted add up to what was counted. `FS_CountingElements` gives their number |
| `QueueTypeOK` | `DeadLetterQueue!TypeOK` | inductive; needs that a retry in its loop has rounds left |
| `EntriesKept` | `NoEntryLost` | `TailOf` and `AppendTo` say what a receive and a send do to the set of queued entries; a waiting request has an entry of its own |
| `FlushComplete` | `FlushClears` | what a flush owes is queued or held by a request that waits, and none waits for an empty channel |
| `RetryBlockedByRefill` | `BlockedByRefill` | `RoomInv`: without refills, queued entries and holders together are at most the capacity. A receive moves one from the first to the second, a retry moves it back, and `AddToDLQ` either finds a place that nobody holds or counts as a refill |
| `IngestTypeOK` | `LogIngest!TypeOK` | inductive but for the bound of `rows`, which is a matter of counting, see the next row |
| `DuplicatesAreBounded` | `DuplicatesBounded` | each row of a line is matched by a post that has landed (`RowsInv`): its insert stored it, or its handler was killed. A landed post other than the current one was given up (`RetryInv`), because its answer was 200 or never came. `FS_*` theorems do the counting |
| `LossHasReason` | `LossExplained` | a delivered chunk has a post answered 200, which goes with an insert that was tried or rightly left out (`PostInv`); a stored one has its rows but for those its body broke off before (`RowsInv`) |
| `ConnectionImplemented` | `Spec => Conn!Spec` of `Ingestor` | `InsertInv`: only an insert worker with a batch in hand is past its test, and none has one when `main()` reaches the client; every other step is one of `ChConnection` or leaves its variables alone |
| `PoolImplemented` | `Spec => Pool!Spec` of `Ingestor` | every step is one of `WorkerPool` or leaves its variables alone |
| `ProcessClientUsable`, `ProcessAccounts` | `InsertClientUsable`, `ConnectedMeansLatestClient`, `PoolsBounded`, `EntriesAccounted`, `DrainedBeforeClose` and `NoSendAfterClose` of the whole process | `ConnP` and `PoolP` instantiate the two proof modules with the variables of the process; `ConnectionImplemented` and `PoolImplemented` give their hypotheses |
| `InsertedIsSent` | an entry becomes inserted only by a send while ClickHouse is there, over a client that is not closed | needs both parts at once: the pool's `TypeOK` to tell a failed attempt from a successful one, the connection's `InsertClientUsable` for the client |
| `StoreTypeOK` | `PipelineStore!TypeOK`, with every holder of the read lock where a reader is | inductive |
| `ReadersSeeWhole` | `LockedReadsWhole` | a torn pipeline has a writer past "enter", and that writer excludes readers |
| `ImplementsRegistry` | `Spec => RefinesRegistry` | every snapshot, text and file holds a set in `past`; a create's id is in none of them |
| `FileMatchesAtRest` | `QuiescentFileMatches` | `MapInv` with no request in progress, see below |
| `AckedAreKept` | `AckedSurviveRestart` | `AckInv` at the crash: outside the write the file holds all that is acknowledged, and the restart loads the file |
| `QueryTypeOK` | `LogQuery!TypeOK` | inductive; needs that the window of a request never lies ahead of the clock, and that a count of rows is at most the table |
| `PagesFilled` | `PageFillsTotal` | `CountInv`: the table grows and the window of a request stands still, so the page finds at least the rows counted. `PageFills` gives the size of a page from the number of rows before each of its rows |
| `NothingSkipped` | `PagingSkipsNothing` | `SkipInv`, see below |
| `StatsExplained` | `StatsTotalExplained` | `StatsInv`: the first number is a zero or at least the rows known when the answer was begun, the last three at most the rows there are |

The lemmas `ConnectionInvariant`, `PoolInvariant`, `PlacesInvariant`, `StoreInvariant`,
`FileInvariant`, `BodyInvariant`, `ValidInvariant`, `ProtocolInvariant`, `RowsInvariant`,
`QueryInvariant`, `InsertersAwaited` and the theorem `QueueInvariant` prove the
inductive invariants; `RoomInv` is carried along in the proof of
`RetryBlockedByRefill`. Each has one step per action, or one lemma per action where
that step is long. `TypeOK` is part of them. TLC has found each of them invariant on
the instance of the component's run before it was proved.

Two of the invariants deserve a word, because the property alone says nothing of
the steps before its end.

`SkipInv` of `LogQuery` is about the rows a client may still expect (`Due`, not in
`seen`): each has at least `offset` rows before it in the order of the page
(`Before`). A page takes the rows with few others before them, so what it leaves
out has `offset + limit` before it, which is where the next one starts; rows that
arrive only add rows before it. Rows that leave the window are lost from `Before`
when they precede the row, which is why the property excepts them: newest first by
timestamp none does, by another column any may. `LatestRow` shows that the `CHOOSE` of the statistics has something
to choose.

`FileInv` of `PipelineStore` ties each `save()` in progress to the map. While saves
do not overlap there is one at most, and it writes to the file it has truncated
(`OneSave`). Whoever changes the map goes on to save it, so when nobody has yet to
take a snapshot, the text in hand, or the file if there is none, is that of the map
(`MapInv`). The creates that are answered, or are about to be without another save,
are in the file and in every text that may replace it (`AckInv`).

Every safety invariant and every safety action property of the passing runs has a
theorem. `InsertedThroughClient` is proved for the process and is no property of a
run; TLC finds it true on the instance of `Ingestor.cfg`.

Left to TLC: what holds under fairness only (`FirstConnection`,
`ReconnectsInTime`, `PostsFinish`, `ShutdownCompletes`, `RequestsAnswered`,
`RequestsEnd`, `StreamCatchesUp`, `ConnectedInserts`, and the fairness that
`ImplementsPool` and `ImplementsConnection` demand beyond the two theorems):
liveness and `ENABLED` are out of the prover's reach.

## 6. Plan

Done: `ChConnection`, `LogIngest`, `WorkerPool`, `PipelineStore` with
`PipelineRegistry`, `LogBody`, `DeadLetterQueue`, `LogQuery`, `Ingestor`, in this
order, and the theorems about their safety properties. What of the system is left
over has no state of its own, see 1.9.

Left, in proofs:

1. Corollaries of several components: what `MissingHasReason` and `LossHasReason`
   say together of a line between the body and the table needs a module that
   composes `LogBody` with `LogIngest`.
2. `AckedAreKept` could name what is lost and not only say when: a crash during the
   write loses every pipeline, a snapshot that was overtaken only those created
   after it.
