----------------------------- MODULE WorkerPool -----------------------------
(***************************************************************************)
(* The worker pool of main.go and the orderly shutdown around it:          *)
(*   - startWorker moves entries from logQueue to batchQueue, each as a    *)
(*     batch of its own, and drops one that finds batchQueue full;         *)
(*   - startInsertWorker inserts batches, with cfg.MaxRetries attempts;    *)
(*   - main() on the signal closes shutdownCh, lets the HTTP server drain  *)
(*     for 30 s, waits for the workers, closes batchQueue, waits for the   *)
(*     insert workers and closes the ClickHouse client.                    *)
(*                                                                         *)
(* handler.SetLogQueue hands logQueue to the request handlers.  At this    *)
(* commit none of them sends on it (HandleLogs inserts directly), so       *)
(* Produce is the contract of the channel and not a step of the program;   *)
(* with Logs = {} the module is the program as it stands.                  *)
(***************************************************************************)
EXTENDS Naturals, Sequences, FiniteSets

CONSTANTS
  Logs,             \* the entries sent on logQueue, each at most once
  Workers, Inserters,
  Handlers,         \* requests to /logs that can be in progress at once
  QueueSize,        \* cfg.QueueSize
  BatchCapacity,    \* of batchQueue: 100 in main()
  MaxRetries        \* cfg.MaxRetries

ASSUME PoolAssumption ==
  /\ QueueSize \in Nat /\ BatchCapacity \in Nat /\ MaxRetries \in Nat
  /\ Inserters = {} => Workers = {}  \* main() starts cfg.WorkerCount of each

VARIABLES
  sent,          \* history: entries sent on logQueue
  logQueue,
  batchQueue,
  batchClosed,   \* close(batchQueue) was called
  shutdown,      \* shutdownCh is closed
  holding,       \* the entry a worker holds between its two channels
  workers,       \* the workers that have not returned
  inserting,     \* the batch an insert worker retries
  attempt,       \* i of insertBatchWithRetry
  inserters,     \* the insert workers that have not returned
  active,        \* requests in progress, which insert on their own
  timedOut,      \* srv.Shutdown gave up after 30 s
  mainPc,
  result         \* history: what became of an entry

queues == <<sent, logQueue, batchQueue, batchClosed>>
workerVars == <<holding, workers>>
inserterVars == <<inserting, attempt, inserters>>
server == <<active, timedOut>>
vars == <<queues, shutdown, workerVars, inserterVars, server, mainPc, result>>

TypeOK ==
  /\ sent \subseteq Logs
  /\ logQueue \in Seq(Logs) /\ Len(logQueue) <= QueueSize
  /\ batchQueue \in Seq(Logs) /\ Len(batchQueue) <= BatchCapacity
  /\ batchClosed \in BOOLEAN /\ shutdown \in BOOLEAN
  /\ holding \in [Workers -> SUBSET Logs]
  /\ workers \subseteq Workers
  /\ inserting \in [Inserters -> SUBSET Logs]
  /\ attempt \in [Inserters -> 0 .. MaxRetries]
  /\ inserters \subseteq Inserters
  /\ active \subseteq Handlers
  /\ timedOut \in BOOLEAN
  /\ mainPc \in {"serving", "draining", "workers", "close", "inserters",
                 "client", "closed"}
  /\ result \in [Logs -> {"none", "inserted", "failed", "dropped"}]

Init ==
  /\ sent = {} /\ logQueue = <<>> /\ batchQueue = <<>> /\ batchClosed = FALSE
  /\ shutdown = FALSE
  /\ holding = [w \in Workers |-> {}] /\ workers = Workers
  /\ inserting = [i \in Inserters |-> {}]
  /\ attempt = [i \in Inserters |-> 0] /\ inserters = Inserters
  /\ active = {} /\ timedOut = FALSE
  /\ mainPc = "serving"
  /\ result = [e \in Logs |-> "none"]

-----------------------------------------------------------------------------
(* The HTTP server: requests start until Shutdown is called, and end. *)
(* Mutant: the listener stays open until the process ends. *)
RequestStartLate(h) ==
  /\ active' = active \union {h}
  /\ UNCHANGED <<queues, shutdown, workerVars, inserterVars, timedOut, mainPc, result>>

RequestStart(h) ==
  /\ mainPc = "serving"
  /\ active' = active \union {h}
  /\ UNCHANGED <<queues, shutdown, workerVars, inserterVars, timedOut, mainPc, result>>

RequestEnd(h) ==
  /\ h \in active
  /\ active' = active \ {h}
  /\ UNCHANGED <<queues, shutdown, workerVars, inserterVars, timedOut, mainPc, result>>

Produce(e) ==
  /\ active # {}
  /\ e \notin sent
  /\ Len(logQueue) < QueueSize
  /\ sent' = sent \union {e}
  /\ logQueue' = Append(logQueue, e)
  /\ UNCHANGED <<batchQueue, batchClosed, shutdown, workerVars, inserterVars,
                 server, mainPc, result>>

-----------------------------------------------------------------------------
(* startWorker: a select between shutdownCh and logQueue, either of which   *)
(* may be taken when both are ready.                                        *)
WorkerExit(w) ==
  /\ w \in workers /\ holding[w] = {}
  /\ shutdown
  /\ workers' = workers \ {w}
  /\ UNCHANGED <<queues, shutdown, holding, inserterVars, server, mainPc, result>>

WorkerTake(w) ==
  /\ w \in workers /\ holding[w] = {}
  /\ logQueue # <<>>
  /\ holding' = [holding EXCEPT ![w] = {Head(logQueue)}]
  /\ logQueue' = Tail(logQueue)
  /\ UNCHANGED <<sent, batchQueue, batchClosed, shutdown, workers, inserterVars,
                 server, mainPc, result>>

Drop(e) == result' = [result EXCEPT ![e] = "dropped"]

(* Mutant: the send does not look at the capacity. *)
WorkerForwardUnbounded(w) ==
  /\ \E e \in holding[w] : batchQueue' = Append(batchQueue, e)
  /\ holding' = [holding EXCEPT ![w] = {}]
  /\ UNCHANGED <<sent, logQueue, batchClosed, shutdown, workers, inserterVars,
                 server, mainPc, result>>

WorkerForward(w) ==
  /\ \E e \in holding[w] :
       IF Len(batchQueue) < BatchCapacity
       THEN batchQueue' = Append(batchQueue, e) /\ UNCHANGED result
       ELSE Drop(e) /\ UNCHANGED batchQueue
  /\ holding' = [holding EXCEPT ![w] = {}]
  /\ UNCHANGED <<sent, logQueue, batchClosed, shutdown, workers, inserterVars,
                 server, mainPc>>

-----------------------------------------------------------------------------
(* startInsertWorker: range over batchQueue, insertBatchWithRetry on each. *)
InserterTake(i) ==
  /\ i \in inserters /\ inserting[i] = {}
  /\ batchQueue # <<>>
  /\ inserting' = [inserting EXCEPT ![i] = {Head(batchQueue)}]
  /\ attempt' = [attempt EXCEPT ![i] = 0]
  /\ batchQueue' = Tail(batchQueue)
  /\ UNCHANGED <<sent, logQueue, batchClosed, shutdown, workerVars, inserters,
                 server, mainPc, result>>

Settle(i, what) ==
  /\ result' = [e \in Logs |-> IF e \in inserting[i] THEN what ELSE result[e]]
  /\ inserting' = [inserting EXCEPT ![i] = {}]

(* Mutant: a successful attempt does not end the loop. *)
InsertAttemptGoesOn(i) ==
  /\ inserting[i] # {} /\ attempt[i] < MaxRetries
  /\ \/ result' = [e \in Logs |-> IF e \in inserting[i] THEN "inserted" ELSE result[e]]
     \/ UNCHANGED result
  /\ attempt' = [attempt EXCEPT ![i] = @ + 1]
  /\ UNCHANGED <<queues, shutdown, workerVars, inserting, inserters, server, mainPc>>

(* One insertBatch: ClickHouse takes the batch, or it is disconnected or    *)
(* answers with an error.                                                   *)
InsertAttempt(i) ==
  /\ inserting[i] # {} /\ attempt[i] < MaxRetries
  /\ \/ Settle(i, "inserted") /\ UNCHANGED attempt
     \/ attempt' = [attempt EXCEPT ![i] = @ + 1] /\ UNCHANGED <<inserting, result>>
  /\ UNCHANGED <<queues, shutdown, workerVars, inserters, server, mainPc>>

InsertGiveUp(i) ==
  /\ inserting[i] # {} /\ attempt[i] = MaxRetries
  /\ Settle(i, "failed")
  /\ UNCHANGED <<queues, shutdown, workerVars, attempt, inserters, server, mainPc>>

(* Mutant: the insert workers stop at the close, whatever is queued. *)
InserterExitAtClose(i) ==
  /\ i \in inserters /\ inserting[i] = {}
  /\ batchClosed
  /\ inserters' = inserters \ {i}
  /\ UNCHANGED <<queues, shutdown, workerVars, inserting, attempt, server, mainPc, result>>

InserterExit(i) ==
  /\ i \in inserters /\ inserting[i] = {}
  /\ batchClosed /\ batchQueue = <<>>
  /\ inserters' = inserters \ {i}
  /\ UNCHANGED <<queues, shutdown, workerVars, inserting, attempt, server, mainPc, result>>

-----------------------------------------------------------------------------
(* main() from the signal on. *)
Signal ==
  /\ mainPc = "serving"
  /\ shutdown' = TRUE
  /\ mainPc' = "draining"
  /\ UNCHANGED <<queues, workerVars, inserterVars, server, result>>

(* srv.Shutdown returns when no request is left, or after 30 s. *)
ServerDrained ==
  /\ mainPc = "draining"
  /\ timedOut' = (active # {})
  /\ mainPc' = "workers"
  /\ UNCHANGED <<queues, shutdown, workerVars, inserterVars, active, result>>

(* Mutant: main() does not wait for the workers. *)
WorkersNotAwaited ==
  /\ mainPc = "workers"
  /\ mainPc' = "close"
  /\ UNCHANGED <<queues, shutdown, workerVars, inserterVars, server, result>>

WorkersDone ==
  /\ mainPc = "workers" /\ workers = {}
  /\ mainPc' = "close"
  /\ UNCHANGED <<queues, shutdown, workerVars, inserterVars, server, result>>

(* Mutant: batchQueue is never closed. *)
CloseBatchQueueForgotten ==
  /\ mainPc = "close"
  /\ mainPc' = "inserters"
  /\ UNCHANGED <<queues, shutdown, workerVars, inserterVars, server, result>>

CloseBatchQueue ==
  /\ mainPc = "close"
  /\ batchClosed' = TRUE
  /\ mainPc' = "inserters"
  /\ UNCHANGED <<sent, logQueue, batchQueue, shutdown, workerVars, inserterVars,
                 server, result>>

(* Mutant: main() does not wait for the insert workers. *)
InsertersNotAwaited ==
  /\ mainPc = "inserters"
  /\ mainPc' = "client"
  /\ UNCHANGED <<queues, shutdown, workerVars, inserterVars, server, result>>

InsertersDone ==
  /\ mainPc = "inserters" /\ inserters = {}
  /\ mainPc' = "client"
  /\ UNCHANGED <<queues, shutdown, workerVars, inserterVars, server, result>>

CloseClient ==
  /\ mainPc = "client"
  /\ mainPc' = "closed"
  /\ UNCHANGED <<queues, shutdown, workerVars, inserterVars, server, result>>

Main ==
  \/ Signal \/ ServerDrained \/ WorkersDone \/ CloseBatchQueue
  \/ InsertersDone \/ CloseClient

Worker(w) == WorkerExit(w) \/ WorkerTake(w) \/ WorkerForward(w)

Inserter(i) ==
  InserterTake(i) \/ InsertAttempt(i) \/ InsertGiveUp(i) \/ InserterExit(i)

Next ==
  \/ \E h \in Handlers : RequestStart(h) \/ RequestEnd(h)
  \/ \E e \in Logs : Produce(e)
  \/ \E w \in Workers : Worker(w)
  \/ \E i \in Inserters : Inserter(i)
  \/ Main

Spec == Init /\ [][Next]_vars

(* Goroutines run, attempts end (30 s each), and so does the wait of        *)
(* srv.Shutdown.                                                            *)
FairSpec ==
  /\ Spec
  /\ \A w \in Workers : WF_vars(Worker(w))
  /\ \A i \in Inserters : WF_vars(Inserter(i))
  /\ WF_vars(Main)

-----------------------------------------------------------------------------
(* Properties *)

(* A worker between its two channels sends on batchQueue next, which panics *)
(* when main() has closed it: there is none by then.                        *)
NoSendAfterClose == batchClosed => \A w \in Workers : holding[w] = {}

(* How often an entry is somewhere between Produce and its result. *)
Occurrences(e, q) == Cardinality({n \in DOMAIN q : q[n] = e})
InTransit(e) ==
  Occurrences(e, logQueue) + Occurrences(e, batchQueue)
    + Cardinality({w \in Workers : e \in holding[w]})
    + Cardinality({i \in Inserters : e \in inserting[i]})

(* No entry is lost, duplicated or settled twice on its way through the two *)
(* channels: it is in one place until it has its result.                    *)
EntriesAccounted ==
  \A e \in Logs :
    InTransit(e) = IF e \in sent /\ result[e] = "none" THEN 1 ELSE 0

(* What reached batchQueue is inserted or given up before main() closes the *)
(* client; no insert worker is still using it.                              *)
DrainedBeforeClose ==
  mainPc \in {"client", "closed"} =>
    batchQueue = <<>> /\ \A i \in Inserters : inserting[i] = {}

(* A request in progress finds its client closed only when the 30 s of      *)
(* srv.Shutdown ran out.                                                    *)
CloseSparesRequests == mainPc = "closed" /\ active # {} => timedOut

(* The signal ends the process: the chain of waits has no cycle. *)
ShutdownCompletes == shutdown ~> mainPc = "closed"

=============================================================================
