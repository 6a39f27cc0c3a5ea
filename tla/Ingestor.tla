------------------------------- MODULE Ingestor ------------------------------
(***************************************************************************)
(* The process of main.go as a whole: the worker pool (WorkerPool) and the *)
(* ClickHouse connection (ChConnection) run by one main() and meet in      *)
(* insertBatch.  Each module leaves open what the other decides:           *)
(*   - WorkerPool lets an attempt succeed or fail; here it fails when      *)
(*     isConnected is down, when the server is away as the batch is sent,  *)
(*     or when it is refused all the same;                                 *)
(*   - ChConnection assumes that no insert worker uses the client once     *)
(*     main() closes it; here main() closes it when the pool has drained.  *)
(* Both modules' steps are taken as they are; their main() is this one,    *)
(* seen through PoolMain and ConnMain.                                     *)
(***************************************************************************)
EXTENDS Naturals, Sequences

CONSTANTS
  Logs, Workers, Inserters, Handlers, QueueSize, BatchCapacity,
  MaxRetries,   \* cfg.MaxRetries, of the redials and of the inserts
  MaxOutages, MaxHiccups, MaxDials

(* What the two modules assume. *)
ASSUME IngestorAssumption ==
  /\ QueueSize \in Nat /\ BatchCapacity \in Nat
  /\ MaxRetries \in Nat /\ MaxOutages \in Nat
  /\ MaxHiccups \in Nat /\ MaxDials \in Nat
  /\ Inserters = {} => Workers = {}

VARIABLES
  reachable, outages, hiccups, opened, firstClient, chClient, closedClient,
  handlerClient, isConnected, monitor, redial, checked,
  sent, logQueue, batchQueue, batchClosed, shutdown, holding, workers,
  inserting, attempt, inserters, active, timedOut, result,
  refusals,     \* sends that failed with the server up (history)
  mainPc        \* where main() is

(* The nil check of main() and its call of Close are one step of WorkerPool,*)
(* and the waits before them none of ChConnection.                          *)
PoolMain == IF mainPc = "closing" THEN "client"
            ELSE IF mainPc = "exited" THEN "closed" ELSE mainPc
ConnMain == IF mainPc \in {"workers", "close", "inserters", "client"}
            THEN "draining" ELSE mainPc

Pool == INSTANCE WorkerPool WITH mainPc <- PoolMain
Conn == INSTANCE ChConnection WITH mainPc <- ConnMain, attempt <- redial

connVars == <<reachable, outages, hiccups, opened, firstClient, chClient,
              closedClient, handlerClient, isConnected, monitor, redial, checked>>
insertVars == <<inserting, attempt, result>>
poolVars == <<sent, logQueue, batchQueue, batchClosed, shutdown, holding,
              workers, inserters, active, timedOut, insertVars>>
vars == <<connVars, poolVars, refusals, mainPc>>

Init == mainPc = "serving" /\ refusals = 0 /\ Conn!Init /\ Pool!Init

-----------------------------------------------------------------------------
(* Steps of one of the two that the other does not see. *)
Connection ==
  /\ UNCHANGED <<mainPc, refusals, poolVars>>
  /\ Conn!ServerDown \/ Conn!ServerUp \/ Conn!Monitor

Running == mainPc # "exited"

Request(h) ==
  /\ UNCHANGED <<mainPc, refusals, connVars>> /\ Running
  /\ Pool!RequestStart(h) \/ Pool!RequestEnd(h)

Produce(e) ==
  /\ UNCHANGED <<mainPc, refusals, connVars>> /\ Running
  /\ Pool!Produce(e)

Worker(w) ==
  /\ UNCHANGED <<mainPc, refusals, connVars>>
  /\ Pool!Worker(w)

-----------------------------------------------------------------------------
(* insertBatch: an attempt ends at once when the flag is down; otherwise    *)
(* the client is read, and the batch sent, in a later step.                 *)
Trying(i) == inserting[i] # {} /\ attempt[i] < MaxRetries /\ i \notin checked

AttemptFails(i) == attempt' = [attempt EXCEPT ![i] = @ + 1]

Check(i) ==
  /\ UNCHANGED <<mainPc, refusals>>
  /\ Trying(i)
  /\ IF isConnected
     THEN Conn!InsertCheck(i) /\ UNCHANGED poolVars
     ELSE UNCHANGED connVars /\ Pool!InsertAttempt(i) /\ AttemptFails(i)

Fails(i) ==
  /\ AttemptFails(i)
  /\ refusals' = IF reachable THEN refusals + 1 ELSE refusals

(* Mutant: a failed attempt is counted, and the batch settled all the same. *)
SendSettlesAnyway(i) ==
  /\ UNCHANGED mainPc
  /\ Conn!InsertUse(i)
  /\ Pool!Settle(i, "inserted")
  /\ \/ reachable /\ UNCHANGED <<attempt, refusals>>
     \/ Fails(i)
  /\ UNCHANGED <<sent, logQueue, batchQueue, batchClosed, shutdown, holding,
                 workers, inserters, active, timedOut>>

(* InsertBatch over the client: a server that is up takes the batch, or the *)
(* attempt fails after all (no connection of the pool comes free, 30 s are  *)
(* over, ClickHouse reports an error).                                      *)
Send(i) ==
  /\ UNCHANGED mainPc
  /\ Conn!InsertUse(i)
  /\ Pool!InsertAttempt(i)
  /\ \/ reachable /\ UNCHANGED <<attempt, refusals>>
     \/ Fails(i)

Inserter(i) ==
  \/ Check(i) \/ Send(i)
  \/ /\ UNCHANGED <<mainPc, refusals, connVars>>
     /\ Pool!InserterTake(i) \/ Pool!InsertGiveUp(i) \/ Pool!InserterExit(i)

-----------------------------------------------------------------------------
(* main() from the signal on. *)
Signal ==
  /\ mainPc = "serving" /\ mainPc' = "draining"
  /\ Pool!Signal
  /\ UNCHANGED <<refusals, connVars>>

Await ==
  /\ mainPc' \in {"workers", "close", "inserters", "client"}
  /\ Pool!ServerDrained \/ Pool!WorkersDone \/ Pool!CloseBatchQueue
     \/ Pool!InsertersDone
  /\ UNCHANGED <<refusals, connVars>>

CloseCheck ==
  /\ mainPc = "client"
  /\ mainPc' = IF chClient = Conn!Nil THEN "closed" ELSE "closing"
  /\ UNCHANGED <<refusals, connVars, poolVars>>

CloseClient ==
  /\ mainPc = "closing" /\ mainPc' = "closed"
  /\ Conn!CloseClient
  /\ UNCHANGED <<refusals, poolVars>>

Exit ==
  /\ mainPc = "closed" /\ mainPc' = "exited"
  /\ UNCHANGED <<refusals, connVars, poolVars>>

Main == Signal \/ Await \/ CloseCheck \/ CloseClient \/ Exit

Next ==
  \/ Connection
  \/ \E h \in Handlers : Request(h)
  \/ \E e \in Logs : Produce(e)
  \/ \E w \in Workers : Worker(w)
  \/ \E i \in Inserters : Inserter(i)
  \/ Main

Spec == Init /\ [][Next]_vars

(* As in the two modules. *)
FairSpec ==
  /\ Spec
  /\ WF_vars(Connection /\ Conn!Monitor)
  /\ \A w \in Workers : WF_vars(Worker(w))
  /\ \A i \in Inserters : WF_vars(Inserter(i))
  /\ WF_vars(Main)

-----------------------------------------------------------------------------
(* Properties *)

(* The process is a worker pool, with its fairness: all that is shown of    *)
(* WorkerPool holds of it.                                                  *)
ImplementsPool == Pool!FairSpec

(* It is the connection that ChConnection describes: the waits of main()    *)
(* give what that module assumes of the insert workers.                     *)
ImplementsConnection == Conn!FairSpec

InQueue(e) == \E n \in DOMAIN batchQueue : batchQueue[n] = e

(* While the connection lasts a queued entry is given up only when the      *)
(* server has refused MaxRetries batches since; with fewer refusals it is   *)
(* inserted, also when main() shuts the pool down meanwhile.                *)
ConnectedInserts ==
  \A e \in Logs, n \in 0 .. MaxRetries :
    []( /\ InQueue(e) /\ refusals = n
        /\ [](reachable /\ isConnected /\ refusals < n + MaxRetries)
        => <>(result[e] = "inserted") )

=============================================================================
