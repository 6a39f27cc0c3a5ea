---------------------------- MODULE IngestorProofs ---------------------------
(***************************************************************************)
(* The process of main.go implements its two parts, for every number of    *)
(* workers, entries, retries and outages.  Their fairness is left to TLC.  *)
(***************************************************************************)
EXTENDS Ingestor, TLAPS

(* Only an insert worker with a batch in hand and attempts left has tested  *)
(* the flag, only one that has not returned holds a batch, and main() is    *)
(* past its waits when all have returned.                                   *)
InsertInv ==
  /\ DOMAIN inserting = Inserters /\ DOMAIN attempt = Inserters
  /\ checked \subseteq {i \in Inserters : inserting[i] # {} /\ attempt[i] # MaxRetries}
  /\ \A i \in Inserters : inserting[i] # {} => i \in inserters
  /\ mainPc \in {"client", "closing", "closed", "exited"} => inserters = {}

LEMMA InsertersAwaited == Spec => []InsertInv
<1> USE IngestorAssumption DEF InsertInv
<1>1. Init => InsertInv
  BY DEF Init, Conn!Init, Pool!Init
<1>2. InsertInv /\ [Next]_vars => InsertInv'
  <2> SUFFICES ASSUME InsertInv, [Next]_vars PROVE InsertInv'
    OBVIOUS
  <2> USE DEF connVars, poolVars, insertVars
  <2>1. CASE Connection
    <3>1. UNCHANGED checked
      BY <2>1, Zenon DEF Connection, Conn!ServerDown, Conn!ServerUp, Conn!Monitor,
         Conn!MonitorCheck, Conn!MonitorDial, Conn!Publish, Conn!MarkConnected,
         Conn!MonitorPing, Conn!MonitorRedial, Conn!MonitorRetriesSpent,
         Conn!MonitorVerdict
    <3> QED BY <2>1, <3>1 DEF Connection
  <2>2. ASSUME NEW h \in Handlers, Request(h) PROVE InsertInv'
    BY <2>2 DEF Request, Pool!RequestStart, Pool!RequestEnd, Pool!inserterVars
  <2>3. ASSUME NEW e \in Logs, Produce(e) PROVE InsertInv'
    BY <2>3 DEF Produce, Pool!Produce, Pool!inserterVars
  <2>4. ASSUME NEW w \in Workers, Worker(w) PROVE InsertInv'
    BY <2>4 DEF Worker, Pool!Worker, Pool!WorkerExit, Pool!WorkerTake,
       Pool!WorkerForward, Pool!inserterVars
  <2>5. ASSUME NEW i \in Inserters, Check(i) PROVE InsertInv'
    <3>0. i \notin checked /\ inserting[i] # {} /\ attempt[i] # MaxRetries
      BY <2>5 DEF Check, Trying
    <3>1. CASE isConnected
      <4>1. UNCHANGED <<mainPc, poolVars>> /\ checked' = checked \union {i}
        BY <2>5, <3>1 DEF Check, Conn!InsertCheck
      <4> QED BY <3>0, <4>1
    <3>2. CASE ~isConnected
      <4>1. UNCHANGED <<mainPc, checked, inserters>>
        BY <2>5, <3>2 DEF Check, Pool!InsertAttempt
      <4>2. UNCHANGED inserting \/ inserting' = [inserting EXCEPT ![i] = {}]
        BY <2>5, <3>2 DEF Check, Pool!InsertAttempt, Pool!Settle
      <4>3. attempt' = [attempt EXCEPT ![i] = @ + 1]
        BY <2>5, <3>2 DEF Check, AttemptFails
      <4> QED BY <3>0, <4>1, <4>2, <4>3
    <3> QED BY <3>1, <3>2
  <2>6. ASSUME NEW i \in Inserters, Send(i) PROVE InsertInv'
    <3>1. UNCHANGED <<mainPc, inserters>> /\ checked' = checked \ {i}
      BY <2>6 DEF Send, Conn!InsertUse, Pool!InsertAttempt
    <3>2. UNCHANGED inserting \/ inserting' = [inserting EXCEPT ![i] = {}]
      BY <2>6 DEF Send, Pool!InsertAttempt, Pool!Settle
    <3>3. UNCHANGED attempt \/ attempt' = [attempt EXCEPT ![i] = @ + 1]
      BY <2>6 DEF Send, Fails, AttemptFails
    <3> QED BY <3>1, <3>2, <3>3
  <2>7. ASSUME NEW i \in Inserters, UNCHANGED <<mainPc, connVars>>,
               Pool!InserterTake(i) \/ Pool!InsertGiveUp(i) \/ Pool!InserterExit(i)
        PROVE  InsertInv'
    <3>0. UNCHANGED <<mainPc, checked>>
      BY <2>7
    <3>1. CASE Pool!InserterTake(i)
      <4>1. /\ i \in inserters /\ inserting[i] = {} /\ UNCHANGED inserters
            /\ inserting' = [inserting EXCEPT ![i] = {Head(batchQueue)}]
            /\ attempt' = [attempt EXCEPT ![i] = 0]
        BY <3>1 DEF Pool!InserterTake
      <4>2. /\ DOMAIN inserting' = Inserters /\ DOMAIN attempt' = Inserters
            /\ \A k \in Inserters \ {i} :
                 inserting'[k] = inserting[k] /\ attempt'[k] = attempt[k]
        BY <4>1
      <4> QED BY <3>0, <4>1, <4>2
    <3>2. CASE Pool!InsertGiveUp(i)
      <4>1. /\ attempt[i] = MaxRetries /\ UNCHANGED <<attempt, inserters>>
            /\ inserting' = [inserting EXCEPT ![i] = {}]
        BY <3>2 DEF Pool!InsertGiveUp, Pool!Settle
      <4> QED BY <3>0, <4>1
    <3>3. CASE Pool!InserterExit(i)
      <4>1. /\ inserting[i] = {} /\ inserters' = inserters \ {i}
            /\ UNCHANGED <<inserting, attempt>>
        BY <3>3 DEF Pool!InserterExit
      <4> QED BY <3>0, <4>1
    <3> QED BY <2>7, <3>1, <3>2, <3>3
  <2>8. CASE Main
    <3>1. UNCHANGED <<checked, inserting, attempt, inserters>>
      BY <2>8 DEF Main, Signal, Await, CloseCheck, CloseClient, Exit, Pool!Signal,
         Pool!ServerDrained, Pool!WorkersDone, Pool!CloseBatchQueue, Pool!InsertersDone,
         Conn!CloseClient, Pool!inserterVars
    <3>2. mainPc' \in {"client", "closing", "closed", "exited"} => inserters = {}
      <4>1. CASE Await
        BY <2>8, <4>1 DEF Await, PoolMain, Pool!ServerDrained, Pool!WorkersDone,
           Pool!CloseBatchQueue, Pool!InsertersDone
      <4>2. CASE ~Await
        BY <2>8, <4>2 DEF Main, Signal, CloseCheck, CloseClient, Exit
      <4> QED BY <4>1, <4>2
    <3> QED BY <3>1, <3>2
  <2>9. CASE UNCHANGED vars BY <2>9 DEF vars
  <2> QED
    BY <2>1, <2>2, <2>3, <2>4, <2>5, <2>6, <2>7, <2>8, <2>9 DEF Next, Inserter
<1> QED BY <1>1, <1>2, PTL DEF Spec

-----------------------------------------------------------------------------
(* The process is a connection as ChConnection describes it, for any number *)
(* of insert workers, retries and outages: main() closes the client when no *)
(* insert worker is between its test of the flag and its use of the client. *)
THEOREM ConnectionImplemented == Spec => Conn!Spec
<1> USE DEF Conn!vars, Conn!env, Conn!clients, Conn!monitorVars, connVars
<1>1. Init => Conn!Init
  BY DEF Init
<1>2. InsertInv /\ [Next]_vars => [Conn!Next]_(Conn!vars)
  <2> SUFFICES ASSUME InsertInv, [Next]_vars
               PROVE  Conn!Next \/ UNCHANGED <<connVars, ConnMain>>
    OBVIOUS
  <2>1. CASE Connection
    BY <2>1 DEF Connection, Conn!Next
  <2>2. ASSUME NEW i \in Inserters, Check(i) \/ Send(i)
        PROVE  Conn!Next \/ UNCHANGED <<connVars, ConnMain>>
    BY <2>2 DEF Check, Send, ConnMain, Conn!Next
  <2>3. CASE Signal
    BY <2>3 DEF Signal, ConnMain, Conn!Next, Conn!Main, Conn!Signal
  <2>4. CASE Await
    <3>1. mainPc \in {"draining", "workers", "close", "inserters"}
      BY <2>4 DEF Await, PoolMain, Pool!ServerDrained, Pool!WorkersDone,
         Pool!CloseBatchQueue, Pool!InsertersDone
    <3> QED BY <2>4, <3>1 DEF Await, ConnMain
  <2>5. CASE CloseCheck
    <3>1. checked = {}
      BY <2>5 DEF CloseCheck, InsertInv
    <3> QED BY <2>5, <3>1 DEF CloseCheck, ConnMain, Conn!Next, Conn!Main, Conn!CloseCheck
  <2>6. CASE CloseClient
    BY <2>6 DEF CloseClient, ConnMain, Conn!Next, Conn!Main
  <2>7. CASE Exit
    BY <2>7 DEF Exit, ConnMain, Conn!Next, Conn!Main, Conn!Exit
  <2> QED
    BY <2>1, <2>2, <2>3, <2>4, <2>5, <2>6, <2>7
       DEF Next, vars, Request, Produce, Worker, Inserter, Main, ConnMain
<1> QED BY <1>1, <1>2, InsertersAwaited, PTL DEF Spec, Conn!Spec

(* It is a worker pool as WorkerPool describes it: whatever the connection  *)
(* makes of an attempt, the batch is settled once or tried again.           *)
THEOREM PoolImplemented == Spec => Pool!Spec
<1> USE DEF Pool!vars, Pool!queues, Pool!workerVars, Pool!inserterVars, Pool!server,
            poolVars, insertVars
<1>1. Init => Pool!Init
  BY DEF Init
<1>2. [Next]_vars => [Pool!Next]_(Pool!vars)
  <2> SUFFICES ASSUME [Next]_vars
               PROVE  Pool!Next \/ UNCHANGED <<poolVars, PoolMain>>
    OBVIOUS
  <2>1. CASE Connection
    BY <2>1 DEF Connection, PoolMain
  <2>2. ASSUME NEW h \in Handlers, Request(h) PROVE Pool!Next
    BY <2>2 DEF Request, Pool!Next
  <2>3. ASSUME NEW e \in Logs, Produce(e) PROVE Pool!Next
    BY <2>3 DEF Produce, Pool!Next
  <2>4. ASSUME NEW w \in Workers, Worker(w) PROVE Pool!Next
    BY <2>4 DEF Worker, Pool!Next
  <2>5. ASSUME NEW i \in Inserters, Inserter(i)
        PROVE  Pool!Next \/ UNCHANGED <<poolVars, PoolMain>>
    BY <2>5 DEF Inserter, Check, Send, PoolMain, Pool!Next, Pool!Inserter
  <2>6. CASE Signal
    BY <2>6 DEF Signal, Pool!Next, Pool!Main
  <2>7. CASE Await
    BY <2>7 DEF Await, Pool!Next, Pool!Main
  <2>8. CASE CloseCheck
    BY <2>8 DEF CloseCheck, PoolMain, Pool!Next, Pool!Main, Pool!CloseClient
  <2>9. CASE CloseClient
    BY <2>9 DEF CloseClient, PoolMain, Pool!Next, Pool!Main, Pool!CloseClient
  <2>10. CASE Exit
    BY <2>10 DEF Exit, PoolMain
  <2> QED
    BY <2>1, <2>2, <2>3, <2>4, <2>5, <2>6, <2>7, <2>8, <2>9, <2>10
       DEF Next, vars, Main, PoolMain
<1> QED BY <1>1, <1>2, PTL DEF Spec, Pool!Spec

-----------------------------------------------------------------------------
(* What is proved of the two parts, of the process *)

ConnP == INSTANCE ChConnectionProofs WITH mainPc <- ConnMain, attempt <- redial
PoolP == INSTANCE WorkerPoolProofs WITH mainPc <- PoolMain

(* The modules that are proved about are those that are implemented. *)
LEMMA ConnectionProved == Spec => ConnP!Spec
<1>1. Conn!Init => ConnP!Init
  BY DEF Conn!Init, ConnP!Init, Conn!Nil, ConnP!Nil
<1>2. [Conn!Next]_(Conn!vars) => [ConnP!Next]_(ConnP!vars)
  BY DEF
    Conn!vars, Conn!env, Conn!clients, Conn!monitorVars, Conn!Nil, Conn!Running,
    Conn!Next, Conn!ServerDown, Conn!ServerUp, Conn!Monitor, Conn!MonitorCheck,
    Conn!MonitorDial, Conn!NewClient, Conn!NewClientFails, Conn!PingOk,
    Conn!PingFails, Conn!MonitorPing, Conn!MonitorRedial, Conn!MonitorRetriesSpent,
    Conn!Publish, Conn!MarkConnected, Conn!MonitorVerdict, Conn!InsertCheck,
    Conn!InsertUse, Conn!Main, Conn!Signal, Conn!CloseCheck, Conn!CloseClient,
    Conn!Exit,
    ConnP!vars, ConnP!env, ConnP!clients, ConnP!monitorVars, ConnP!Nil,
    ConnP!Running, ConnP!Next, ConnP!ServerDown, ConnP!ServerUp, ConnP!Monitor,
    ConnP!MonitorCheck, ConnP!MonitorDial, ConnP!NewClient, ConnP!NewClientFails,
    ConnP!PingOk, ConnP!PingFails, ConnP!MonitorPing, ConnP!MonitorRedial,
    ConnP!MonitorRetriesSpent, ConnP!Publish, ConnP!MarkConnected,
    ConnP!MonitorVerdict, ConnP!InsertCheck, ConnP!InsertUse, ConnP!Main,
    ConnP!Signal, ConnP!CloseCheck, ConnP!CloseClient, ConnP!Exit
<1> QED
  BY <1>1, <1>2, ConnectionImplemented, PTL DEF Conn!Spec, ConnP!Spec

LEMMA PoolProved == Spec => PoolP!Spec
<1>1. Pool!Init => PoolP!Init
  BY DEF Pool!Init, PoolP!Init
<1>2. [Pool!Next]_(Pool!vars) => [PoolP!Next]_(PoolP!vars)
  BY DEF
    Pool!vars, Pool!queues, Pool!workerVars, Pool!inserterVars, Pool!server,
    Pool!Next, Pool!RequestStart, Pool!RequestEnd, Pool!Produce, Pool!Worker,
    Pool!WorkerExit, Pool!WorkerTake, Pool!Drop, Pool!WorkerForward, Pool!Inserter,
    Pool!InserterTake, Pool!Settle, Pool!InsertAttempt, Pool!InsertGiveUp,
    Pool!InserterExit, Pool!Main, Pool!Signal, Pool!ServerDrained, Pool!WorkersDone,
    Pool!CloseBatchQueue, Pool!InsertersDone, Pool!CloseClient,
    PoolP!vars, PoolP!queues, PoolP!workerVars, PoolP!inserterVars, PoolP!server,
    PoolP!Next, PoolP!RequestStart, PoolP!RequestEnd, PoolP!Produce, PoolP!Worker,
    PoolP!WorkerExit, PoolP!WorkerTake, PoolP!Drop, PoolP!WorkerForward,
    PoolP!Inserter, PoolP!InserterTake, PoolP!Settle, PoolP!InsertAttempt,
    PoolP!InsertGiveUp, PoolP!InserterExit, PoolP!Main, PoolP!Signal,
    PoolP!ServerDrained, PoolP!WorkersDone, PoolP!CloseBatchQueue,
    PoolP!InsertersDone, PoolP!CloseClient
<1> QED
  BY <1>1, <1>2, PoolImplemented, PTL DEF Pool!Spec, PoolP!Spec

LEMMA PartsAssumptions ==
  /\ ConnP!ConnectionAssumption
  /\ PoolP!PoolAssumption
BY IngestorAssumption DEF ConnP!ConnectionAssumption, PoolP!PoolAssumption

(* The insert workers of the process find a client that is open whenever    *)
(* they have seen isConnected up, and that flag names the latest client;    *)
(* after the first client an outage costs at most MaxRetries pools, and a   *)
(* hiccup one, however the reconnections fall into the work of the pool and *)
(* its shutdown.                                                            *)
THEOREM ProcessClientUsable ==
  Spec => []( /\ Conn!InsertClientUsable
              /\ Conn!ConnectedMeansLatestClient
              /\ Conn!PoolsBounded )
<1>1. ConnP!Spec => []ConnP!InsertClientUsable
  BY PartsAssumptions, ConnP!CheckedClientUsable
<1>2. ConnP!Spec => []ConnP!ConnectedMeansLatestClient
  BY PartsAssumptions, ConnP!FlagNamesLatestClient
<1>3. ConnP!Spec => []ConnP!PoolsBounded
  BY PartsAssumptions, ConnP!LeakBounded
<1>4. /\ ConnP!InsertClientUsable => Conn!InsertClientUsable
      /\ ConnP!ConnectedMeansLatestClient => Conn!ConnectedMeansLatestClient
      /\ ConnP!PoolsBounded => Conn!PoolsBounded
  BY DEF ConnP!InsertClientUsable, Conn!InsertClientUsable,
    ConnP!ConnectedMeansLatestClient, Conn!ConnectedMeansLatestClient,
    ConnP!PoolsBounded, Conn!PoolsBounded, ConnP!OutageCost, Conn!OutageCost,
    ConnP!Closed, Conn!Closed, ConnP!Nil, Conn!Nil
<1> QED
  BY <1>1, <1>2, <1>3, <1>4, ConnectionProved, PTL

(* The process loses, doubles and settles twice none of the entries it has  *)
(* taken, and closes the client when all that came through is settled,      *)
(* whatever ClickHouse does meanwhile.                                      *)
THEOREM ProcessAccounts ==
  Spec => []( /\ Pool!EntriesAccounted
              /\ Pool!DrainedBeforeClose
              /\ Pool!NoSendAfterClose )
<1>1. PoolP!Spec => []PoolP!EntriesAccounted
  BY PartsAssumptions, PoolP!NoneLostInTransit
<1>2. PoolP!Spec => []PoolP!DrainedBeforeClose
  BY PartsAssumptions, PoolP!BatchesDrained
<1>3. PoolP!Spec => []PoolP!NoSendAfterClose
  BY PartsAssumptions, PoolP!CloseIsSafe
<1>4. PoolP!EntriesAccounted => Pool!EntriesAccounted
  <2>1. \A S : PoolP!Cardinality(S) = Pool!Cardinality(S)
    BY DEF PoolP!Cardinality, Pool!Cardinality
  <2>2. \A e \in Logs : PoolP!InTransit(e) = Pool!InTransit(e)
    BY <2>1, Zenon
       DEF PoolP!InTransit, Pool!InTransit, PoolP!Occurrences, Pool!Occurrences
  <2> QED
    BY <2>2 DEF PoolP!EntriesAccounted, Pool!EntriesAccounted
<1>5. PoolP!DrainedBeforeClose => Pool!DrainedBeforeClose
  BY DEF PoolP!DrainedBeforeClose, Pool!DrainedBeforeClose
<1>6. PoolP!NoSendAfterClose => Pool!NoSendAfterClose
  BY DEF PoolP!NoSendAfterClose, Pool!NoSendAfterClose
<1> QED
  BY <1>1, <1>2, <1>3, <1>4, <1>5, <1>6, PoolProved, PTL

(* An entry becomes inserted only by a send that ClickHouse was up for,     *)
(* over a client that main() has not closed; one whose connection was down  *)
(* stays in hand or is given up.                                            *)
InsertedThroughClient ==
  [][\A e \in Logs :
       result[e] # "inserted" /\ result'[e] = "inserted"
         => reachable /\ isConnected' = isConnected /\ chClient # Conn!Nil
            /\ closedClient = Conn!Nil]_vars

THEOREM InsertedIsSent == Spec => InsertedThroughClient
<1>1. PoolP!Spec => []PoolP!TypeOK
  BY PartsAssumptions, PoolP!PoolTypeOK
<1>2. ASSUME PoolP!TypeOK, Conn!InsertClientUsable, [Next]_vars,
             NEW e \in Logs, result[e] # "inserted", result'[e] = "inserted"
      PROVE  /\ reachable /\ isConnected' = isConnected /\ chClient # Conn!Nil
             /\ closedClient = Conn!Nil
  <2> USE DEF connVars, poolVars, insertVars
  <2>1. /\ attempt \in [Inserters -> 0 .. MaxRetries]
        /\ result \in [Logs -> {"none", "inserted", "failed", "dropped"}]
    BY <1>2 DEF PoolP!TypeOK
  <2>2. \A i \in Inserters : AttemptFails(i) => attempt' # attempt
    BY <2>1, IngestorAssumption DEF AttemptFails
  <2>3. PICK i \in Inserters :
          Send(i) \/ (Check(i) /\ ~isConnected /\ Pool!InsertAttempt(i))
    <3>1. CASE Connection
      BY <1>2, <3>1 DEF Connection
    <3>2. ASSUME NEW h \in Handlers, Request(h) PROVE FALSE
      BY <1>2, <3>2 DEF Request, Pool!RequestStart, Pool!RequestEnd
    <3>3. ASSUME NEW l \in Logs, Produce(l) PROVE FALSE
      BY <1>2, <3>3 DEF Produce, Pool!Produce
    <3>4. ASSUME NEW w \in Workers, Worker(w) PROVE FALSE
      BY <1>2, <2>1, <3>4 DEF Worker, Pool!Worker, Pool!WorkerExit, Pool!WorkerTake,
        Pool!WorkerForward, Pool!Drop
    <3>5. ASSUME NEW j \in Inserters, Inserter(j)
          PROVE  Send(j) \/ (Check(j) /\ ~isConnected /\ Pool!InsertAttempt(j))
      BY <1>2, <2>1, <3>5 DEF Inserter, Check, Pool!InserterTake, Pool!InsertGiveUp,
        Pool!InserterExit, Pool!Settle
    <3>6. CASE Main
      BY <1>2, <3>6 DEF Main, Signal, Await, CloseCheck, CloseClient, Exit, Pool!Signal,
        Pool!ServerDrained, Pool!WorkersDone, Pool!CloseBatchQueue, Pool!InsertersDone
    <3>7. CASE UNCHANGED vars
      BY <1>2, <3>7 DEF vars
    <3> QED
      BY <1>2, <3>1, <3>2, <3>3, <3>4, <3>5, <3>6, <3>7 DEF Next
  <2>4. attempt' = attempt
    BY <1>2, <2>3 DEF Send, Pool!InsertAttempt
  <2>5. Send(i) /\ reachable
    BY <2>2, <2>3, <2>4 DEF Check, Send, Fails
  <2>6. i \in checked /\ UNCHANGED isConnected
    BY <2>5 DEF Send, Conn!InsertUse, Conn!monitorVars
  <2> QED
    BY <1>2, <2>5, <2>6 DEF Conn!InsertClientUsable
<1>3. PoolP!TypeOK /\ Conn!InsertClientUsable /\ [Next]_vars
        => [\A e \in Logs :
              result[e] # "inserted" /\ result'[e] = "inserted"
                => reachable /\ isConnected' = isConnected /\ chClient # Conn!Nil
                   /\ closedClient = Conn!Nil]_vars
  BY <1>2
<1> QED
  BY <1>1, <1>3, PoolProved, ProcessClientUsable, PTL DEF Spec, InsertedThroughClient

=============================================================================
