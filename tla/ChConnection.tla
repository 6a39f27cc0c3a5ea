---------------------------- MODULE ChConnection ----------------------------
(***************************************************************************)
(* The connection of the ingestor to ClickHouse, main.go:                  *)
(*   - main() opens the first client, hands it to the HTTP handler once,   *)
(*     and closes chClient after the shutdown signal;                      *)
(*   - monitorConnection() pings chClient and replaces it;                 *)
(*   - insertBatch(), run by the insert workers, reads isConnected and     *)
(*     then, without a lock, chClient.                                     *)
(* chClient is a plain global: its reads and writes by the three parties   *)
(* are separate steps.  A client is the number of the connection pool that *)
(* NewClient opened for it, counting also the pools of calls that failed   *)
(* at the ping and left theirs open; Nil is Go's nil.                      *)
(***************************************************************************)
EXTENDS Naturals

CONSTANTS
  MaxRetries,   \* cfg.MaxRetries
  MaxOutages,   \* bound: how often the ClickHouse server may go away
  MaxHiccups,   \* bound: pings that fail although a dial would succeed
  MaxDials,     \* bound: pools opened before there is a first client
  Inserters     \* the insert workers, as far as they read the connection

ASSUME ConnectionAssumption ==
  /\ MaxRetries \in Nat /\ MaxOutages \in Nat
  /\ MaxHiccups \in Nat /\ MaxDials \in Nat

Nil == 0

VARIABLES
  reachable,     \* the ClickHouse server takes new connections (environment)
  outages,       \* how often it has stopped to
  hiccups,       \* pings that failed while it did
  opened,        \* pools opened so far: the last one has this number
  firstClient,   \* the first pool that became a client, or Nil (history)
  chClient,      \* the global of main.go
  closedClient,  \* the client main() has closed, or Nil
  handlerClient, \* the pointer SetClickHouseClient stored in the handler
  isConnected,   \* the atomic flag
  monitor,       \* where monitorConnection() is
  attempt,       \* i of its redial loop
  mainPc,        \* where main() is
  checked        \* insert workers between isConnected.Load() and chClient

env == <<reachable, outages, hiccups>>
clients == <<opened, firstClient, chClient, closedClient, handlerClient>>
monitorVars == <<isConnected, monitor, attempt>>
vars == <<env, clients, monitorVars, mainPc, checked>>

TypeOK ==
  /\ reachable \in BOOLEAN
  /\ outages \in 0 .. MaxOutages
  /\ hiccups \in 0 .. MaxHiccups
  /\ opened \in Nat \ {0}
  /\ firstClient \in 0 .. opened
  /\ chClient \in 0 .. opened
  /\ closedClient \in 0 .. opened
  /\ handlerClient \in 0 .. opened
  /\ isConnected \in BOOLEAN
  /\ monitor \in {"check", "sleep", "first", "firstMark", "redial", "again",
                  "againMark", "verdict", "stopped"}
  /\ attempt \in 0 .. MaxRetries
  /\ mainPc \in {"serving", "draining", "closing", "closed", "exited"}
  /\ checked \subseteq Inserters

-----------------------------------------------------------------------------
(* Start-up: one NewClient, which opens a pool and pings it.  A server that *)
(* is away leaves the pool without an owner and chClient, and for good the  *)
(* handler's copy of it, nil.                                               *)
Init ==
  /\ reachable \in BOOLEAN
  /\ outages = 0
  /\ hiccups = 0
  /\ opened = 1
  /\ chClient = IF reachable THEN opened ELSE Nil
  /\ firstClient = chClient
  /\ isConnected = reachable
  /\ handlerClient = chClient
  /\ closedClient = Nil
  /\ monitor = "check"
  /\ attempt = 0
  /\ mainPc = "serving"
  /\ checked = {}

Running == mainPc # "exited"

-----------------------------------------------------------------------------
(* The environment: the ClickHouse server goes away and comes back. *)
ServerDown ==
  /\ Running
  /\ reachable
  /\ outages < MaxOutages
  /\ reachable' = FALSE
  /\ outages' = outages + 1
  /\ UNCHANGED <<hiccups, clients, monitorVars, mainPc, checked>>

ServerUp ==
  /\ Running
  /\ ~reachable
  /\ reachable' = TRUE
  /\ UNCHANGED <<outages, hiccups, clients, monitorVars, mainPc, checked>>

-----------------------------------------------------------------------------
(* monitorConnection.  NewClient opens a pool and pings over it; when the   *)
(* ping fails it returns without closing the pool.                          *)
NewClient == reachable /\ opened' = opened + 1

NewClientFails == ~reachable /\ opened' = opened + 1

(* A ping of the client fails when the server is away.  On a pool that was  *)
(* closed the driver may fail, or dial anew and succeed.  With the server   *)
(* up it fails too, when no connection of the pool comes free or the one    *)
(* it gets has died: a hiccup.                                              *)
PingOk == reachable /\ UNCHANGED hiccups

PingFails ==
  \/ (~reachable \/ chClient = closedClient) /\ UNCHANGED hiccups
  \/ reachable /\ hiccups < MaxHiccups /\ hiccups' = hiccups + 1

MonitorCheck ==
  /\ Running /\ monitor = "check"
  /\ monitor' = IF mainPc = "serving" THEN "sleep" ELSE "stopped"
  /\ UNCHANGED <<env, clients, isConnected, attempt, mainPc, checked>>

(* Mutant: a failed dial of the nil branch returns instead of continuing. *)
MonitorDialOnce ==
  /\ Running /\ monitor = "sleep" /\ chClient = Nil
  /\ \/ NewClient /\ firstClient' = opened' /\ monitor' = "first"
     \/ NewClientFails /\ UNCHANGED firstClient /\ monitor' = "stopped"
  /\ UNCHANGED <<env, chClient, closedClient, handlerClient, isConnected,
                 attempt, mainPc, checked>>

(* The branch chClient == nil: one NewClient per round, without a limit in  *)
(* the code (here MaxDials) while the server is away.                       *)
MonitorDial ==
  /\ Running /\ monitor = "sleep" /\ chClient = Nil
  /\ \/ NewClient /\ firstClient' = opened' /\ monitor' = "first"
     \/ /\ opened < MaxDials /\ NewClientFails
        /\ UNCHANGED firstClient /\ monitor' = "check"
  /\ UNCHANGED <<env, chClient, closedClient, handlerClient, isConnected,
                 attempt, mainPc, checked>>

MonitorPing ==
  /\ Running /\ monitor = "sleep" /\ chClient # Nil
  /\ \/ PingOk /\ monitor' = "check" /\ UNCHANGED <<isConnected, attempt>>
     \/ PingFails /\ monitor' = "redial" /\ isConnected' = FALSE /\ attempt' = 0
  /\ UNCHANGED <<reachable, outages, clients, mainPc, checked>>

(* Mutant: the loop goes on dialling after a success. *)
MonitorRedialNoBreak ==
  /\ Running /\ monitor = "redial" /\ attempt < MaxRetries
  /\ NewClient \/ NewClientFails
  /\ attempt' = attempt + 1
  /\ UNCHANGED <<env, monitor, firstClient, chClient, closedClient,
                 handlerClient, isConnected, mainPc, checked>>

(* Mutant: i <= cfg.MaxRetries in the loop head. *)
MonitorRedialOneMore ==
  /\ Running /\ monitor = "redial" /\ attempt <= MaxRetries
  /\ \/ NewClient /\ monitor' = "again" /\ UNCHANGED attempt
     \/ NewClientFails /\ attempt' = attempt + 1 /\ UNCHANGED monitor
  /\ UNCHANGED <<env, firstClient, chClient, closedClient,
                 handlerClient, isConnected, mainPc, checked>>

(* One round of the loop over cfg.MaxRetries, up to its break. *)
MonitorRedial ==
  /\ Running /\ monitor = "redial" /\ attempt < MaxRetries
  /\ \/ NewClient /\ monitor' = "again" /\ UNCHANGED attempt
     \/ NewClientFails /\ attempt' = attempt + 1 /\ UNCHANGED monitor
  /\ UNCHANGED <<env, firstClient, chClient, closedClient,
                 handlerClient, isConnected, mainPc, checked>>

(* Mutant: the loop may end one attempt early. *)
MonitorRetriesCutShort ==
  /\ Running /\ monitor = "redial" /\ attempt + 1 >= MaxRetries
  /\ monitor' = "verdict"
  /\ UNCHANGED <<env, clients, isConnected, attempt, mainPc, checked>>

MonitorRetriesSpent ==
  /\ Running /\ monitor = "redial" /\ attempt = MaxRetries
  /\ monitor' = "verdict"
  /\ UNCHANGED <<env, clients, isConnected, attempt, mainPc, checked>>

(* chClient = newClient, in either branch; the pool it replaces is not      *)
(* closed.                                                                  *)
Publish(here, there) ==
  /\ Running /\ monitor = here
  /\ chClient' = opened
  /\ monitor' = there
  /\ UNCHANGED <<env, opened, firstClient, closedClient, handlerClient,
                 isConnected, attempt, mainPc, checked>>

(* isConnected.Store(true), then continue or break. *)
MarkConnected(here, there) ==
  /\ Running /\ monitor = here
  /\ isConnected' = TRUE
  /\ monitor' = there
  /\ UNCHANGED <<env, clients, attempt, mainPc, checked>>

(* if !isConnected.Load() { return }, after the redial loop. *)
MonitorVerdict ==
  /\ Running /\ monitor = "verdict"
  /\ monitor' = IF isConnected THEN "check" ELSE "stopped"
  /\ UNCHANGED <<env, clients, isConnected, attempt, mainPc, checked>>

(* Mutant: the flag is raised before the new client is published. *)
MonitorMarksFirst ==
  \/ MonitorCheck
  \/ MonitorDial
  \/ Publish("first", "firstMark")
  \/ MarkConnected("firstMark", "check")
  \/ MonitorPing
  \/ MonitorRedial
  \/ MonitorRetriesSpent
  \/ MarkConnected("again", "againMark")
  \/ Publish("againMark", "verdict")
  \/ MonitorVerdict

Monitor ==
  \/ MonitorCheck
  \/ MonitorDial
  \/ Publish("first", "firstMark")
  \/ MarkConnected("firstMark", "check")
  \/ MonitorPing
  \/ MonitorRedial
  \/ MonitorRetriesSpent
  \/ Publish("again", "againMark")
  \/ MarkConnected("againMark", "verdict")
  \/ MonitorVerdict

-----------------------------------------------------------------------------
(* insertBatch: the flag is read first, the client when the batch is sent.  *)
(* The insert workers are gone once main() is past insertWg.Wait().         *)
InsertCheck(i) ==
  /\ mainPc \in {"serving", "draining"}
  /\ i \notin checked
  /\ isConnected
  /\ checked' = checked \union {i}
  /\ UNCHANGED <<env, clients, monitorVars, mainPc>>

InsertUse(i) ==
  /\ i \in checked
  /\ checked' = checked \ {i}
  /\ UNCHANGED <<env, clients, monitorVars, mainPc>>

-----------------------------------------------------------------------------
(* main() from the signal on.  It does not wait for the monitor, and reads  *)
(* chClient twice: in the nil check and in the call of Close.               *)
Signal ==
  /\ mainPc = "serving"
  /\ mainPc' = "draining"
  /\ UNCHANGED <<env, clients, monitorVars, checked>>

(* Mutant: main() does not wait for the insert workers. *)
CloseCheckAtOnce ==
  /\ mainPc = "draining"
  /\ mainPc' = IF chClient = Nil THEN "closed" ELSE "closing"
  /\ UNCHANGED <<env, clients, monitorVars, checked>>

CloseCheck ==
  /\ mainPc = "draining"
  /\ checked = {}
  /\ mainPc' = IF chClient = Nil THEN "closed" ELSE "closing"
  /\ UNCHANGED <<env, clients, monitorVars, checked>>

CloseClient ==
  /\ mainPc = "closing"
  /\ closedClient' = chClient
  /\ mainPc' = "closed"
  /\ UNCHANGED <<env, opened, firstClient, chClient, handlerClient, monitorVars,
                 checked>>

(* tracer.Shutdown and the end of the process. *)
Exit ==
  /\ mainPc = "closed"
  /\ mainPc' = "exited"
  /\ UNCHANGED <<env, clients, monitorVars, checked>>

Main == Signal \/ CloseCheck \/ CloseClient \/ Exit

Next ==
  \/ ServerDown \/ ServerUp
  \/ Monitor
  \/ \E i \in Inserters : InsertCheck(i) \/ InsertUse(i)
  \/ Main

Spec == Init /\ [][Next]_vars

(* Go schedules every runnable goroutine, and the sleeps of the monitor end. *)
FairSpec == Spec /\ WF_vars(Monitor)

-----------------------------------------------------------------------------
(* Properties *)

(* The flag and the pointer are two variables without a common lock.  When  *)
(* isConnected is up, chClient is the client of the latest call of          *)
(* NewClient: no reader of the flag goes on to an absent or replaced one.   *)
ConnectedMeansLatestClient == isConnected => chClient # Nil /\ chClient = opened

(* An insert worker that has seen isConnected uses the client later.        *)
(* Whatever the monitor and main() do in between, it then finds a client,   *)
(* and main() has closed none.                                              *)
InsertClientUsable == checked # {} => chClient # Nil /\ closedClient = Nil

Closed == IF closedClient = Nil THEN 0 ELSE 1

(* No pool is ever closed but main()'s at the end: neither those of failed  *)
(* dials nor those that a reconnection replaces.  Until there is a first    *)
(* client the monitor leaks one in each round.  From then on an outage      *)
(* costs one pool for each dial of the redial loop, that is MaxRetries; a   *)
(* ping that fails with the server up costs one, as does a ping of the      *)
(* client that main() has closed.                                           *)
OutageCost == MaxRetries * outages

PoolsBounded ==
  firstClient # Nil => opened <= firstClient + OutageCost + hiccups + Closed

(* An ingestor that starts while ClickHouse is away gets its first client   *)
(* when the server stays up: the nil branch of the monitor never gives up.  *)
FirstConnection ==
  <>[](reachable /\ mainPc = "serving") => <>(chClient # Nil)

(* A server that is back before the redial loop has spent its last attempt, *)
(* and stays, is reconnected to, until the process ends.                    *)
ReconnectsInTime ==
  []( /\ monitor = "redial" /\ attempt < MaxRetries
      /\ [](reachable /\ Running)
      => <>isConnected )

-----------------------------------------------------------------------------
(* What the repository says and the code does not do. *)

(* main.go:147, on a failed first connection: "will retry in background".   *)
(* When the retry has succeeded, the request handler has a client.          *)
HandlerSeesConnection == isConnected => handlerClient # Nil

(* README.md:591: when the connection to ClickHouse is lost the ingestor    *)
(* reconnects by itself.  A server that is back for good ends up connected. *)
AutoReconnects ==
  <>[](reachable /\ mainPc = "serving") => <>[]isConnected

=============================================================================
