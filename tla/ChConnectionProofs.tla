------------------------- MODULE ChConnectionProofs -------------------------
(***************************************************************************)
(* Proofs about ChConnection, for every number of retries, outages and     *)
(* hiccups and every set of insert workers.                                *)
(***************************************************************************)
EXTENDS ChConnection, TLAPS

(* Where the pointer stands relative to the pools opened: it names the      *)
(* latest one from the assignment on, until a ping fails.                   *)
PointerInv ==
  /\ isConnected \/ monitor \in {"firstMark", "againMark"} => chClient = opened
  /\ monitor \in {"first", "again"} => chClient < opened
  /\ firstClient # Nil <=> (chClient # Nil \/ monitor = "first")

(* The flag is down from the failed ping to Store(true), and rests on a     *)
(* client everywhere.                                                       *)
FlagInv ==
  /\ monitor \in {"first", "firstMark", "redial", "again", "againMark"} => ~isConnected
  /\ monitor \in {"firstMark", "redial", "again", "againMark"} => chClient # Nil
  /\ monitor = "first" => chClient = Nil
  /\ isConnected => chClient # Nil

(* What main() has done to the client at each of its steps. *)
MainInv ==
  /\ closedClient # Nil => mainPc \in {"closed", "exited"}
  /\ closedClient <= chClient
  /\ mainPc = "closing" => chClient # Nil
  /\ checked # {} => chClient # Nil /\ mainPc \in {"serving", "draining"}

(* How many pools of the bound must still be free, because a dial may come  *)
(* without a further outage or hiccup to pay for it: all of the redial loop *)
(* while the server is away, one while it is back or after main() has       *)
(* closed the client, none once the loop has been spent.                    *)
Owed ==
  IF monitor = "redial"
  THEN IF reachable /\ attempt < MaxRetries THEN 1 ELSE MaxRetries - attempt
  ELSE IF monitor = "stopped" \/ (monitor = "verdict" /\ ~isConnected) THEN 0
  ELSE (IF reachable THEN 0 ELSE MaxRetries)
       + (IF closedClient # Nil /\ chClient = closedClient /\ monitor # "again"
          THEN 1 ELSE 0)

LeakInv ==
  firstClient # Nil =>
    opened + Owed <= firstClient + OutageCost + hiccups + Closed

IInv == TypeOK /\ PointerInv /\ FlagInv /\ MainInv /\ LeakInv

-----------------------------------------------------------------------------
(* Every variable keeps to its set of values: in particular the redial loop *)
(* of the monitor never counts past MaxRetries.                             *)
THEOREM ConnectionTypeOK == Spec => []TypeOK
<1> USE ConnectionAssumption DEF TypeOK, Nil
<1>1. Init => TypeOK
  BY DEF Init
<1>2. TypeOK /\ [Next]_vars => TypeOK'
  <2> SUFFICES ASSUME TypeOK, [Next]_vars PROVE TypeOK'
    OBVIOUS
  <2> USE DEF env, clients, monitorVars
  <2>1. CASE ServerDown
    <3>1. reachable' \in BOOLEAN BY <2>1, Zenon DEF ServerDown
    <3>2. outages' \in 0 .. MaxOutages BY <2>1 DEF ServerDown
    <3> QED BY <2>1, <3>1, <3>2 DEF ServerDown
  <2>2. CASE ServerUp BY <2>2 DEF ServerUp
  <2>3. CASE MonitorCheck BY <2>3 DEF MonitorCheck
  <2>4. CASE MonitorDial BY <2>4 DEF MonitorDial, NewClient, NewClientFails
  <2>5. CASE MonitorPing
    <3>1. isConnected' \in BOOLEAN BY <2>5, Zenon DEF MonitorPing
    <3>2. attempt' \in 0 .. MaxRetries BY <2>5 DEF MonitorPing
    <3>3. hiccups' \in 0 .. MaxHiccups BY <2>5 DEF MonitorPing, PingOk, PingFails
    <3> QED BY <2>5, <3>1, <3>2, <3>3 DEF MonitorPing
  <2>6. CASE MonitorRedial BY <2>6 DEF MonitorRedial, NewClient, NewClientFails
  <2>7. CASE MonitorRetriesSpent BY <2>7 DEF MonitorRetriesSpent
  <2>8. CASE Publish("first", "firstMark") BY <2>8 DEF Publish
  <2>9. CASE Publish("again", "againMark") BY <2>9 DEF Publish
  <2>10. CASE MarkConnected("firstMark", "check") BY <2>10 DEF MarkConnected
  <2>11. CASE MarkConnected("againMark", "verdict") BY <2>11 DEF MarkConnected
  <2>12. CASE MonitorVerdict BY <2>12 DEF MonitorVerdict
  <2>13. ASSUME NEW i \in Inserters, InsertCheck(i) PROVE TypeOK'
    BY <2>13 DEF InsertCheck
  <2>14. ASSUME NEW i \in Inserters, InsertUse(i) PROVE TypeOK'
    BY <2>14 DEF InsertUse
  <2>15. CASE Signal BY <2>15 DEF Signal
  <2>16. CASE CloseCheck BY <2>16 DEF CloseCheck
  <2>17. CASE CloseClient BY <2>17 DEF CloseClient
  <2>18. CASE Exit BY <2>18 DEF Exit
  <2>19. CASE UNCHANGED vars BY <2>19 DEF vars
  <2> QED
    BY <2>1, <2>2, <2>3, <2>4, <2>5, <2>6, <2>7, <2>8, <2>9, <2>10, <2>11,
       <2>12, <2>13, <2>14, <2>15, <2>16, <2>17, <2>18, <2>19
       DEF Next, Monitor, Main
<1> QED BY <1>1, <1>2, PTL DEF Spec

-----------------------------------------------------------------------------
(* The product of the bound, on its own: it grows by MaxRetries with each   *)
(* outage.                                                                  *)
LEMMA OutageCostNat ==
  ASSUME outages \in Nat PROVE OutageCost \in Nat
<1>1. \A m, n \in Nat : m * n \in Nat
  OBVIOUS
<1> QED BY <1>1, ConnectionAssumption DEF OutageCost

LEMMA OutageCostGrows ==
  ASSUME outages \in Nat, outages' \in Nat
  PROVE  /\ OutageCost \in Nat /\ OutageCost' \in Nat
         /\ outages' = outages + 1 => OutageCost' = OutageCost + MaxRetries
         /\ outages' = outages => OutageCost' = OutageCost
<1>1. OutageCost \in Nat /\ OutageCost' \in Nat
  <2>1. \A m, n \in Nat : m * n \in Nat
    OBVIOUS
  <2> QED BY <2>1, ConnectionAssumption DEF OutageCost
<1>2. \A m, n \in Nat : m * (n + 1) = m * n + m
  OBVIOUS
<1>3. outages' = outages + 1 => OutageCost' = OutageCost + MaxRetries
  BY <1>2, ConnectionAssumption DEF OutageCost
<1>4. outages' = outages => OutageCost' = OutageCost
  BY DEF OutageCost
<1> QED BY <1>1, <1>3, <1>4

(* The inductive invariant, one step per action of Next. *)
LEMMA ConnectionInvariant == Spec => []IInv
<1>1. Init => IInv
  <2> SUFFICES ASSUME Init PROVE IInv
    OBVIOUS
  <2>1. TypeOK
    BY ConnectionAssumption DEF Init, TypeOK, Nil
  <2>2. OutageCost \in Nat
    BY OutageCostNat, <2>1 DEF TypeOK
  <2> QED
    BY <2>1, <2>2 DEF Init, Nil, Closed, IInv, PointerInv, FlagInv, MainInv, LeakInv, Owed
<1>2. IInv /\ TypeOK' /\ [Next]_vars => IInv'
  <2> SUFFICES ASSUME IInv, TypeOK', [Next]_vars PROVE IInv'
    OBVIOUS
  <2> USE ConnectionAssumption
      DEF TypeOK, Nil, Closed, IInv, PointerInv, FlagInv, MainInv, LeakInv, Owed,
          env, clients, monitorVars
  <2>0. /\ OutageCost \in Nat /\ OutageCost' \in Nat
        /\ outages' = outages + 1 => OutageCost' = OutageCost + MaxRetries
        /\ outages' = outages => OutageCost' = OutageCost
    BY OutageCostGrows
  <2>1. CASE ServerDown BY <2>0, <2>1 DEF ServerDown
  <2>2. CASE ServerUp BY <2>0, <2>2 DEF ServerUp
  <2>3. CASE MonitorCheck BY <2>0, <2>3 DEF MonitorCheck
  <2>4. CASE MonitorDial
    <3>1. /\ monitor = "sleep" /\ chClient = Nil /\ ~isConnected /\ closedClient = Nil
          /\ opened' = opened + 1
          /\ UNCHANGED <<env, chClient, closedClient, isConnected, attempt, mainPc, checked>>
      BY <2>4 DEF MonitorDial, NewClient, NewClientFails
    <3>2. CASE reachable /\ firstClient' = opened' /\ monitor' = "first"
      BY <2>0, <3>1, <3>2
    <3>3. CASE ~reachable /\ UNCHANGED firstClient /\ monitor' = "check"
      <4>1. firstClient = Nil
        BY <3>1, <3>3
      <4> QED BY <2>0, <3>1, <3>3, <4>1
    <3> QED BY <2>4, <3>2, <3>3 DEF MonitorDial, NewClient, NewClientFails
  <2>5. CASE MonitorPing
    <3>1. /\ monitor = "sleep" /\ chClient # Nil
          /\ UNCHANGED <<reachable, outages, clients, mainPc, checked>>
      BY <2>5 DEF MonitorPing
    <3>2. CASE PingOk /\ monitor' = "check" /\ UNCHANGED <<isConnected, attempt>>
      BY <2>0, <3>1, <3>2 DEF PingOk
    <3>3. CASE PingFails /\ monitor' = "redial" /\ isConnected' = FALSE /\ attempt' = 0
      <4>1. CASE UNCHANGED hiccups /\ ~reachable
        BY <2>0, <3>1, <3>3, <4>1
      <4>2. CASE UNCHANGED hiccups /\ reachable /\ chClient = closedClient
        BY <2>0, <3>1, <3>3, <4>2
      <4>3. CASE reachable /\ hiccups' = hiccups + 1
        BY <2>0, <3>1, <3>3, <4>3
      <4> QED BY <3>3, <4>1, <4>2, <4>3, Zenon DEF PingFails
    <3> QED BY <2>5, <3>2, <3>3 DEF MonitorPing
  <2>6. CASE MonitorRedial
    <3>1. /\ monitor = "redial" /\ attempt < MaxRetries /\ opened' = opened + 1
          /\ UNCHANGED <<env, firstClient, chClient, closedClient, isConnected, mainPc,
                         checked>>
      BY <2>6 DEF MonitorRedial, NewClient, NewClientFails
    <3>2. CASE reachable /\ monitor' = "again" /\ UNCHANGED attempt
      BY <2>0, <3>1, <3>2
    <3>3. CASE ~reachable /\ attempt' = attempt + 1 /\ UNCHANGED monitor
      BY <2>0, <3>1, <3>3
    <3> QED BY <2>6, <3>2, <3>3 DEF MonitorRedial, NewClient, NewClientFails
  <2>7. CASE MonitorRetriesSpent BY <2>0, <2>7 DEF MonitorRetriesSpent
  <2>8. CASE Publish("first", "firstMark") BY <2>0, <2>8 DEF Publish
  <2>9. CASE Publish("again", "againMark") BY <2>0, <2>9 DEF Publish
  <2>10. CASE MarkConnected("firstMark", "check") BY <2>0, <2>10 DEF MarkConnected
  <2>11. CASE MarkConnected("againMark", "verdict") BY <2>0, <2>11 DEF MarkConnected
  <2>12. CASE MonitorVerdict BY <2>0, <2>12 DEF MonitorVerdict
  <2>13. ASSUME NEW i \in Inserters, InsertCheck(i) PROVE IInv'
    BY <2>0, <2>13 DEF InsertCheck
  <2>14. ASSUME NEW i \in Inserters, InsertUse(i) PROVE IInv'
    BY <2>0, <2>14 DEF InsertUse
  <2>15. CASE Signal BY <2>0, <2>15 DEF Signal
  <2>16. CASE CloseCheck BY <2>0, <2>16 DEF CloseCheck
  <2>17. CASE CloseClient BY <2>0, <2>17 DEF CloseClient
  <2>18. CASE Exit BY <2>0, <2>18 DEF Exit
  <2>19. CASE UNCHANGED vars BY <2>0, <2>19 DEF vars
  <2> QED
    BY <2>1, <2>2, <2>3, <2>4, <2>5, <2>6, <2>7, <2>8, <2>9, <2>10, <2>11,
       <2>12, <2>13, <2>14, <2>15, <2>16, <2>17, <2>18, <2>19
       DEF Next, Monitor, Main
<1> QED BY <1>1, <1>2, ConnectionTypeOK, PTL DEF Spec

(* isConnected without a lock is safe to act on: it is up only while        *)
(* chClient is the latest client that was opened.                           *)
THEOREM FlagNamesLatestClient == Spec => []ConnectedMeansLatestClient
<1>1. IInv => ConnectedMeansLatestClient
  BY DEF IInv, PointerInv, FlagInv, ConnectedMeansLatestClient, Nil
<1> QED BY <1>1, ConnectionInvariant, PTL

(* The check of insertBatch stays good until its use, also across a         *)
(* reconnection and the shutdown.                                           *)
THEOREM CheckedClientUsable == Spec => []InsertClientUsable
<1>1. IInv => InsertClientUsable
  BY DEF IInv, MainInv, InsertClientUsable
<1> QED BY <1>1, ConnectionInvariant, PTL

(* Once there is a first client the pools that are opened, and never        *)
(* closed, are bounded: MaxRetries for an outage, those of failed dials     *)
(* included, and one for a failed ping of a server that is up.              *)
THEOREM LeakBounded == Spec => []PoolsBounded
<1>1. IInv => PoolsBounded
  <2> SUFFICES ASSUME IInv, firstClient # Nil
               PROVE  opened <= firstClient + OutageCost + hiccups + Closed
    BY DEF PoolsBounded
  <2>1. Owed \in Nat
    BY ConnectionAssumption DEF IInv, TypeOK, Owed
  <2>2. OutageCost \in Nat
    BY OutageCostNat DEF IInv, TypeOK
  <2> QED
    BY <2>1, <2>2 DEF IInv, TypeOK, LeakInv, Closed, Nil
<1> QED BY <1>1, ConnectionInvariant, PTL

=============================================================================
