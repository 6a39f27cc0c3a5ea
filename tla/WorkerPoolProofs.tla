-------------------------- MODULE WorkerPoolProofs --------------------------
(***************************************************************************)
(* Proofs about WorkerPool, for every number of workers, entries, requests *)
(* and retries, and every capacity of the channels.                        *)
(***************************************************************************)
EXTENDS WorkerPool, FiniteSetTheorems, TLAPS

(* Every variable keeps to its set of values; no channel holds more than    *)
(* its capacity.                                                            *)
THEOREM PoolTypeOK == Spec => []TypeOK
<1> USE PoolAssumption DEF TypeOK
<1>1. Init => TypeOK
  <2> SUFFICES ASSUME Init PROVE TypeOK
    OBVIOUS
  <2>1. /\ logQueue \in Seq(Logs) /\ Len(logQueue) = 0
        /\ batchQueue \in Seq(Logs) /\ Len(batchQueue) = 0
    BY DEF Init
  <2>2. batchClosed \in BOOLEAN /\ shutdown \in BOOLEAN /\ timedOut \in BOOLEAN
    BY DEF Init
  <2> QED BY <2>1, <2>2 DEF Init
<1>2. TypeOK /\ [Next]_vars => TypeOK'
  <2> SUFFICES ASSUME TypeOK, [Next]_vars PROVE TypeOK'
    OBVIOUS
  <2> USE DEF queues, workerVars, inserterVars, server
  <2>1. ASSUME NEW h \in Handlers, RequestStart(h) PROVE TypeOK'
    BY <2>1 DEF RequestStart
  <2>2. ASSUME NEW h \in Handlers, RequestEnd(h) PROVE TypeOK'
    BY <2>2 DEF RequestEnd
  <2>3. ASSUME NEW e \in Logs, Produce(e) PROVE TypeOK'
    BY <2>3 DEF Produce
  <2>4. ASSUME NEW w \in Workers, WorkerExit(w) PROVE TypeOK'
    BY <2>4 DEF WorkerExit
  <2>5. ASSUME NEW w \in Workers, WorkerTake(w) PROVE TypeOK'
    BY <2>5 DEF WorkerTake
  <2>6. ASSUME NEW w \in Workers, WorkerForward(w) PROVE TypeOK'
    <3>1. PICK e \in holding[w] :
            IF Len(batchQueue) < BatchCapacity
            THEN batchQueue' = Append(batchQueue, e) /\ UNCHANGED result
            ELSE Drop(e) /\ UNCHANGED batchQueue
      BY <2>6 DEF WorkerForward
    <3>2. e \in Logs BY <2>6
    <3>3. batchQueue' \in Seq(Logs) /\ Len(batchQueue') <= BatchCapacity
      <4>1. CASE Len(batchQueue) < BatchCapacity
        <5>1. batchQueue' = Append(batchQueue, e) BY <3>1, <4>1
        <5> QED BY <3>2, <4>1, <5>1
      <4>2. CASE ~(Len(batchQueue) < BatchCapacity)
        BY <3>1, <4>2
      <4> QED BY <4>1, <4>2
    <3>4. result' \in [Logs -> {"none", "inserted", "failed", "dropped"}]
      BY <3>1, <3>2 DEF Drop
    <3> QED BY <2>6, <3>3, <3>4 DEF WorkerForward
  <2>7. ASSUME NEW i \in Inserters, InserterTake(i) PROVE TypeOK'
    BY <2>7 DEF InserterTake
  <2>8. ASSUME NEW i \in Inserters, InsertAttempt(i) PROVE TypeOK'
    <3>0. attempt[i] \in Nat /\ attempt[i] < MaxRetries
      BY <2>8 DEF InsertAttempt
    <3>1. attempt' \in [Inserters -> 0 .. MaxRetries]
      <4>1. attempt' = attempt \/ attempt' = [attempt EXCEPT ![i] = attempt[i] + 1]
        BY <2>8, Zenon DEF InsertAttempt
      <4>2. attempt[i] + 1 \in 0 .. MaxRetries BY <3>0
      <4> QED BY <4>1, <4>2
    <3>2. result' \in [Logs -> {"none", "inserted", "failed", "dropped"}]
      BY <2>8 DEF InsertAttempt, Settle
    <3>3. inserting' \in [Inserters -> SUBSET Logs]
      BY <2>8 DEF InsertAttempt, Settle
    <3> QED BY <2>8, <3>1, <3>2, <3>3 DEF InsertAttempt
  <2>9. ASSUME NEW i \in Inserters, InsertGiveUp(i) PROVE TypeOK'
    BY <2>9 DEF InsertGiveUp, Settle
  <2>10. ASSUME NEW i \in Inserters, InserterExit(i) PROVE TypeOK'
    BY <2>10 DEF InserterExit
  <2>11. CASE Signal BY <2>11 DEF Signal
  <2>12. CASE ServerDrained BY <2>12 DEF ServerDrained
  <2>13. CASE WorkersDone BY <2>13 DEF WorkersDone
  <2>14. CASE CloseBatchQueue BY <2>14 DEF CloseBatchQueue
  <2>15. CASE InsertersDone BY <2>15 DEF InsertersDone
  <2>16. CASE CloseClient BY <2>16 DEF CloseClient
  <2>17. CASE UNCHANGED vars BY <2>17 DEF vars
  <2> QED
    BY <2>1, <2>2, <2>3, <2>4, <2>5, <2>6, <2>7, <2>8, <2>9,
       <2>10, <2>11, <2>12, <2>13, <2>14, <2>15, <2>16, <2>17
       DEF Next, Worker, Inserter, Main
<1> QED BY <1>1, <1>2, PTL DEF Spec

-----------------------------------------------------------------------------
(* Where main() is decides what the others can still do. *)
StageInv ==
  /\ mainPc \in {"close", "inserters", "client", "closed"} => workers = {}
  /\ batchClosed => mainPc \in {"inserters", "client", "closed"}
  /\ mainPc \in {"client", "closed"} => inserters = {}

(* Only a goroutine that has not returned holds anything, and the insert    *)
(* workers return only when batchQueue is closed and empty - which it then  *)
(* stays, for the workers have returned before.                             *)
HoldInv ==
  /\ \A w \in Workers : holding[w] # {} => w \in workers
  /\ \A i \in Inserters : inserting[i] # {} => i \in inserters
  /\ inserters # Inserters => batchClosed /\ batchQueue = <<>>
  /\ Workers = {} => batchQueue = <<>>

(* Requests start before the signal only, and Shutdown waits for them or    *)
(* times out.                                                               *)
RequestInv ==
  mainPc \notin {"serving", "draining"} /\ active # {} => timedOut

IInv == TypeOK /\ StageInv /\ HoldInv /\ RequestInv

LEMMA PoolInvariant == Spec => []IInv
<1> USE PoolAssumption DEF TypeOK, IInv, StageInv, HoldInv, RequestInv
<1>1. Init /\ TypeOK => IInv
  BY DEF Init
<1>2. IInv /\ TypeOK' /\ [Next]_vars => IInv'
  <2> SUFFICES ASSUME IInv, TypeOK', [Next]_vars PROVE IInv'
    OBVIOUS
  <2> USE DEF queues, workerVars, inserterVars, server
  <2>1. ASSUME NEW h \in Handlers, RequestStart(h) PROVE IInv'
    BY <2>1 DEF RequestStart
  <2>2. ASSUME NEW h \in Handlers, RequestEnd(h) PROVE IInv'
    BY <2>2 DEF RequestEnd
  <2>3. ASSUME NEW e \in Logs, Produce(e) PROVE IInv'
    BY <2>3 DEF Produce
  <2>4. ASSUME NEW w \in Workers, WorkerExit(w) PROVE IInv'
    BY <2>4 DEF WorkerExit
  <2>5. ASSUME NEW w \in Workers, WorkerTake(w) PROVE IInv'
    BY <2>5 DEF WorkerTake
  <2>6. ASSUME NEW w \in Workers, WorkerForward(w) PROVE IInv'
    BY <2>6 DEF WorkerForward, Drop
  <2>7. ASSUME NEW i \in Inserters, InserterTake(i) PROVE IInv'
    BY <2>7 DEF InserterTake
  <2>8. ASSUME NEW i \in Inserters, InsertAttempt(i) PROVE IInv'
    BY <2>8 DEF InsertAttempt, Settle
  <2>9. ASSUME NEW i \in Inserters, InsertGiveUp(i) PROVE IInv'
    BY <2>9 DEF InsertGiveUp, Settle
  <2>10. ASSUME NEW i \in Inserters, InserterExit(i) PROVE IInv'
    BY <2>10 DEF InserterExit
  <2>11. CASE Signal BY <2>11 DEF Signal
  <2>12. CASE ServerDrained BY <2>12 DEF ServerDrained
  <2>13. CASE WorkersDone BY <2>13 DEF WorkersDone
  <2>14. CASE CloseBatchQueue BY <2>14 DEF CloseBatchQueue
  <2>15. CASE InsertersDone BY <2>15 DEF InsertersDone
  <2>16. CASE CloseClient BY <2>16 DEF CloseClient
  <2>17. CASE UNCHANGED vars BY <2>17 DEF vars
  <2> QED
    BY <2>1, <2>2, <2>3, <2>4, <2>5, <2>6, <2>7, <2>8, <2>9,
       <2>10, <2>11, <2>12, <2>13, <2>14, <2>15, <2>16, <2>17
       DEF Next, Worker, Inserter, Main
<1> QED BY <1>1, <1>2, PoolTypeOK, PTL DEF Spec

(* No worker sends on batchQueue after main() has closed it: the close      *)
(* cannot panic a worker.                                                   *)
THEOREM CloseIsSafe == Spec => []NoSendAfterClose
<1>1. IInv => NoSendAfterClose
  BY DEF IInv, StageInv, HoldInv, NoSendAfterClose
<1> QED BY <1>1, PoolInvariant, PTL

(* When main() closes the ClickHouse client, no batch is queued or being    *)
(* inserted.                                                                *)
THEOREM BatchesDrained == Spec => []DrainedBeforeClose
<1>1. IInv => DrainedBeforeClose
  <2> SUFFICES ASSUME IInv, mainPc \in {"client", "closed"}
               PROVE  batchQueue = <<>> /\ \A i \in Inserters : inserting[i] = {}
    BY DEF DrainedBeforeClose
  <2>1. inserters = {} BY DEF IInv, StageInv
  <2>2. batchQueue = <<>> BY <2>1, PoolAssumption DEF IInv, HoldInv
  <2> QED BY <2>1, <2>2 DEF IInv, HoldInv
<1> QED BY <1>1, PoolInvariant, PTL

(* The client is closed under a request only after the 30 s of Shutdown. *)
THEOREM RequestsSpared == Spec => []CloseSparesRequests
<1>1. IInv => CloseSparesRequests
  BY DEF IInv, RequestInv, CloseSparesRequests
<1> QED BY <1>1, PoolInvariant, PTL

-----------------------------------------------------------------------------
(* Where the entries are, without counting: EntriesAccounted follows.       *)
Elems(s) == {s[n] : n \in DOMAIN s}
Distinct(s) == \A m, n \in DOMAIN s : m # n => s[m] # s[n]

InHands == UNION {holding[w] : w \in Workers}
InInserts == UNION {inserting[i] : i \in Inserters}

(* No entry is twice in one place: a worker has at most one in hand.        *)
OnceEach ==
  /\ Distinct(logQueue) /\ Distinct(batchQueue)
  /\ \A w \in Workers : \A d, e \in holding[w] : d = e
  /\ \A v, w \in Workers : v # w => holding[v] \cap holding[w] = {}
  /\ \A i, j \in Inserters : i # j => inserting[i] \cap inserting[j] = {}

(* No entry is in two places.                                               *)
Apart ==
  /\ Elems(logQueue) \cap Elems(batchQueue) = {}
  /\ Elems(logQueue) \cap InHands = {}
  /\ Elems(logQueue) \cap InInserts = {}
  /\ Elems(batchQueue) \cap InHands = {}
  /\ Elems(batchQueue) \cap InInserts = {}
  /\ InHands \cap InInserts = {}

(* What was sent and has no result is in one of them, and nothing else.     *)
Pending == {e \in sent : result[e] = "none"}
Complete ==
  /\ Elems(logQueue) \cup Elems(batchQueue) \cup InHands \cup InInserts = Pending
  /\ \A e \in Logs : result[e] # "none" => e \in sent

PlaceInv == OnceEach /\ Apart /\ Complete

(* What a receive leaves of a channel. *)
LEMMA TailOf ==
  ASSUME NEW S, NEW s \in Seq(S), s # <<>>, Distinct(s)
  PROVE  /\ Head(s) \in Elems(s) /\ Distinct(Tail(s))
         /\ Elems(Tail(s)) = Elems(s) \ {Head(s)}
<1>1. /\ Head(s) = s[1] /\ Len(s) \in Nat /\ Len(s) > 0
      /\ DOMAIN s = 1 .. Len(s) /\ DOMAIN Tail(s) = 1 .. Len(s) - 1
      /\ \A n \in 1 .. Len(s) - 1 : Tail(s)[n] = s[n + 1]
  OBVIOUS
<1>2. Head(s) \in Elems(s) /\ Distinct(Tail(s))
  BY <1>1 DEF Elems, Distinct
<1>3. \A e \in Elems(Tail(s)) : e \in Elems(s) \ {Head(s)}
  <2> SUFFICES ASSUME NEW n \in 1 .. Len(s) - 1
               PROVE  s[n + 1] \in Elems(s) \ {Head(s)}
    BY <1>1 DEF Elems
  <2>1. n + 1 \in DOMAIN s /\ 1 \in DOMAIN s /\ n + 1 # 1
    BY <1>1
  <2> QED BY <1>1, <2>1 DEF Elems, Distinct
<1>4. \A e \in Elems(s) : e # Head(s) => e \in Elems(Tail(s))
  <2> SUFFICES ASSUME NEW n \in 1 .. Len(s), s[n] # Head(s)
               PROVE  s[n] \in Elems(Tail(s))
    BY <1>1 DEF Elems
  <2>1. n - 1 \in 1 .. Len(s) - 1 /\ Tail(s)[n - 1] = s[n]
    BY <1>1
  <2> QED BY <1>1, <2>1 DEF Elems
<1> QED BY <1>2, <1>3, <1>4

(* What a send makes of it. *)
LEMMA AppendTo ==
  ASSUME NEW S, NEW s \in Seq(S), NEW e \in S, e \notin Elems(s), Distinct(s)
  PROVE  Distinct(Append(s, e)) /\ Elems(Append(s, e)) = Elems(s) \cup {e}
<1>1. /\ Len(s) \in Nat /\ DOMAIN s = 1 .. Len(s) /\ DOMAIN Append(s, e) = 1 .. Len(s) + 1
      /\ \A n \in 1 .. Len(s) : Append(s, e)[n] = s[n]
      /\ Append(s, e)[Len(s) + 1] = e
  OBVIOUS
<1>2. /\ \A n \in 1 .. Len(s) + 1 : n \in 1 .. Len(s) \/ n = Len(s) + 1
      /\ \A n \in 1 .. Len(s) : n \in 1 .. Len(s) + 1
      /\ Len(s) + 1 \in 1 .. Len(s) + 1
  BY <1>1
<1>3. Distinct(Append(s, e))
  BY <1>1, <1>2 DEF Distinct, Elems
<1>4. Elems(Append(s, e)) = Elems(s) \cup {e}
  BY <1>1, <1>2 DEF Elems
<1> QED BY <1>3, <1>4

(* The number of places is what it takes to count them. *)
LEMMA CountOne ==
  ASSUME NEW A, \A x, y \in A : x = y
  PROVE  Cardinality(A) = IF A = {} THEN 0 ELSE 1
<1>1. CASE A = {} BY <1>1, FS_EmptySet
<1>2. CASE A # {}
  <2>1. PICK x \in A : TRUE BY <1>2
  <2>2. A = {x} BY <2>1
  <2> QED BY <2>2, FS_Singleton
<1> QED BY <1>1, <1>2

(* One entry of a table of disjoint sets changes. *)
LEMMA UnionUpdate ==
  ASSUME NEW S, NEW T, NEW f \in [S -> SUBSET T], NEW x \in S, NEW X,
         \A y, z \in S : y # z => f[y] \cap f[z] = {}
  PROVE  LET g == [f EXCEPT ![x] = X] IN
         UNION {g[y] : y \in S} = ((UNION {f[y] : y \in S}) \ f[x]) \cup X
<1> DEFINE g == [f EXCEPT ![x] = X]
<1>1. g[x] = X /\ \A y \in S : y # x => g[y] = f[y]
  OBVIOUS
<1> HIDE DEF g
<1>2. \A e \in UNION {g[y] : y \in S} : e \in ((UNION {f[y] : y \in S}) \ f[x]) \cup X
  BY <1>1
<1>3. \A e \in ((UNION {f[y] : y \in S}) \ f[x]) \cup X : e \in UNION {g[y] : y \in S}
  BY <1>1
<1> QED BY <1>2, <1>3 DEF g

LEMMA PlacesInit == Init => PlaceInv
<1> SUFFICES ASSUME Init PROVE PlaceInv
  OBVIOUS
<1>1. Elems(logQueue) = {} /\ Elems(batchQueue) = {} /\ InHands = {} /\ InInserts = {}
  BY DEF Init, Elems, InHands, InInserts
<1>2. Pending = {} /\ \A e \in Logs : result[e] = "none"
  BY DEF Init, Pending
<1>3. OnceEach
  BY DEF Init, OnceEach, Distinct
<1> QED BY <1>1, <1>2, <1>3 DEF PlaceInv, Apart, Complete

LEMMA PlacesAside ==
  ASSUME PlaceInv, UNCHANGED <<sent, logQueue, batchQueue, holding, inserting, result>>
  PROVE  PlaceInv'
BY DEF PlaceInv, OnceEach, Apart, Complete, Distinct, Elems, InHands, InInserts, Pending

LEMMA ProduceStep ==
  ASSUME TypeOK, PlaceInv, NEW e \in Logs, Produce(e) PROVE PlaceInv'
<1>1. /\ e \notin sent /\ sent' = sent \cup {e} /\ logQueue' = Append(logQueue, e)
      /\ logQueue \in Seq(Logs)
      /\ UNCHANGED <<batchQueue, holding, inserting, result>>
  BY DEF Produce, TypeOK, workerVars, inserterVars
<1>2. e \notin Pending /\ result[e] = "none"
  BY <1>1 DEF Pending, PlaceInv, Complete
<1>3. /\ e \notin Elems(logQueue) /\ e \notin Elems(batchQueue)
      /\ e \notin InHands /\ e \notin InInserts
  BY <1>2 DEF PlaceInv, Complete
<1>4. Distinct(logQueue') /\ Elems(logQueue)' = Elems(logQueue) \cup {e}
  <2>1. /\ Distinct(Append(logQueue, e))
        /\ Elems(Append(logQueue, e)) = Elems(logQueue) \cup {e}
    BY <1>1, <1>3, AppendTo DEF PlaceInv, OnceEach
  <2> QED BY <1>1, <2>1 DEF Elems
<1>5. /\ Elems(batchQueue)' = Elems(batchQueue)
      /\ InHands' = InHands /\ InInserts' = InInserts
  BY <1>1 DEF Elems, InHands, InInserts
<1>6. Pending' = Pending \cup {e}
  BY <1>1, <1>2 DEF Pending
<1>7. OnceEach'
  BY <1>1, <1>4 DEF PlaceInv, OnceEach, Distinct
<1>8. Apart'
  BY <1>3, <1>4, <1>5 DEF PlaceInv, Apart
<1>9. Complete'
  BY <1>1, <1>4, <1>5, <1>6 DEF PlaceInv, Complete
<1> QED BY <1>7, <1>8, <1>9 DEF PlaceInv

LEMMA WorkerTakeStep ==
  ASSUME TypeOK, PlaceInv, NEW w \in Workers, WorkerTake(w) PROVE PlaceInv'
<1> DEFINE e == Head(logQueue)
<1>1. /\ logQueue # <<>> /\ logQueue \in Seq(Logs) /\ logQueue' = Tail(logQueue)
      /\ holding[w] = {} /\ holding' = [holding EXCEPT ![w] = {e}]
      /\ holding \in [Workers -> SUBSET Logs]
      /\ UNCHANGED <<sent, batchQueue, inserting, result>>
  BY DEF WorkerTake, TypeOK, inserterVars
<1>2. /\ e \in Elems(logQueue) /\ Distinct(logQueue')
      /\ Elems(logQueue)' = Elems(logQueue) \ {e}
  <2>1. /\ e \in Elems(logQueue) /\ Distinct(Tail(logQueue))
        /\ Elems(Tail(logQueue)) = Elems(logQueue) \ {e}
    BY <1>1, TailOf DEF PlaceInv, OnceEach
  <2> QED BY <1>1, <2>1 DEF Elems
<1> HIDE DEF e
<1>3. e \notin Elems(batchQueue) /\ e \notin InHands /\ e \notin InInserts
  BY <1>2 DEF PlaceInv, Apart
<1>4. InHands' = InHands \cup {e}
  <2>1. UNION {[holding EXCEPT ![w] = {e}][y] : y \in Workers}
          = ((UNION {holding[y] : y \in Workers}) \ holding[w]) \cup {e}
    BY <1>1, UnionUpdate DEF PlaceInv, OnceEach
  <2> QED BY <1>1, <2>1 DEF InHands
<1>5. /\ Elems(batchQueue)' = Elems(batchQueue)
      /\ InInserts' = InInserts /\ Pending' = Pending
  BY <1>1 DEF Elems, InInserts, Pending
<1>6. OnceEach'
  <2>1. \A v \in Workers : holding'[v] = IF v = w THEN {e} ELSE holding[v]
    BY <1>1
  <2>2. \A v \in Workers : e \notin holding[v]
    BY <1>3 DEF InHands
  <2>3. \A v \in Workers : \A d, c \in holding'[v] : d = c
    BY <2>1 DEF PlaceInv, OnceEach
  <2>4. \A u, v \in Workers : u # v => holding'[u] \cap holding'[v] = {}
    BY <2>1, <2>2 DEF PlaceInv, OnceEach
  <2> QED BY <1>1, <1>2, <2>3, <2>4 DEF PlaceInv, OnceEach, Distinct
<1>7. Apart'
  BY <1>2, <1>3, <1>4, <1>5 DEF PlaceInv, Apart
<1>8. Complete'
  BY <1>1, <1>2, <1>4, <1>5 DEF PlaceInv, Complete
<1> QED BY <1>6, <1>7, <1>8 DEF PlaceInv

LEMMA WorkerForwardStep ==
  ASSUME TypeOK, PlaceInv, NEW w \in Workers, WorkerForward(w) PROVE PlaceInv'
<1>1. PICK e \in holding[w] :
        IF Len(batchQueue) < BatchCapacity
        THEN batchQueue' = Append(batchQueue, e) /\ UNCHANGED result
        ELSE Drop(e) /\ UNCHANGED batchQueue
  BY DEF WorkerForward
<1>2. /\ holding' = [holding EXCEPT ![w] = {}] /\ holding \in [Workers -> SUBSET Logs]
      /\ batchQueue \in Seq(Logs) /\ result \in [Logs -> {"none", "inserted", "failed", "dropped"}]
      /\ UNCHANGED <<sent, logQueue, inserting>>
  BY DEF WorkerForward, TypeOK, inserterVars
<1>3. holding[w] = {e} /\ e \in Logs /\ e \in InHands
  BY <1>2 DEF PlaceInv, OnceEach, InHands
<1>4. e \notin Elems(logQueue) /\ e \notin Elems(batchQueue) /\ e \notin InInserts
  BY <1>3 DEF PlaceInv, Apart
<1>5. InHands' = InHands \ {e}
  <2>1. UNION {[holding EXCEPT ![w] = {}][y] : y \in Workers}
          = ((UNION {holding[y] : y \in Workers}) \ holding[w]) \cup {}
    BY <1>2, UnionUpdate DEF PlaceInv, OnceEach
  <2> QED BY <1>2, <1>3, <2>1 DEF InHands
<1>6. Elems(logQueue)' = Elems(logQueue) /\ InInserts' = InInserts
  BY <1>2 DEF Elems, InInserts
<1>7. /\ \A v \in Workers : \A d, c \in holding'[v] : d = c
      /\ \A u, v \in Workers : u # v => holding'[u] \cap holding'[v] = {}
  <2>1. \A v \in Workers : holding'[v] = IF v = w THEN {} ELSE holding[v]
    BY <1>2
  <2> QED BY <2>1 DEF PlaceInv, OnceEach
<1>8. CASE Len(batchQueue) < BatchCapacity
  <2>1. batchQueue' = Append(batchQueue, e) /\ result' = result
    BY <1>1, <1>8
  <2>2. Distinct(batchQueue') /\ Elems(batchQueue)' = Elems(batchQueue) \cup {e}
    <3>1. /\ Distinct(Append(batchQueue, e))
          /\ Elems(Append(batchQueue, e)) = Elems(batchQueue) \cup {e}
      BY <1>2, <1>3, <1>4, AppendTo DEF PlaceInv, OnceEach
    <3> QED BY <2>1, <3>1 DEF Elems
  <2>3. Pending' = Pending
    BY <1>2, <2>1 DEF Pending
  <2>4. OnceEach'
    BY <1>2, <1>7, <2>2 DEF PlaceInv, OnceEach, Distinct
  <2>5. Apart'
    BY <1>3, <1>4, <1>5, <1>6, <2>2 DEF PlaceInv, Apart
  <2>6. Complete'
    BY <1>2, <1>3, <1>5, <1>6, <2>1, <2>2, <2>3 DEF PlaceInv, Complete
  <2> QED BY <2>4, <2>5, <2>6 DEF PlaceInv
<1>9. CASE ~(Len(batchQueue) < BatchCapacity)
  <2>1. batchQueue' = batchQueue /\ result' = [result EXCEPT ![e] = "dropped"]
    BY <1>1, <1>9 DEF Drop
  <2>2. Elems(batchQueue)' = Elems(batchQueue)
    BY <2>1 DEF Elems
  <2>3. /\ e \in Pending /\ sent \subseteq Logs
        /\ \A d \in Logs : result'[d] = IF d = e THEN "dropped" ELSE result[d]
    BY <1>2, <1>3, <2>1 DEF PlaceInv, Complete, TypeOK
  <2>4. Pending' = Pending \ {e}
    BY <1>2, <2>3 DEF Pending
  <2>5. OnceEach'
    BY <1>2, <1>7, <2>1 DEF PlaceInv, OnceEach, Distinct
  <2>6. Apart'
    BY <1>5, <1>6, <2>2 DEF PlaceInv, Apart
  <2>7. Complete'
    BY <1>2, <1>3, <1>4, <1>5, <1>6, <2>2, <2>3, <2>4 DEF PlaceInv, Complete, Pending
  <2> QED BY <2>5, <2>6, <2>7 DEF PlaceInv
<1> QED BY <1>8, <1>9

LEMMA InserterTakeStep ==
  ASSUME TypeOK, PlaceInv, NEW i \in Inserters, InserterTake(i) PROVE PlaceInv'
<1> DEFINE e == Head(batchQueue)
<1>1. /\ batchQueue # <<>> /\ batchQueue \in Seq(Logs) /\ batchQueue' = Tail(batchQueue)
      /\ inserting[i] = {} /\ inserting' = [inserting EXCEPT ![i] = {e}]
      /\ inserting \in [Inserters -> SUBSET Logs]
      /\ UNCHANGED <<sent, logQueue, holding, result>>
  BY DEF InserterTake, TypeOK, workerVars
<1>2. /\ e \in Elems(batchQueue) /\ Distinct(batchQueue')
      /\ Elems(batchQueue)' = Elems(batchQueue) \ {e}
  <2>1. /\ e \in Elems(batchQueue) /\ Distinct(Tail(batchQueue))
        /\ Elems(Tail(batchQueue)) = Elems(batchQueue) \ {e}
    BY <1>1, TailOf DEF PlaceInv, OnceEach
  <2> QED BY <1>1, <2>1 DEF Elems
<1> HIDE DEF e
<1>3. e \notin Elems(logQueue) /\ e \notin InHands /\ e \notin InInserts
  BY <1>2 DEF PlaceInv, Apart
<1>4. InInserts' = InInserts \cup {e}
  <2>1. UNION {[inserting EXCEPT ![i] = {e}][y] : y \in Inserters}
          = ((UNION {inserting[y] : y \in Inserters}) \ inserting[i]) \cup {e}
    BY <1>1, UnionUpdate DEF PlaceInv, OnceEach
  <2> QED BY <1>1, <2>1 DEF InInserts
<1>5. /\ Elems(logQueue)' = Elems(logQueue)
      /\ InHands' = InHands /\ Pending' = Pending
  BY <1>1 DEF Elems, InHands, Pending
<1>6. OnceEach'
  <2>1. \A j \in Inserters : inserting'[j] = IF j = i THEN {e} ELSE inserting[j]
    BY <1>1
  <2>2. \A j \in Inserters : e \notin inserting[j]
    BY <1>3 DEF InInserts
  <2>3. \A j, k \in Inserters : j # k => inserting'[j] \cap inserting'[k] = {}
    BY <2>1, <2>2 DEF PlaceInv, OnceEach
  <2> QED BY <1>1, <1>2, <2>3 DEF PlaceInv, OnceEach, Distinct
<1>7. Apart'
  BY <1>2, <1>3, <1>4, <1>5 DEF PlaceInv, Apart
<1>8. Complete'
  BY <1>1, <1>2, <1>4, <1>5 DEF PlaceInv, Complete
<1> QED BY <1>6, <1>7, <1>8 DEF PlaceInv

(* The end of an insert, well or badly. *)
LEMMA SettleStep ==
  ASSUME TypeOK, PlaceInv, NEW i \in Inserters, NEW what \in {"inserted", "failed"},
         Settle(i, what), UNCHANGED <<sent, logQueue, batchQueue, holding>>
  PROVE  PlaceInv'
<1>1. /\ inserting' = [inserting EXCEPT ![i] = {}]
      /\ inserting \in [Inserters -> SUBSET Logs] /\ sent \subseteq Logs
      /\ \A e \in Logs : result'[e] = IF e \in inserting[i] THEN what ELSE result[e]
  BY DEF Settle, TypeOK
<1>2. inserting[i] \subseteq InInserts
  BY DEF InInserts
<1>3. InInserts' = InInserts \ inserting[i]
  <2>1. UNION {[inserting EXCEPT ![i] = {}][y] : y \in Inserters}
          = ((UNION {inserting[y] : y \in Inserters}) \ inserting[i]) \cup {}
    BY <1>1, UnionUpdate DEF PlaceInv, OnceEach
  <2> QED BY <1>1, <2>1 DEF InInserts
<1>4. /\ Elems(logQueue)' = Elems(logQueue) /\ Elems(batchQueue)' = Elems(batchQueue)
      /\ InHands' = InHands
  BY DEF Elems, InHands
<1>5. Pending' = Pending \ inserting[i]
  BY <1>1 DEF Pending
<1>6. OnceEach'
  <2>1. \A j \in Inserters : inserting'[j] = IF j = i THEN {} ELSE inserting[j]
    BY <1>1
  <2> QED BY <2>1 DEF PlaceInv, OnceEach, Distinct
<1>7. Apart'
  BY <1>3, <1>4 DEF PlaceInv, Apart
<1>8. Complete'
  <2>1. inserting[i] \subseteq sent
    BY <1>2 DEF PlaceInv, Complete, Pending
  <2>2. /\ Elems(logQueue) \cap inserting[i] = {} /\ Elems(batchQueue) \cap inserting[i] = {}
        /\ InHands \cap inserting[i] = {}
    BY <1>2 DEF PlaceInv, Apart
  <2> QED BY <1>1, <1>3, <1>4, <1>5, <2>1, <2>2 DEF PlaceInv, Complete
<1> QED BY <1>6, <1>7, <1>8 DEF PlaceInv

LEMMA PlacesInvariant == Spec => []PlaceInv
<1>1. TypeOK /\ PlaceInv /\ [Next]_vars => PlaceInv'
  <2> SUFFICES ASSUME TypeOK, PlaceInv, [Next]_vars PROVE PlaceInv'
    OBVIOUS
  <2> USE DEF queues, workerVars, inserterVars, server
  <2>1. ASSUME NEW h \in Handlers, RequestStart(h) \/ RequestEnd(h) PROVE PlaceInv'
    BY <2>1, PlacesAside DEF RequestStart, RequestEnd
  <2>2. ASSUME NEW e \in Logs, Produce(e) PROVE PlaceInv'
    BY <2>2, ProduceStep
  <2>3. ASSUME NEW w \in Workers, WorkerExit(w) PROVE PlaceInv'
    BY <2>3, PlacesAside DEF WorkerExit
  <2>4. ASSUME NEW w \in Workers, WorkerTake(w) \/ WorkerForward(w) PROVE PlaceInv'
    BY <2>4, WorkerTakeStep, WorkerForwardStep
  <2>5. ASSUME NEW i \in Inserters, InserterTake(i) PROVE PlaceInv'
    BY <2>5, InserterTakeStep
  <2>6. ASSUME NEW i \in Inserters, InsertAttempt(i) PROVE PlaceInv'
    <3>1. CASE Settle(i, "inserted")
      <4>1. UNCHANGED <<sent, logQueue, batchQueue, holding>> BY <2>6 DEF InsertAttempt
      <4> QED BY <3>1, <4>1, SettleStep
    <3>2. CASE UNCHANGED <<inserting, result>>
      BY <2>6, <3>2, PlacesAside DEF InsertAttempt
    <3> QED BY <2>6, <3>1, <3>2 DEF InsertAttempt
  <2>7. ASSUME NEW i \in Inserters, InsertGiveUp(i) PROVE PlaceInv'
    <3>1. Settle(i, "failed") /\ UNCHANGED <<sent, logQueue, batchQueue, holding>>
      BY <2>7 DEF InsertGiveUp
    <3> QED BY <3>1, SettleStep
  <2>8. ASSUME NEW i \in Inserters, InserterExit(i) PROVE PlaceInv'
    BY <2>8, PlacesAside DEF InserterExit
  <2>9. CASE Main \/ UNCHANGED vars
    <3>1. UNCHANGED <<sent, logQueue, batchQueue, holding, inserting, result>>
      BY <2>9 DEF Main, Signal, ServerDrained, WorkersDone, CloseBatchQueue,
         InsertersDone, CloseClient, vars
    <3> QED BY <3>1, PlacesAside
  <2> QED
    BY <2>1, <2>2, <2>3, <2>4, <2>5, <2>6, <2>7, <2>8, <2>9 DEF Next, Worker, Inserter
<1> QED BY <1>1, PlacesInit, PoolTypeOK, PTL DEF Spec

(* No entry is lost, doubled or settled twice between the two channels, for *)
(* any number of entries and workers.                                       *)
THEOREM NoneLostInTransit == Spec => []EntriesAccounted
<1>1. TypeOK /\ PlaceInv => EntriesAccounted
  <2> SUFFICES ASSUME TypeOK, PlaceInv, NEW e \in Logs
               PROVE  InTransit(e) = IF e \in sent /\ result[e] = "none" THEN 1 ELSE 0
    BY DEF EntriesAccounted
  <2> DEFINE inLog == {n \in DOMAIN logQueue : logQueue[n] = e}
             inBatch == {n \in DOMAIN batchQueue : batchQueue[n] = e}
             inHand == {w \in Workers : e \in holding[w]}
             inInsert == {i \in Inserters : e \in inserting[i]}
  <2>1. Cardinality(inLog) = IF e \in Elems(logQueue) THEN 1 ELSE 0
    <3>1. \A m, n \in inLog : m = n BY DEF PlaceInv, OnceEach, Distinct
    <3>2. inLog # {} <=> e \in Elems(logQueue) BY DEF Elems
    <3> HIDE DEF inLog
    <3> QED BY <3>1, <3>2, CountOne
  <2>2. Cardinality(inBatch) = IF e \in Elems(batchQueue) THEN 1 ELSE 0
    <3>1. \A m, n \in inBatch : m = n BY DEF PlaceInv, OnceEach, Distinct
    <3>2. inBatch # {} <=> e \in Elems(batchQueue) BY DEF Elems
    <3> HIDE DEF inBatch
    <3> QED BY <3>1, <3>2, CountOne
  <2>3. Cardinality(inHand) = IF e \in InHands THEN 1 ELSE 0
    <3>1. \A v, w \in inHand : v = w BY DEF PlaceInv, OnceEach
    <3>2. inHand # {} <=> e \in InHands BY DEF InHands
    <3> HIDE DEF inHand
    <3> QED BY <3>1, <3>2, CountOne
  <2>4. Cardinality(inInsert) = IF e \in InInserts THEN 1 ELSE 0
    <3>1. \A i, j \in inInsert : i = j BY DEF PlaceInv, OnceEach
    <3>2. inInsert # {} <=> e \in InInserts BY DEF InInserts
    <3> HIDE DEF inInsert
    <3> QED BY <3>1, <3>2, CountOne
  <2>5. InTransit(e) = Cardinality(inLog) + Cardinality(inBatch)
                         + Cardinality(inHand) + Cardinality(inInsert)
    BY DEF InTransit, Occurrences
  <2> HIDE DEF inLog, inBatch, inHand, inInsert
  <2>6. e \in sent /\ result[e] = "none"
          <=> e \in Elems(logQueue) \/ e \in Elems(batchQueue) \/ e \in InHands \/ e \in InInserts
    BY DEF PlaceInv, Complete, Pending
  <2> QED BY <2>1, <2>2, <2>3, <2>4, <2>5, <2>6 DEF PlaceInv, Apart
<1> QED BY <1>1, PoolTypeOK, PlacesInvariant, PTL

=============================================================================
