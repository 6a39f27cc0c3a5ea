----------------------- MODULE DeadLetterQueueProofs -----------------------
(* Proofs about DeadLetterQueue, for any number of logs, requests and rounds *)
(* of a retry, and any capacity.                                             *)
EXTENDS DeadLetterQueue, FiniteSetTheorems, TLAPS

Elems(s) == {s[i] : i \in DOMAIN s}
Distinct(s) == \A i, j \in DOMAIN s : i # j => s[i] # s[j]

-----------------------------------------------------------------------------
(* The inductive invariant. *)

(* NoEntryLost, place by place. *)
Placed ==
  /\ Logs = fresh \cup dropped \cup flushed \cup InQueue \cup Held
  /\ fresh \cap dropped = {} /\ fresh \cap flushed = {} /\ fresh \cap InQueue = {}
  /\ fresh \cap Held = {} /\ dropped \cap flushed = {} /\ dropped \cap InQueue = {}
  /\ dropped \cap Held = {} /\ flushed \cap InQueue = {} /\ flushed \cap Held = {}
  /\ InQueue \cap Held = {}
  /\ Distinct(dlq)
  /\ \A r, q \in Holders : r # q => held[r] # held[q]

(* Who waits for room has an entry to send, once, and the channel is full. *)
Waiting ==
  /\ Distinct(waiting)
  /\ \A b \in Blocked : pc[b] = "given"
  /\ waiting # <<>> => Len(dlq) = Capacity

Rounds ==
  \A r \in Requests : pc[r] \in {"give", "given"} => held[r] \in Logs /\ left[r] > 0

(* What a flush owes has failed before, and no retry took it since. *)
Doomed ==
  \A f \in Requests :
    /\ pc[f] \notin {"flush", "flushed"} => doomed[f] = {}
    /\ doomed[f] \cap fresh = {}
    /\ pc[f] = "flush" => \A h \in Holders : held[h] \in doomed[f] => h \in Blocked

IInv == TypeOK /\ Placed /\ Waiting /\ Rounds /\ Doomed /\ FlushClears

-----------------------------------------------------------------------------
(* Sequences without repetitions. *)

(* What a receive leaves of the buffer. *)
LEMMA TailOf ==
  ASSUME NEW S, NEW s \in Seq(S), s # <<>>, Distinct(s)
  PROVE  /\ Tail(s) \in Seq(S) /\ Head(s) \in S
         /\ Len(s) \in Nat /\ Len(s) > 0 /\ Len(Tail(s)) = Len(s) - 1
         /\ Distinct(Tail(s))
         /\ Head(s) \in Elems(s)
         /\ Elems(Tail(s)) = Elems(s) \ {Head(s)}
<1>1. /\ Tail(s) \in Seq(S) /\ Head(s) \in S /\ Head(s) = s[1]
      /\ Len(s) \in Nat /\ Len(s) > 0 /\ Len(Tail(s)) = Len(s) - 1
      /\ DOMAIN s = 1 .. Len(s) /\ DOMAIN Tail(s) = 1 .. Len(s) - 1
      /\ \A i \in 1 .. Len(s) - 1 : Tail(s)[i] = s[i + 1]
  OBVIOUS
<1>2. Distinct(Tail(s))
  BY <1>1 DEF Distinct
<1>3. Head(s) \in Elems(s)
  BY <1>1 DEF Elems
<1>4. Elems(Tail(s)) = Elems(s) \ {Head(s)}
  <2>1. ASSUME NEW e \in Elems(Tail(s)) PROVE e \in Elems(s) \ {Head(s)}
    <3>1. PICK i \in 1 .. Len(s) - 1 : e = s[i + 1]
      BY <1>1, <2>1 DEF Elems
    <3>2. i + 1 \in DOMAIN s /\ 1 \in DOMAIN s /\ i + 1 # 1
      BY <1>1
    <3> QED
      BY <1>1, <3>1, <3>2 DEF Elems, Distinct
  <2>2. ASSUME NEW e \in Elems(s), e # Head(s) PROVE e \in Elems(Tail(s))
    <3>1. PICK i \in 1 .. Len(s) : e = s[i]
      BY <1>1, <2>2 DEF Elems
    <3>2. i - 1 \in 1 .. Len(s) - 1
      BY <1>1, <2>2, <3>1
    <3>3. Tail(s)[i - 1] = e
      BY <1>1, <3>1, <3>2
    <3> QED
      BY <1>1, <3>2, <3>3 DEF Elems
  <2> QED
    BY <2>1, <2>2
<1> QED
  BY <1>1, <1>2, <1>3, <1>4

(* What a send makes of the buffer. *)
LEMMA AppendTo ==
  ASSUME NEW S, NEW s \in Seq(S), NEW e \in S, e \notin Elems(s), Distinct(s)
  PROVE  /\ Append(s, e) \in Seq(S)
         /\ Len(s) \in Nat /\ Len(Append(s, e)) = Len(s) + 1
         /\ Distinct(Append(s, e))
         /\ Elems(Append(s, e)) = Elems(s) \cup {e}
<1>1. /\ Append(s, e) \in Seq(S)
      /\ Len(s) \in Nat /\ Len(Append(s, e)) = Len(s) + 1
      /\ DOMAIN s = 1 .. Len(s) /\ DOMAIN Append(s, e) = 1 .. Len(s) + 1
      /\ \A i \in 1 .. Len(s) : Append(s, e)[i] = s[i]
      /\ Append(s, e)[Len(s) + 1] = e
  OBVIOUS
<1>2. \A i \in 1 .. Len(s) + 1 : i \in 1 .. Len(s) \/ i = Len(s) + 1
  BY <1>1
<1>3. Distinct(Append(s, e))
  BY <1>1, <1>2 DEF Distinct, Elems
<1>4. Elems(Append(s, e)) = Elems(s) \cup {e}
  <2>1. \A i \in 1 .. Len(s) : i \in 1 .. Len(s) + 1
    BY <1>1
  <2>2. Len(s) + 1 \in 1 .. Len(s) + 1
    BY <1>1
  <2> QED
    BY <1>1, <1>2, <2>1, <2>2 DEF Elems
<1> QED
  BY <1>1, <1>3, <1>4

-----------------------------------------------------------------------------
(* The request a receive wakes up, if one is waiting. *)
Woken == IF waiting = <<>> THEN {} ELSE {Head(waiting)}
WokenHeld == {held[b] : b \in Woken}

(* A receive takes the oldest entry and lets the first sender send. *)
LEMMA ReceiveEffect ==
  ASSUME IInv, Receive
  PROVE  /\ dlq' \in Seq(Logs) /\ Len(dlq') <= Capacity /\ Distinct(dlq')
         /\ waiting' \in Seq(Requests) /\ Distinct(waiting')
         /\ waiting' # <<>> => Len(dlq') = Capacity
         /\ Head(dlq) \in Logs /\ Head(dlq) \in InQueue
         /\ Woken \subseteq Blocked /\ Blocked \subseteq Requests /\ Blocked \subseteq Holders
         /\ Elems(waiting') = Blocked \ Woken
         /\ Elems(dlq') = (InQueue \ {Head(dlq)}) \cup WokenHeld
<1>1. /\ dlq \in Seq(Logs) /\ dlq # <<>> /\ Distinct(dlq) /\ waiting \in Seq(Requests)
      /\ Distinct(waiting) /\ InQueue = Elems(dlq) /\ Blocked = Elems(waiting)
      /\ Len(dlq) <= Capacity /\ Capacity \in Nat
  BY DLQAssumption DEF IInv, TypeOK, Placed, Waiting, Receive, InQueue, Blocked, Elems
<1>2. /\ Tail(dlq) \in Seq(Logs) /\ Head(dlq) \in Logs /\ Len(dlq) \in Nat
      /\ Len(Tail(dlq)) = Len(dlq) - 1 /\ Distinct(Tail(dlq)) /\ Head(dlq) \in Elems(dlq)
      /\ Elems(Tail(dlq)) = Elems(dlq) \ {Head(dlq)}
  BY <1>1, TailOf
<1>3. Blocked \subseteq Requests /\ Blocked \subseteq Holders
  <2>1. Blocked \subseteq Requests
    BY <1>1 DEF Elems
  <2> QED
    BY <2>1 DEF Holders, Holding
<1>4. CASE waiting = <<>>
  <2>1. dlq' = Tail(dlq) /\ waiting' = waiting /\ Woken = {} /\ WokenHeld = {}
    BY <1>4 DEF Receive, Woken, WokenHeld
  <2> QED
    BY <1>1, <1>2, <1>3, <1>4, <2>1
<1>5. CASE waiting # <<>>
  <2>1. /\ dlq' = Append(Tail(dlq), held[Head(waiting)]) /\ waiting' = Tail(waiting)
        /\ Woken = {Head(waiting)} /\ WokenHeld = {held[Head(waiting)]}
    BY <1>5 DEF Receive, Woken, WokenHeld
  <2>2. /\ Tail(waiting) \in Seq(Requests) /\ Head(waiting) \in Requests
        /\ Distinct(Tail(waiting)) /\ Head(waiting) \in Elems(waiting)
        /\ Elems(Tail(waiting)) = Elems(waiting) \ {Head(waiting)}
    BY <1>1, <1>5, TailOf
  <2>3. /\ held[Head(waiting)] \in Logs /\ held[Head(waiting)] \in Held
        /\ Len(dlq) = Capacity
    BY <1>1, <1>3, <1>5, <2>2 DEF IInv, Waiting, Rounds, Held
  <2>4. held[Head(waiting)] \notin Elems(Tail(dlq))
    BY <1>1, <1>2, <2>3 DEF IInv, Placed
  <2> DEFINE e == held[Head(waiting)]
  <2>5. /\ Append(Tail(dlq), e) \in Seq(Logs)
        /\ Len(Append(Tail(dlq), e)) = Len(Tail(dlq)) + 1
        /\ Distinct(Append(Tail(dlq), e))
        /\ Elems(Append(Tail(dlq), e)) = Elems(Tail(dlq)) \cup {e}
    <3> DEFINE t == Tail(dlq)
    <3>1. e \in Logs /\ e \notin Elems(t) /\ t \in Seq(Logs) /\ Distinct(t)
      BY <1>2, <2>3, <2>4
    <3> HIDE DEF e, t
    <3>2. /\ Append(t, e) \in Seq(Logs) /\ Len(Append(t, e)) = Len(t) + 1
          /\ Distinct(Append(t, e)) /\ Elems(Append(t, e)) = Elems(t) \cup {e}
      BY <3>1, AppendTo
    <3> QED
      BY <3>2 DEF t
  <2> QED
    BY <1>1, <1>2, <1>3, <2>1, <2>2, <2>3, <2>5
<1> QED
  BY <1>4, <1>5

-----------------------------------------------------------------------------
(* The steps. *)

LEMMA InitInvariant == Init => IInv
<1> SUFFICES ASSUME Init PROVE IInv
  OBVIOUS
<1>1. TypeOK
  BY DLQAssumption DEF Init, TypeOK
<1>2. InQueue = {} /\ Blocked = {} /\ Holders = {} /\ Held = {}
  BY DEF Init, InQueue, Blocked, Holders, Holding, Held
<1>3. Placed
  BY <1>2 DEF Init, Placed, Distinct
<1>4. Waiting /\ Rounds /\ Doomed /\ FlushClears
  BY <1>2 DEF Init, Waiting, Rounds, Doomed, FlushClears, Distinct
<1> QED
  BY <1>1, <1>3, <1>4 DEF IInv

(* A step that leaves the channel and the entries alone. *)
LEMMA Aside ==
  ASSUME IInv, UNCHANGED <<dlq, waiting, held, logs>>,
         \A r \in Requests : pc'[r] # pc[r] => {pc'[r], pc[r]} \cap {"give", "given"} = {}
  PROVE  /\ InQueue' = InQueue /\ Blocked' = Blocked /\ Holders' = Holders /\ Held' = Held
         /\ Placed' /\ Waiting'
<1> USE DEF logs
<1>1. InQueue' = InQueue /\ Blocked' = Blocked
  BY DEF InQueue, Blocked
<1>2. Holders' = Holders
  BY <1>1 DEF Holders, Holding
<1>3. Held' = Held
  BY <1>2 DEF Held
<1>4. Blocked \subseteq Requests
  BY DEF IInv, TypeOK, Blocked
<1>5. Placed'
  BY <1>1, <1>2, <1>3 DEF IInv, Placed, Distinct
<1>6. Waiting'
  BY <1>1, <1>4 DEF IInv, Waiting, Distinct
<1> QED
  BY <1>1, <1>2, <1>3, <1>5, <1>6

LEMMA AddStep ==
  ASSUME IInv, NEW l \in Logs, AddToDLQ(l) PROVE IInv'
<1>1. /\ l \in fresh /\ fresh' = fresh \ {l}
      /\ UNCHANGED <<pc, left, held, flushed, doomed, waiting>>
      /\ dlq \in Seq(Logs) /\ Distinct(dlq) /\ InQueue = Elems(dlq) /\ l \notin InQueue
      /\ Len(dlq) <= Capacity /\ Capacity \in Nat
  BY DLQAssumption DEF IInv, TypeOK, Placed, AddToDLQ, Send, Full, InQueue, Elems
<1>2. Blocked' = Blocked /\ Holders' = Holders /\ Held' = Held
  <2>1. Blocked' = Blocked
    BY <1>1 DEF Blocked
  <2>2. Holders' = Holders
    BY <1>1, <2>1 DEF Holders, Holding
  <2> QED
    BY <1>1, <2>1, <2>2 DEF Held
<1>3. CASE Send(l)
  <2>1. dlq' = Append(dlq, l) /\ Len(dlq) < Capacity
    BY <1>3 DEF Send
  <2>2. /\ Append(dlq, l) \in Seq(Logs) /\ Len(dlq) \in Nat
        /\ Len(Append(dlq, l)) = Len(dlq) + 1 /\ Distinct(Append(dlq, l))
        /\ Elems(Append(dlq, l)) = Elems(dlq) \cup {l}
    BY <1>1, AppendTo
  <2>3. /\ dlq' \in Seq(Logs) /\ Len(dlq') <= Capacity /\ Distinct(dlq')
        /\ InQueue' = InQueue \cup {l}
    BY <1>1, <2>1, <2>2 DEF InQueue, Elems
  <2>4. dropped' = dropped /\ refills' \subseteq Logs
    BY <1>3, <2>1, <1>1 DEF AddToDLQ, Full, IInv, TypeOK
  <2>5. TypeOK'
    BY <1>1, <2>3, <2>4 DEF IInv, TypeOK
  <2>6. Placed'
    BY <1>1, <1>2, <2>3, <2>4 DEF IInv, Placed
  <2>7. waiting = <<>>
    BY <2>1, <2>2 DEF IInv, Waiting
  <2>8. Waiting'
    BY <1>1, <1>2, <2>7 DEF IInv, Waiting, Distinct
  <2>9. Rounds' /\ Doomed'
    BY <1>1, <1>2 DEF IInv, Rounds, Doomed
  <2>10. FlushClears'
    BY <1>1, <1>2, <2>3 DEF IInv, FlushClears, Doomed
  <2> QED
    BY <2>5, <2>6, <2>8, <2>9, <2>10 DEF IInv
<1>4. CASE ~Send(l)
  <2>1. dlq' = dlq /\ dropped' = dropped \cup {l} /\ refills' = refills
    BY <1>4 DEF AddToDLQ, Full
  <2>2. InQueue' = InQueue
    BY <2>1 DEF InQueue
  <2>3. TypeOK'
    BY <1>1, <2>1 DEF IInv, TypeOK
  <2>4. Placed'
    BY <1>1, <1>2, <2>1, <2>2 DEF IInv, Placed, Distinct
  <2>5. Waiting' /\ Rounds' /\ Doomed' /\ FlushClears'
    BY <1>1, <1>2, <2>1, <2>2 DEF IInv, Waiting, Rounds, Doomed, FlushClears, Distinct
  <2> QED
    BY <2>3, <2>4, <2>5 DEF IInv
<1> QED
  BY <1>3, <1>4

(* Steps of a request that touch only its own loop. *)
LEMMA OwnStep ==
  ASSUME IInv, NEW r \in Requests,
         PostRetry(r) \/ TakeNothing(r) \/ ReplyRetried(r) \/ ReplyFlushed(r) \/ FlushEnd(r)
  PROVE  IInv'
<1> USE DEF logs
<1>1. /\ UNCHANGED <<dlq, waiting, held, fresh, dropped, flushed, refills>>
      /\ \A q \in Requests : q # r => pc'[q] = pc[q] /\ left'[q] = left[q]
      /\ pc[r] \in {"idle", "take", "flush", "flushed"}
      /\ pc'[r] \in {"idle", "take", "flush", "flushed"}
      /\ pc' \in [Requests -> {"idle", "take", "give", "given", "flush", "flushed"}]
      /\ left' \in [Requests -> 0 .. MaxIds]
  <2>1. CASE PostRetry(r) \/ ReplyRetried(r) \/ ReplyFlushed(r) \/ FlushEnd(r)
    BY <2>1 DEF IInv, TypeOK, PostRetry, ReplyRetried, ReplyFlushed, FlushEnd
  <2>2. CASE TakeNothing(r)
    <3>1. left[r] - 1 \in 0 .. MaxIds
      BY <2>2, DLQAssumption DEF IInv, TypeOK, TakeNothing
    <3> QED
      BY <2>2, <3>1 DEF IInv, TypeOK, TakeNothing
  <2> QED
    BY <2>1, <2>2
<1>2. \A q \in Requests : pc'[q] # pc[q] => {pc'[q], pc[q]} \cap {"give", "given"} = {}
  BY <1>1
<1>3. /\ InQueue' = InQueue /\ Blocked' = Blocked /\ Holders' = Holders /\ Held' = Held
      /\ Placed' /\ Waiting'
  BY <1>1, <1>2, Aside
<1>4. TypeOK'
  BY <1>1 DEF IInv, TypeOK, PostRetry, TakeNothing, ReplyRetried, ReplyFlushed, FlushEnd
<1>5. Rounds'
  BY <1>1 DEF IInv, Rounds
<1>6. Doomed'
  BY <1>1, <1>3 DEF IInv, TypeOK, Doomed, PostRetry, TakeNothing, ReplyRetried, ReplyFlushed,
    FlushEnd
<1>7. FlushClears'
  <2>1. CASE FlushEnd(r)
    <3>1. dlq = <<>> /\ pc[r] = "flush" /\ doomed' = doomed
      BY <2>1 DEF FlushEnd
    <3>2. InQueue = {} /\ Blocked = {}
      BY <3>1, DLQAssumption DEF IInv, Waiting, InQueue, Blocked
    <3>3. doomed[r] \cap (InQueue \cup Held) = {}
      BY <3>1, <3>2 DEF IInv, Doomed, Held
    <3> QED
      BY <1>1, <1>3, <3>1, <3>3 DEF IInv, FlushClears
  <2>2. CASE ~FlushEnd(r)
    BY <1>1, <1>3, <2>2 DEF IInv, TypeOK, FlushClears, PostRetry, TakeNothing, ReplyRetried,
      ReplyFlushed
  <2> QED
    BY <2>1, <2>2
<1> QED
  BY <1>3, <1>4, <1>5, <1>6, <1>7 DEF IInv

(* A retry takes the oldest entry: a flush does not owe it any more. *)
LEMMA TakeEntryStep ==
  ASSUME IInv, NEW r \in Requests, TakeEntry(r) PROVE IInv'
<1> DEFINE e == Head(dlq)
<1>1. /\ pc[r] = "take" /\ left[r] > 0 /\ Receive
      /\ pc' = [pc EXCEPT ![r] = "give"]
      /\ held' = [held EXCEPT ![r] = e]
      /\ doomed' = [f \in Requests |-> doomed[f] \ {e}]
      /\ UNCHANGED <<left, fresh, dropped, flushed, refills>>
  BY DEF TakeEntry, logs
<1>2. /\ dlq' \in Seq(Logs) /\ Len(dlq') <= Capacity /\ Distinct(dlq')
      /\ waiting' \in Seq(Requests) /\ Distinct(waiting')
      /\ waiting' # <<>> => Len(dlq') = Capacity
      /\ e \in Logs /\ e \in InQueue
      /\ Woken \subseteq Blocked /\ Blocked \subseteq Requests /\ Blocked \subseteq Holders
      /\ Elems(waiting') = Blocked \ Woken
      /\ Elems(dlq') = (InQueue \ {e}) \cup WokenHeld
  BY <1>1, ReceiveEffect
<1> HIDE DEF e
<1>3. InQueue' = (InQueue \ {e}) \cup WokenHeld /\ Blocked' = Blocked \ Woken
  BY <1>2 DEF InQueue, Blocked, Elems
<1>4. TypeOK'
  BY <1>1, <1>2 DEF IInv, TypeOK
<1>5. r \notin Blocked /\ r \notin Holders
  BY <1>1 DEF IInv, Waiting, Holders, Holding
<1>6. /\ \A q \in Requests : q # r => pc'[q] = pc[q] /\ held'[q] = held[q]
      /\ pc'[r] = "give" /\ held'[r] = e
  BY <1>1 DEF IInv, TypeOK
<1>7. Holders' = (Holders \ Woken) \cup {r}
  BY <1>2, <1>3, <1>5, <1>6 DEF IInv, Waiting, Holders, Holding
<1>8. Held' = (Held \ WokenHeld) \cup {e} /\ WokenHeld \subseteq Held
  BY <1>2, <1>5, <1>6, <1>7 DEF IInv, Placed, Held, WokenHeld, Holders
<1>9. Placed'
  BY <1>1, <1>2, <1>3, <1>5, <1>6, <1>7, <1>8 DEF IInv, Placed, Held, Holders
<1>10. Waiting'
  <2>1. \A b \in Blocked' : pc'[b] = "given"
    BY <1>2, <1>3, <1>5, <1>6 DEF IInv, Waiting
  <2> QED
    BY <1>2, <2>1 DEF Waiting
<1>11. Rounds'
  BY <1>1, <1>2, <1>6 DEF IInv, Rounds
<1>12. Doomed'
  BY <1>1, <1>3, <1>6, <1>7 DEF IInv, Doomed, Holders
<1>13. FlushClears'
  BY <1>1, <1>2, <1>3, <1>6, <1>8 DEF IInv, FlushClears
<1> QED
  BY <1>4, <1>9, <1>10, <1>11, <1>12, <1>13 DEF IInv

LEMMA FlushEntryStep ==
  ASSUME IInv, NEW r \in Requests, FlushEntry(r) PROVE IInv'
<1> DEFINE e == Head(dlq)
<1>1. /\ Receive
      /\ flushed' = flushed \cup {e}
      /\ UNCHANGED <<pc, left, held, fresh, dropped, doomed, refills>>
  BY DEF FlushEntry
<1>2. /\ dlq' \in Seq(Logs) /\ Len(dlq') <= Capacity /\ Distinct(dlq')
      /\ waiting' \in Seq(Requests) /\ Distinct(waiting')
      /\ waiting' # <<>> => Len(dlq') = Capacity
      /\ e \in Logs /\ e \in InQueue
      /\ Woken \subseteq Blocked /\ Blocked \subseteq Requests /\ Blocked \subseteq Holders
      /\ Elems(waiting') = Blocked \ Woken
      /\ Elems(dlq') = (InQueue \ {e}) \cup WokenHeld
  BY <1>1, ReceiveEffect
<1> HIDE DEF e
<1>3. InQueue' = (InQueue \ {e}) \cup WokenHeld /\ Blocked' = Blocked \ Woken
  BY <1>2 DEF InQueue, Blocked, Elems
<1>4. TypeOK'
  BY <1>1, <1>2 DEF IInv, TypeOK
<1>5. Holders' = Holders \ Woken
  BY <1>1, <1>2, <1>3 DEF IInv, Waiting, Holders, Holding
<1>6. Held' = Held \ WokenHeld /\ WokenHeld \subseteq Held
  BY <1>1, <1>2, <1>5 DEF IInv, Placed, Held, WokenHeld
<1>7. Placed'
  BY <1>1, <1>2, <1>3, <1>5, <1>6 DEF IInv, Placed
<1>8. Waiting'
  BY <1>1, <1>2, <1>3 DEF IInv, Waiting
<1>9. Rounds' /\ Doomed'
  BY <1>1, <1>3, <1>5 DEF IInv, Rounds, Doomed
<1>10. FlushClears'
  BY <1>1, <1>3, <1>6 DEF IInv, FlushClears
<1> QED
  BY <1>4, <1>7, <1>8, <1>9, <1>10 DEF IInv

(* A retry sends its entry back, or waits for room. *)
LEMMA GiveStep ==
  ASSUME IInv, NEW r \in Requests, Give(r) PROVE IInv'
<1> DEFINE e == held[r]
<1>1. /\ pc[r] = "give" /\ pc' = [pc EXCEPT ![r] = "given"]
      /\ UNCHANGED <<left, held, fresh, dropped, flushed, doomed, refills>>
      /\ \A q \in Requests : q # r => pc'[q] = pc[q]
      /\ pc'[r] = "given"
      /\ dlq \in Seq(Logs) /\ Distinct(dlq) /\ InQueue = Elems(dlq)
      /\ waiting \in Seq(Requests) /\ Distinct(waiting) /\ Blocked = Elems(waiting)
      /\ Len(dlq) <= Capacity /\ Capacity \in Nat
  BY DLQAssumption
  DEF IInv, TypeOK, Placed, Waiting, Give, logs, InQueue, Blocked, Elems
<1>2. /\ r \in Holders /\ r \notin Blocked /\ e \in Logs /\ e \in Held /\ e \notin InQueue
      /\ Blocked \subseteq Requests
  BY <1>1 DEF IInv, TypeOK, Placed, Waiting, Rounds, Holders, Holding, Held, Blocked
<1>3. CASE Send(e)
  <2>1. dlq' = Append(dlq, e) /\ Len(dlq) < Capacity /\ waiting' = waiting
    BY <1>3 DEF Send
  <2> HIDE DEF e
  <2>2. /\ Append(dlq, e) \in Seq(Logs) /\ Len(dlq) \in Nat
        /\ Len(Append(dlq, e)) = Len(dlq) + 1 /\ Distinct(Append(dlq, e))
        /\ Elems(Append(dlq, e)) = Elems(dlq) \cup {e}
    BY <1>1, <1>2, AppendTo
  <2>3. /\ dlq' \in Seq(Logs) /\ Len(dlq') <= Capacity /\ Distinct(dlq')
        /\ InQueue' = InQueue \cup {e} /\ Blocked' = Blocked /\ Blocked = {}
    BY <1>1, <2>1, <2>2 DEF InQueue, Blocked, Elems, IInv, Waiting
  <2>4. TypeOK'
    BY <1>1, <2>1, <2>3 DEF IInv, TypeOK
  <2>5. Holders' = Holders \ {r}
    BY <1>1, <2>3 DEF Holders, Holding
  <2>6. Held' = Held \ {e}
    BY <1>1, <1>2, <2>5 DEF IInv, Placed, Held, e
  <2>7. Placed'
    BY <1>1, <1>2, <2>3, <2>5, <2>6 DEF IInv, Placed
  <2>8. Waiting'
    BY <1>1, <2>1, <2>2, <2>3 DEF IInv, Waiting, Distinct
  <2>9. Rounds' /\ Doomed'
    BY <1>1, <2>3, <2>5 DEF IInv, Rounds, Doomed
  <2>10. FlushClears'
    BY <1>1, <1>2, <2>3, <2>6 DEF IInv, FlushClears
  <2> QED
    BY <2>4, <2>7, <2>8, <2>9, <2>10 DEF IInv
<1>4. CASE Len(dlq) >= Capacity /\ waiting' = Append(waiting, r) /\ dlq' = dlq
  <2>1. /\ Append(waiting, r) \in Seq(Requests) /\ Distinct(Append(waiting, r))
        /\ Elems(Append(waiting, r)) = Elems(waiting) \cup {r}
    BY <1>1, <1>2, AppendTo
  <2>2. /\ waiting' \in Seq(Requests) /\ Distinct(waiting')
        /\ InQueue' = InQueue /\ Blocked' = Blocked \cup {r}
        /\ Len(dlq) = Capacity
    BY <1>1, <1>4, <2>1 DEF InQueue, Blocked, Elems
  <2>3. TypeOK'
    BY <1>1, <1>4, <2>2 DEF IInv, TypeOK
  <2>4. Holders' = Holders /\ Held' = Held
    <3>1. Holders' = Holders
      BY <1>1, <1>2, <2>2 DEF Holders, Holding
    <3> QED
      BY <1>1, <3>1 DEF Held
  <2>5. Placed'
    BY <1>1, <1>4, <2>2, <2>4 DEF IInv, Placed, Distinct
  <2>6. Waiting'
    BY <1>1, <1>4, <1>2, <2>2 DEF IInv, Waiting
  <2>7. Rounds' /\ Doomed' /\ FlushClears'
    BY <1>1, <2>2, <2>4 DEF IInv, Rounds, Doomed, FlushClears
  <2> QED
    BY <2>3, <2>5, <2>6, <2>7 DEF IInv
<1> QED
  BY <1>3, <1>4 DEF Give

(* The send is over: the retry forgets its entry. *)
LEMMA GivenStep ==
  ASSUME IInv, NEW r \in Requests, Given(r) PROVE IInv'
<1>1. /\ pc[r] = "given" /\ r \notin Blocked
      /\ held' = [held EXCEPT ![r] = NoLog] /\ left' = [left EXCEPT ![r] = @ - 1]
      /\ pc' = [pc EXCEPT ![r] = "take"]
      /\ UNCHANGED <<dlq, waiting, fresh, dropped, flushed, doomed, refills>>
      /\ \A q \in Requests : q # r => pc'[q] = pc[q] /\ held'[q] = held[q] /\ left'[q] = left[q]
      /\ pc'[r] = "take"
  BY DEF IInv, TypeOK, Given, logs
<1>2. left[r] - 1 \in 0 .. MaxIds
  BY <1>1, DLQAssumption DEF IInv, TypeOK, Rounds
<1>3. TypeOK'
  BY <1>1, <1>2 DEF IInv, TypeOK
<1>4. InQueue' = InQueue /\ Blocked' = Blocked
  BY <1>1 DEF InQueue, Blocked
<1>5. Holders' = Holders /\ r \notin Holders
  BY <1>1, <1>4 DEF Holders, Holding
<1>6. \A h \in Holders : held'[h] = held[h] /\ h # r
  BY <1>1, <1>5 DEF Holders
<1>7. Held' = Held
  BY <1>5, <1>6 DEF Held
<1>8. Placed'
  BY <1>1, <1>4, <1>5, <1>6, <1>7 DEF IInv, Placed, Distinct
<1>9. Waiting'
  BY <1>1, <1>4 DEF IInv, TypeOK, Waiting, Distinct, Blocked
<1>10. Rounds'
  BY <1>1 DEF IInv, Rounds
<1>11. Doomed'
  BY <1>1, <1>4, <1>5, <1>6 DEF IInv, Doomed
<1>12. FlushClears'
  BY <1>1, <1>4, <1>7 DEF IInv, FlushClears
<1> QED
  BY <1>3, <1>8, <1>9, <1>10, <1>11, <1>12 DEF IInv

(* A flush begins: it owes what is in the channel and what waits for room. *)
LEMMA DeleteAllStep ==
  ASSUME IInv, NEW r \in Requests, DeleteAll(r) PROVE IInv'
<1>1. /\ pc[r] = "idle" /\ pc' = [pc EXCEPT ![r] = "flush"]
      /\ doomed' = [doomed EXCEPT ![r] = InQueue \cup {held[b] : b \in Blocked}]
      /\ UNCHANGED <<dlq, waiting, left, held, fresh, dropped, flushed, refills>>
      /\ \A q \in Requests : q # r => pc'[q] = pc[q] /\ doomed'[q] = doomed[q]
      /\ pc'[r] = "flush" /\ doomed'[r] = InQueue \cup {held[b] : b \in Blocked}
  BY DEF IInv, TypeOK, DeleteAll, logs
<1>2. \A q \in Requests : pc'[q] # pc[q] => {pc'[q], pc[q]} \cap {"give", "given"} = {}
  BY <1>1
<1>3. /\ InQueue' = InQueue /\ Blocked' = Blocked /\ Holders' = Holders /\ Held' = Held
      /\ Placed' /\ Waiting'
  BY <1>1, <1>2, Aside DEF logs
<1>4. Blocked \subseteq Holders /\ {held[b] : b \in Blocked} \subseteq Held
  BY DEF IInv, TypeOK, Blocked, Holders, Holding, Held
<1>5. InQueue \subseteq Logs /\ Held \subseteq Logs
  BY DEF IInv, Placed
<1>6. TypeOK'
  BY <1>1, <1>4, <1>5 DEF IInv, TypeOK
<1>7. Rounds' /\ FlushClears'
  BY <1>1, <1>3 DEF IInv, Rounds, FlushClears
<1>8. Doomed'
  <2>1. doomed'[r] \cap fresh = {}
    BY <1>1, <1>4 DEF IInv, Placed
  <2>2. \A h \in Holders : held[h] \in doomed'[r] => h \in Blocked
    BY <1>1, <1>4 DEF IInv, Placed, Held
  <2> QED
    BY <1>1, <1>3, <2>1, <2>2 DEF IInv, Doomed
<1> QED
  BY <1>3, <1>6, <1>7, <1>8 DEF IInv

-----------------------------------------------------------------------------
(* The inductive invariant holds in every state of the queue. *)
THEOREM QueueInvariant == Spec => []IInv
<1>1. Init => IInv
  BY InitInvariant
<1>2. IInv /\ [Next]_vars => IInv'
  <2> SUFFICES ASSUME IInv, [Next]_vars PROVE IInv'
    OBVIOUS
  <2>1. ASSUME NEW l \in Logs, AddToDLQ(l) PROVE IInv'
    BY <2>1, AddStep
  <2>2. ASSUME NEW r \in Requests,
               PostRetry(r) \/ TakeNothing(r) \/ ReplyRetried(r) \/ ReplyFlushed(r) \/ FlushEnd(r)
        PROVE  IInv'
    BY <2>2, OwnStep
  <2>3. ASSUME NEW r \in Requests, DeleteAll(r) PROVE IInv'
    BY <2>3, DeleteAllStep
  <2>4. ASSUME NEW r \in Requests, TakeEntry(r) PROVE IInv'
    BY <2>4, TakeEntryStep
  <2>5. ASSUME NEW r \in Requests, Give(r) PROVE IInv'
    BY <2>5, GiveStep
  <2>6. ASSUME NEW r \in Requests, Given(r) PROVE IInv'
    BY <2>6, GivenStep
  <2>7. ASSUME NEW r \in Requests, FlushEntry(r) PROVE IInv'
    BY <2>7, FlushEntryStep
  <2>8. CASE UNCHANGED vars
    <3>1. UNCHANGED <<dlq, waiting, pc, left, held, fresh, dropped, flushed, doomed, refills>>
      BY <2>8 DEF vars, logs
    <3>2. /\ InQueue' = InQueue /\ Blocked' = Blocked /\ Holders' = Holders /\ Held' = Held
          /\ Placed' /\ Waiting'
      BY <3>1, Aside DEF logs
    <3>3. TypeOK'
      BY <3>1 DEF IInv, TypeOK
    <3>4. Rounds' /\ Doomed' /\ FlushClears'
      BY <3>1, <3>2 DEF IInv, Rounds, Doomed, FlushClears
    <3> QED
      BY <3>2, <3>3, <3>4 DEF IInv
  <2> QED
    BY <2>1, <2>2, <2>3, <2>4, <2>5, <2>6, <2>7, <2>8 DEF Next, Handle
<1> QED
  BY <1>1, <1>2, PTL DEF Spec

(* The channel never holds more than it has room for. *)
THEOREM QueueTypeOK == Spec => []TypeOK
<1>1. IInv => TypeOK
  BY DEF IInv
<1> QED
  BY <1>1, QueueInvariant, PTL

(* No failed log is lost or doubled by retries and flushes. *)
THEOREM EntriesKept == Spec => []NoEntryLost
<1>1. IInv => NoEntryLost
  <2> SUFFICES ASSUME IInv PROVE NoEntryLost
    OBVIOUS
  <2> DEFINE places == <<fresh, dropped, flushed, InQueue, Held>>
  <2>1. /\ DOMAIN places = 1 .. 5 /\ places[1] = fresh /\ places[2] = dropped
        /\ places[3] = flushed /\ places[4] = InQueue /\ places[5] = Held
    OBVIOUS
  <2> HIDE DEF places
  <2>2. \A l \in Logs : \E i \in DOMAIN places : l \in places[i]
    BY <2>1 DEF IInv, Placed
  <2>3. \A i, j \in 1 .. 5 : i # j => places[i] \cap places[j] = {}
    <3> SUFFICES ASSUME NEW i \in 1 .. 5, NEW j \in 1 .. 5, i # j
                 PROVE  places[i] \cap places[j] = {}
      OBVIOUS
    <3>1. i \in {1, 2, 3, 4, 5} /\ j \in {1, 2, 3, 4, 5}
      OBVIOUS
    <3> QED
      BY <2>1, <3>1 DEF IInv, Placed
  <2>4. /\ \A i, j \in DOMAIN dlq : i # j => dlq[i] # dlq[j]
        /\ \A r, q \in Holders : r # q => held[r] # held[q]
    BY DEF IInv, Placed, Distinct
  <2> QED
    BY <2>1, <2>2, <2>3, <2>4 DEF NoEntryLost, places
<1> QED
  BY <1>1, QueueInvariant, PTL

(* What a flush found is gone when it ends, but for what a retry took.       *)
THEOREM FlushComplete == Spec => []FlushClears
<1>1. IInv => FlushClears
  BY DEF IInv
<1> QED
  BY <1>1, QueueInvariant, PTL

-----------------------------------------------------------------------------
(* Room for what was taken *)

(* As long as AddToDLQ has filled no place of an entry that a retry holds,  *)
(* the channel has room for all of them, and nobody waits.                  *)
RoomInv ==
  refills = {} =>
    /\ waiting = <<>>
    /\ IsFiniteSet(Holders) /\ Len(dlq) + Cardinality(Holders) <= Capacity

(* Without waiting senders, the holders are those between taking and giving. *)
LEMMA NobodyWaits ==
  ASSUME waiting = <<>>
  PROVE  Blocked = {} /\ Holders = {r \in Requests : pc[r] = "give"}
<1>1. Blocked = {}
  BY DEF Blocked
<1> QED
  BY <1>1 DEF Holders, Holding

LEMMA RoomStep ==
  ASSUME IInv, RoomInv, [Next]_vars, refills' = {}
  PROVE  /\ waiting' = <<>>
         /\ IsFiniteSet(Holders') /\ Len(dlq') + Cardinality(Holders') <= Capacity
<1> USE DEF logs
<1>1. refills = {}
  BY DEF Next, vars, AddToDLQ, PostRetry, DeleteAll, Handle, TakeEntry, TakeNothing, Give,
    Given, ReplyRetried, FlushEntry, FlushEnd, ReplyFlushed
<1>2. /\ waiting = <<>> /\ IsFiniteSet(Holders)
      /\ Len(dlq) + Cardinality(Holders) <= Capacity
  BY <1>1 DEF RoomInv
<1>3. /\ dlq \in Seq(Logs) /\ Len(dlq) \in Nat /\ Capacity \in Nat
      /\ pc \in [Requests -> {"idle", "take", "give", "given", "flush", "flushed"}]
      /\ Cardinality(Holders) \in Nat
  BY <1>2, DLQAssumption, FS_CardinalityType DEF IInv, TypeOK
<1>4. Holders = {r \in Requests : pc[r] = "give"}
  BY <1>2, NobodyWaits
<1>5. waiting' = <<>> => Holders' = {r \in Requests : pc'[r] = "give"}
  BY DEF Holders, Holding, Blocked
<1>6. ASSUME NEW l \in Logs, AddToDLQ(l)
      PROVE  /\ waiting' = <<>>
             /\ IsFiniteSet(Holders') /\ Len(dlq') + Cardinality(Holders') <= Capacity
  <2>1. waiting' = <<>> /\ pc' = pc
    BY <1>2, <1>6 DEF AddToDLQ, Send, Full
  <2>2. Holders' = Holders
    BY <1>4, <1>5, <2>1
  <2>3. CASE Send(l)
    <3>1. dlq' = Append(dlq, l)
      BY <2>3 DEF Send
    <3>2. Len(dlq') = Len(dlq) + 1
      BY <1>3, <3>1
    <3>3. ~(Len(dlq) + Cardinality(Holders) >= Capacity)
      BY <1>6, <2>3, <1>3 DEF AddToDLQ, Send, Full
    <3> QED
      BY <1>2, <1>3, <2>1, <2>2, <3>2, <3>3
  <2>4. CASE ~Send(l)
    BY <1>2, <1>6, <2>1, <2>2, <2>4 DEF AddToDLQ, Full
  <2> QED
    BY <2>3, <2>4
<1>7. Receive => waiting' = <<>> /\ Len(dlq') = Len(dlq) - 1
  <2> SUFFICES ASSUME Receive PROVE waiting' = <<>> /\ Len(dlq') = Len(dlq) - 1
    OBVIOUS
  <2>1. dlq # <<>> /\ dlq' = Tail(dlq) /\ waiting' = waiting
    BY <1>2 DEF Receive
  <2> QED
    BY <1>2, <1>3, <2>1
<1>8. ASSUME NEW r \in Requests, TakeEntry(r)
      PROVE  /\ waiting' = <<>>
             /\ IsFiniteSet(Holders') /\ Len(dlq') + Cardinality(Holders') <= Capacity
  <2>1. waiting' = <<>> /\ Len(dlq') = Len(dlq) - 1 /\ pc[r] = "take"
        /\ pc' = [pc EXCEPT ![r] = "give"]
    BY <1>7, <1>8 DEF TakeEntry
  <2>2. Holders' = Holders \cup {r} /\ r \notin Holders
    BY <1>3, <1>4, <1>5, <2>1
  <2>3. IsFiniteSet(Holders') /\ Cardinality(Holders') = Cardinality(Holders) + 1
    BY <1>2, <2>2, FS_AddElement
  <2> QED
    BY <1>2, <1>3, <2>1, <2>3
<1>9. ASSUME NEW r \in Requests, Give(r)
      PROVE  /\ waiting' = <<>>
             /\ IsFiniteSet(Holders') /\ Len(dlq') + Cardinality(Holders') <= Capacity
  <2>1. pc[r] = "give" /\ pc' = [pc EXCEPT ![r] = "given"] /\ r \in Holders
    BY <1>4, <1>9 DEF Give
  <2>2. /\ IsFiniteSet(Holders \ {r})
        /\ Cardinality(Holders \ {r}) = Cardinality(Holders) - 1
        /\ Cardinality(Holders \ {r}) \in Nat
    BY <1>2, <2>1, FS_RemoveElement, FS_CardinalityType
  <2>3. Len(dlq) < Capacity
    BY <1>2, <1>3, <2>2
  <2>4. dlq' = Append(dlq, held[r]) /\ waiting' = <<>>
    BY <1>2, <1>3, <1>9, <2>3 DEF Give, Send
  <2>5. Len(dlq') = Len(dlq) + 1
    BY <1>3, <2>4
  <2>6. Holders' = Holders \ {r}
    BY <1>3, <1>4, <1>5, <2>1, <2>4
  <2> QED
    BY <1>2, <1>3, <2>2, <2>4, <2>5, <2>6
<1>10. ASSUME NEW r \in Requests, FlushEntry(r)
       PROVE  /\ waiting' = <<>>
              /\ IsFiniteSet(Holders') /\ Len(dlq') + Cardinality(Holders') <= Capacity
  <2>1. waiting' = <<>> /\ Len(dlq') = Len(dlq) - 1 /\ pc' = pc
    BY <1>7, <1>10 DEF FlushEntry
  <2>2. Holders' = Holders
    BY <1>4, <1>5, <2>1
  <2> QED
    BY <1>2, <1>3, <2>1, <2>2
<1>11. ASSUME NEW r \in Requests,
              PostRetry(r) \/ DeleteAll(r) \/ TakeNothing(r) \/ Given(r)
                \/ ReplyRetried(r) \/ FlushEnd(r) \/ ReplyFlushed(r)
       PROVE  /\ waiting' = <<>>
              /\ IsFiniteSet(Holders') /\ Len(dlq') + Cardinality(Holders') <= Capacity
  <2>1. /\ waiting' = <<>> /\ dlq' = dlq
        /\ \A q \in Requests : pc'[q] = "give" <=> pc[q] = "give"
    BY <1>2, <1>3, <1>11 DEF PostRetry, DeleteAll, TakeNothing, Given, ReplyRetried, FlushEnd,
      ReplyFlushed
  <2>2. Holders' = Holders
    BY <1>4, <1>5, <2>1
  <2> QED
    BY <1>2, <2>1, <2>2
<1>12. CASE UNCHANGED vars
  <2>1. waiting' = <<>> /\ dlq' = dlq /\ pc' = pc
    BY <1>2, <1>12 DEF vars
  <2>2. Holders' = Holders
    BY <1>4, <1>5, <2>1
  <2> QED
    BY <1>2, <2>1, <2>2
<1> QED
  BY <1>6, <1>8, <1>9, <1>10, <1>11, <1>12 DEF Next, Handle

(* A retry blocks on sending its entry back only after AddToDLQ has given   *)
(* away the place of an entry that some retry was holding: retries and      *)
(* flushes among themselves never block.                                    *)
THEOREM RetryBlockedByRefill == Spec => []BlockedByRefill
<1>1. Init => RoomInv
  <2> SUFFICES ASSUME Init PROVE RoomInv
    OBVIOUS
  <2>1. waiting = <<>> /\ Len(dlq) = 0 /\ Capacity \in Nat
    BY DLQAssumption DEF Init
  <2>2. Holders = {}
    BY <2>1, NobodyWaits DEF Init
  <2> QED
    BY <2>1, <2>2, FS_EmptySet DEF RoomInv
<1>2. IInv /\ RoomInv /\ [Next]_vars => RoomInv'
  BY RoomStep DEF RoomInv
<1>3. RoomInv => BlockedByRefill
  BY DEF RoomInv, BlockedByRefill
<1> QED
  BY <1>1, <1>2, <1>3, QueueInvariant, PTL DEF Spec

=============================================================================
