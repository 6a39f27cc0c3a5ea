--------------------------- MODULE DeadLetterQueue ---------------------------
(***************************************************************************)
(* The dead letter queue of the ingestor: a buffered channel, AddToDLQ,    *)
(* which drops when it is full, and the requests to /dlq.  A retry takes   *)
(* the oldest entry out and sends it back with a send that blocks; a flush *)
(* receives until it finds the channel empty.                              *)
(*                                                                         *)
(* No code in this commit calls AddToDLQ: Logs = {} is the running         *)
(* program, with Logs the queue is checked for the callers it is made for. *)
(***************************************************************************)
EXTENDS Naturals, Sequences, FiniteSets

CONSTANTS
  Logs,        \* bound: the failed logs there are
  Requests,    \* requests to /dlq in progress at a time
  Capacity,    \* of dlqChan
  MaxIds,      \* bound: the ids a retry is posted with
  NoLog

ASSUME DLQAssumption ==
  /\ Capacity \in Nat \ {0}
  /\ MaxIds \in Nat
  /\ NoLog \notin Logs

VARIABLES
  dlq,       \* the buffer of dlqChan
  waiting,   \* the requests whose send blocks, the runtime's queue
  pc,        \* of each request
  left,      \* the rounds of a retry's loop still to come
  held,      \* the entry it has taken and not sent back
  fresh,     \* logs that have not failed yet
  dropped,   \* logs AddToDLQ found no room for
  flushed,   \* entries some flush has received
  doomed,    \* history: what a flush found in the channel, less what a retry took since
  refills    \* history: entries that filled the place of one a retry was holding

logs == <<fresh, dropped, flushed>>
vars == <<dlq, waiting, pc, left, held, logs, doomed, refills>>

InQueue == {dlq[i] : i \in DOMAIN dlq}
Blocked == {waiting[i] : i \in DOMAIN waiting}

(* The requests whose entry is not in the channel. *)
Holding(r) == pc[r] = "give" \/ r \in Blocked
Holders == {r \in Requests : Holding(r)}
Held == {held[r] : r \in Holders}

TypeOK ==
  /\ dlq \in Seq(Logs) /\ Len(dlq) <= Capacity
  /\ waiting \in Seq(Requests)
  /\ pc \in [Requests -> {"idle", "take", "give", "given", "flush", "flushed"}]
  /\ left \in [Requests -> 0 .. MaxIds]
  /\ held \in [Requests -> Logs \cup {NoLog}]
  /\ fresh \subseteq Logs /\ dropped \subseteq Logs /\ flushed \subseteq Logs
  /\ doomed \in [Requests -> SUBSET Logs]
  /\ refills \subseteq Logs

Init ==
  /\ dlq = <<>> /\ waiting = <<>>
  /\ pc = [r \in Requests |-> "idle"]
  /\ left = [r \in Requests |-> 0]
  /\ held = [r \in Requests |-> NoLog]
  /\ fresh = Logs /\ dropped = {} /\ flushed = {}
  /\ doomed = [r \in Requests |-> {}] /\ refills = {}

-----------------------------------------------------------------------------
(* A receive hands the room it makes to the first sender that waits for it. *)
Receive ==
  /\ dlq # <<>>
  /\ IF waiting = <<>>
     THEN dlq' = Tail(dlq) /\ UNCHANGED waiting
     ELSE dlq' = Append(Tail(dlq), held[Head(waiting)]) /\ waiting' = Tail(waiting)

(* A send with room. *)
Send(l) == Len(dlq) < Capacity /\ dlq' = Append(dlq, l) /\ UNCHANGED waiting

Full == Len(dlq) >= Capacity /\ UNCHANGED <<dlq, waiting>>

AddToDLQ(l) ==
  /\ l \in fresh
  /\ fresh' = fresh \ {l}
  /\ \/ /\ Send(l)
        /\ refills' = IF Len(dlq) + Cardinality(Holders) >= Capacity
                      THEN refills \cup {l} ELSE refills
        /\ UNCHANGED dropped
     \/ Full /\ dropped' = dropped \cup {l} /\ UNCHANGED refills
  /\ UNCHANGED <<pc, left, held, flushed, doomed>>

-----------------------------------------------------------------------------
(* retryDLQ.  Of the ids it is posted with, only their number is used. *)

PostRetry(r) ==
  /\ pc[r] = "idle"
  /\ \E n \in 0 .. MaxIds : left' = [left EXCEPT ![r] = n]
  /\ pc' = [pc EXCEPT ![r] = "take"]
  /\ UNCHANGED <<dlq, waiting, held, logs, doomed, refills>>

(* Mutant: the entry is looked at and stays in the channel. *)
TakeEntryCopy(r) ==
  /\ pc[r] = "take" /\ left[r] > 0
  /\ dlq # <<>>
  /\ held' = [held EXCEPT ![r] = Head(dlq)]
  /\ doomed' = [f \in Requests |-> doomed[f] \ {Head(dlq)}]
  /\ pc' = [pc EXCEPT ![r] = "give"]
  /\ UNCHANGED <<dlq, waiting, left, logs, refills>>

TakeEntry(r) ==
  /\ pc[r] = "take" /\ left[r] > 0
  /\ Receive
  /\ held' = [held EXCEPT ![r] = Head(dlq)]
  /\ doomed' = [f \in Requests |-> doomed[f] \ {Head(dlq)}]
  /\ pc' = [pc EXCEPT ![r] = "give"]
  /\ UNCHANGED <<left, logs, refills>>

(* Mutant: a round that finds the channel empty does not count. *)
TakeNothingAgain(r) ==
  /\ pc[r] = "take" /\ left[r] > 0
  /\ dlq = <<>>
  /\ UNCHANGED vars

(* The break leaves the select and not the loop. *)
TakeNothing(r) ==
  /\ pc[r] = "take" /\ left[r] > 0
  /\ dlq = <<>>
  /\ left' = [left EXCEPT ![r] = @ - 1]
  /\ UNCHANGED <<dlq, waiting, pc, held, logs, doomed, refills>>

(* Mutant: the entry is sent back past the capacity. *)
GiveUnbounded(r) ==
  /\ pc[r] = "give"
  /\ pc' = [pc EXCEPT ![r] = "given"]
  /\ dlq' = Append(dlq, held[r])
  /\ UNCHANGED <<waiting, left, held, logs, doomed, refills>>

(* Mutant: an entry for which there is no room any more is let go. *)
GiveOrForget(r) ==
  /\ pc[r] = "give"
  /\ pc' = [pc EXCEPT ![r] = "given"]
  /\ Send(held[r]) \/ Full
  /\ UNCHANGED <<left, held, logs, doomed, refills>>

(* The send back blocks when the channel has been filled in between. *)
Give(r) ==
  /\ pc[r] = "give"
  /\ pc' = [pc EXCEPT ![r] = "given"]
  /\ \/ Send(held[r])
     \/ Len(dlq) >= Capacity /\ waiting' = Append(waiting, r) /\ UNCHANGED dlq
  /\ UNCHANGED <<left, held, logs, doomed, refills>>

Given(r) ==
  /\ pc[r] = "given" /\ r \notin Blocked
  /\ held' = [held EXCEPT ![r] = NoLog]
  /\ left' = [left EXCEPT ![r] = @ - 1]
  /\ pc' = [pc EXCEPT ![r] = "take"]
  /\ UNCHANGED <<dlq, waiting, logs, doomed, refills>>

ReplyRetried(r) ==
  /\ pc[r] = "take" /\ left[r] = 0
  /\ pc' = [pc EXCEPT ![r] = "idle"]
  /\ UNCHANGED <<dlq, waiting, left, held, logs, doomed, refills>>

-----------------------------------------------------------------------------
(* flushDLQ *)

DeleteAll(r) ==
  /\ pc[r] = "idle"
  /\ pc' = [pc EXCEPT ![r] = "flush"]
  /\ doomed' = [doomed EXCEPT ![r] = InQueue \cup {held[b] : b \in Blocked}]
  /\ UNCHANGED <<dlq, waiting, left, held, logs, refills>>

(* Mutant: the flush receives once. *)
FlushEntryOnce(r) ==
  /\ pc[r] = "flush"
  /\ Receive
  /\ flushed' = flushed \cup {Head(dlq)}
  /\ pc' = [pc EXCEPT ![r] = "flushed"]
  /\ UNCHANGED <<left, held, fresh, dropped, doomed, refills>>

FlushEntry(r) ==
  /\ pc[r] = "flush"
  /\ Receive
  /\ flushed' = flushed \cup {Head(dlq)}
  /\ UNCHANGED <<pc, left, held, fresh, dropped, doomed, refills>>

FlushEnd(r) ==
  /\ pc[r] = "flush" /\ dlq = <<>>
  /\ pc' = [pc EXCEPT ![r] = "flushed"]
  /\ UNCHANGED <<dlq, waiting, left, held, logs, doomed, refills>>

ReplyFlushed(r) ==
  /\ pc[r] = "flushed"
  /\ pc' = [pc EXCEPT ![r] = "idle"]
  /\ doomed' = [doomed EXCEPT ![r] = {}]
  /\ UNCHANGED <<dlq, waiting, left, held, logs, refills>>

-----------------------------------------------------------------------------
Handle(r) ==
  \/ TakeEntry(r) \/ TakeNothing(r)
  \/ Give(r) \/ Given(r) \/ ReplyRetried(r)
  \/ FlushEntry(r) \/ FlushEnd(r) \/ ReplyFlushed(r)

Next ==
  \/ \E l \in Logs : AddToDLQ(l)
  \/ \E r \in Requests : PostRetry(r) \/ DeleteAll(r) \/ Handle(r)

Spec == Init /\ [][Next]_vars

(* Go runs every handler that can run; failures and requests are not owed.  *)
FairSpec == Spec /\ \A r \in Requests : WF_vars(Handle(r))

-----------------------------------------------------------------------------
(* Properties *)

(* Every log that has failed is in one place: in the channel once, held by  *)
(* one retry, flushed, or dropped when it came.                             *)
NoEntryLost ==
  LET places == <<fresh, dropped, flushed, InQueue, Held>>
  IN  /\ \A l \in Logs : \E i \in DOMAIN places : l \in places[i]
      /\ \A i, j \in DOMAIN places : i # j => places[i] \cap places[j] = {}
      /\ \A i, j \in DOMAIN dlq : i # j => dlq[i] # dlq[j]
      /\ \A r, q \in Holders : r # q => held[r] # held[q]

(* A flush leaves nothing behind of what it found, whatever is added        *)
(* meanwhile, but for entries a retry took and sent back behind it.         *)
FlushClears ==
  \A r \in Requests :
    pc[r] = "flushed" =>
      doomed[r] \cap (InQueue \cup Held) = {}

(* Retries and flushes never block each other: a retry waits for room only  *)
(* after AddToDLQ has given away the place of an entry that was held.       *)
BlockedByRefill == waiting # <<>> => refills # {}

(* A request ends, or it is a retry that waits for room for ever because    *)
(* the channel stays full.  A flush would end the waiting.                  *)
RequestsEnd ==
  \A r \in Requests :
    pc[r] # "idle" ~> (pc[r] = "idle" \/ [](r \in Blocked /\ Len(dlq) = Capacity))

=============================================================================
