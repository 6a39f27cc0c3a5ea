------------------------- MODULE PipelineStoreProofs ------------------------
(***************************************************************************)
(* Proofs about PipelineStore, for every set of requests and ids: its      *)
(* types, that it implements the registry of PipelineRegistry, what a      *)
(* reader sees, and what the file holds.                                   *)
(***************************************************************************)
EXTENDS PipelineStore, TLAPS

LEMMA StoresFacts ==
  /\ NoPipelines \in Stores
  /\ DOMAIN NoPipelines = {}
  /\ \A m \in Stores : DOMAIN m \subseteq Ids /\ m \in [DOMAIN m -> Config]
  /\ \A s \in SUBSET Ids : [s -> Config] \subseteq Stores
<1>1. NewConfig \in Config BY DEF NewConfig, Config
<1>2. NoPipelines \in [{} -> Config] BY <1>1 DEF NoPipelines
<1> QED BY <1>1, <1>2 DEF Stores, NoPipelines

(* Every variable keeps to its set of values. *)
THEOREM StoreTypeOK == Spec => []TypeOK
<1> USE StoreAssumption DEF TypeOK, Config, AllOps, Pcs, SavePcs
<1>1. Init => TypeOK
  <2> SUFFICES ASSUME Init PROVE TypeOK OBVIOUS
  <2>1. (CHOOSE id \in Ids : TRUE) \in Ids OBVIOUS
  <2>2. NewConfig \in Config BY DEF NewConfig
  <2> QED BY <2>1, <2>2, StoresFacts DEF Init, Absent, Contents
<1>2. TypeOK /\ [Next]_vars => TypeOK'
  <2> SUFFICES ASSUME TypeOK, [Next]_vars PROVE TypeOK'
    OBVIOUS
  <2> USE DEF lock, process, history, Goto, Enters, Target
  <2>1. ASSUME NEW r \in Requests, NEW op \in Ops, NEW id \in Ids, Receive(r, op, id)
        PROVE  TypeOK'
    BY <2>1 DEF Receive
  <2>2. ASSUME NEW r \in Requests, Handle(r) PROVE TypeOK'
    <3>1. CASE CallLock(r) BY <3>1 DEF CallLock, Announce
    <3>2. CASE CreateInsert(r)
      <4>1. NewConfig \in Config BY DEF NewConfig
      <4> QED BY <3>2, <4>1 DEF CreateInsert, Unlock
    <3>3. CASE NotFound(r) BY <3>3 DEF NotFound, Unlock
    <3>4. CASE UpdateFirst(r)
      <4>1. conf[Target(r)] \in Config OBVIOUS
      <4>2. [conf[Target(r)] EXCEPT !.name = 3 - @] \in Config
        <5> DEFINE c == conf[Target(r)]
        <5>1. c.name \in 1 .. 2 /\ c.enabled \in 1 .. 2 BY <4>1
        <5>2. 3 - c.name \in 1 .. 2 BY <5>1
        <5>3. [c EXCEPT !.name = 3 - @] = [name |-> 3 - c.name, enabled |-> c.enabled]
          BY <4>1
        <5> QED BY <5>1, <5>2, <5>3
      <4>3. conf' = [conf EXCEPT ![Target(r)] = [conf[Target(r)] EXCEPT !.name = 3 - @]]
        BY <3>4 DEF UpdateFirst
      <4>4. conf' \in [Ids -> Config] BY <4>2, <4>3
      <4> QED BY <3>4, <4>4 DEF UpdateFirst
    <3>5. CASE UpdateSecond(r)
      <4>1. conf' \in [Ids -> Config] BY <3>5 DEF UpdateSecond
      <4> QED BY <3>5, <4>1 DEF UpdateSecond
    <3>6. CASE DeleteEntry(r) BY <3>6 DEF DeleteEntry
    <3>7. CASE SaveStart(r)
      <4>1. clean' \in BOOLEAN BY <3>7, Zenon DEF SaveStart
      <4>2. UNCHANGED <<live, conf, call, data, file, used, process, acked, past>>
        BY <3>7 DEF SaveStart
      <4>3. /\ pc' \in [Requests -> Pcs]
            /\ UNCHANGED lock \/ RLock(r)
        BY <3>7 DEF SaveStart
      <4>4. /\ \A s \in readers' \union blocked' : pc'[s] \in {"snapshot", "reading"}
            /\ readers' \intersect blocked' = {}
        BY <3>7 DEF SaveStart, RLock
      <4>5. /\ writer' \in Requests \union {NoRequest}
            /\ readers' \subseteq Requests /\ blocked' \subseteq Requests
        BY <4>3 DEF RLock
      <4> QED BY <4>1, <4>2, <4>3, <4>4, <4>5
    <3>8. CASE Snapshot(r)
      <4>0. [id \in live |-> conf[id]] \in [live -> Config] OBVIOUS
      <4>1. [id \in live |-> conf[id]] \in Stores BY <4>0, StoresFacts
      <4> QED BY <3>8, <4>1 DEF Snapshot, RUnlock
    <3>9. CASE Marshal(r)
      <4>1. DOMAIN data[r] \subseteq Ids BY StoresFacts
      <4>3. [id \in DOMAIN data[r] |-> conf[id]] \in [DOMAIN data[r] -> Config] BY <4>1
      <4>2. [id \in DOMAIN data[r] |-> conf[id]] \in Stores BY <4>1, <4>3, StoresFacts
      <4> QED BY <3>9, <4>2 DEF Marshal
    <3>10. CASE OpenTruncate(r)
      <4>1. clean' \in BOOLEAN BY <3>10, Zenon DEF OpenTruncate
      <4>2. file' \in [kind : {"valid", "absent", "truncated", "garbled"}, pipelines : Stores]
        BY <3>10, StoresFacts DEF OpenTruncate, Truncated, Contents
      <4>3. pc' \in [Requests -> Pcs] BY <3>10 DEF OpenTruncate
      <4> QED BY <3>10, <4>1, <4>2, <4>3 DEF OpenTruncate
    <3>11. CASE WriteData(r)
      <4>1. clean' \in BOOLEAN BY <3>11, Zenon DEF WriteData
      <4> QED BY <3>11, <4>1, StoresFacts DEF WriteData, Valid, Garbled, Contents
    <3>12. CASE Reply(r) BY <3>12 DEF Reply, Unlock
    <3>13. CASE CallRLock(r) BY <3>13 DEF CallRLock, RLock
    <3>14. CASE ListReply(r) BY <3>14 DEF ListReply, RUnlock
    <3>15. CASE GetLookup(r) BY <3>15 DEF GetLookup, RUnlock
    <3>16. CASE GetAnswer(r) BY <3>16 DEF GetAnswer
    <3> QED
      BY <2>2, <3>1, <3>2, <3>3, <3>4, <3>5, <3>6, <3>7, <3>8, <3>9, <3>10, <3>11,
         <3>12, <3>13, <3>14, <3>15, <3>16 DEF Handle
  <2>3. CASE Crash
    <3>1. NewConfig \in Config BY DEF NewConfig
    <3>2. live' \subseteq Ids BY <2>3, StoresFacts DEF Crash
    <3>3. conf' \in [Ids -> Config] BY <2>3, <3>1, StoresFacts DEF Crash
    <3> QED BY <2>3, <3>2, <3>3, StoresFacts DEF Crash
  <2>4. CASE UNCHANGED vars BY <2>4 DEF vars
  <2> QED BY <2>1, <2>2, <2>3, <2>4 DEF Next
<1> QED BY <1>1, <1>2, PTL DEF Spec

-----------------------------------------------------------------------------
(* What a restart can find, and what a save in progress can still leave for *)
(* it: ids the map has had at one time.                                     *)
PastInv ==
  /\ live \in past
  /\ {} \in past
  /\ DOMAIN file.pipelines \in past
  /\ \A r \in Requests :
       pc[r] \in {"marshal", "open", "write"} => DOMAIN data[r] \in past

Creating(r) == pc[r] \in {"lock", "enter"} /\ call[r].op = "create"

(* A create in progress has an id that was never in the map and that no     *)
(* other create has.                                                        *)
FreshInv ==
  /\ UNION past \subseteq used
  /\ \A r \in Requests :
       Creating(r) => Target(r) \in used /\ Target(r) \notin UNION past
  /\ \A r, s \in Requests :
       r # s /\ Creating(r) /\ Creating(s) => Target(r) # Target(s)

IInv == TypeOK /\ PastInv /\ FreshInv

(* The steps of a request other than an insertion or a removal leave the map *)
(* and its history alone, and start no create.                               *)
LEMMA QuietStep ==
  ASSUME TypeOK, NEW r \in Requests, Handle(r), ~CreateInsert(r), ~DeleteEntry(r)
  PROVE  /\ UNCHANGED <<live, past, used, call>>
         /\ \A s \in Requests : Creating(s)' => Creating(s)
<1> USE DEF TypeOK, process, history, Goto, Creating
<1> QED
  <2>1. CASE CallLock(r) BY <2>1 DEF CallLock
  <2>2. CASE NotFound(r) BY <2>2 DEF NotFound
  <2>3. CASE UpdateFirst(r) BY <2>3 DEF UpdateFirst
  <2>4. CASE UpdateSecond(r) BY <2>4 DEF UpdateSecond
  <2>5. CASE SaveStart(r) BY <2>5 DEF SaveStart
  <2>6. CASE Snapshot(r) BY <2>6 DEF Snapshot
  <2>7. CASE Marshal(r) BY <2>7 DEF Marshal
  <2>8. CASE OpenTruncate(r) BY <2>8 DEF OpenTruncate
  <2>9. CASE WriteData(r) BY <2>9 DEF WriteData
  <2>10. CASE Reply(r) BY <2>10 DEF Reply
  <2>11. CASE CallRLock(r) BY <2>11 DEF CallRLock
  <2>12. CASE ListReply(r) BY <2>12 DEF ListReply
  <2>13. CASE GetLookup(r) BY <2>13 DEF GetLookup
  <2>14. CASE GetAnswer(r) BY <2>14 DEF GetAnswer
  <2> QED
    BY <2>1, <2>2, <2>3, <2>4, <2>5, <2>6, <2>7, <2>8, <2>9, <2>10, <2>11, <2>12, <2>13, <2>14
       DEF Handle

LEMMA FreshKept ==
  ASSUME FreshInv, UNCHANGED <<past, used, call>>,
         \A s \in Requests : Creating(s)' => Creating(s)
  PROVE  FreshInv'
BY DEF FreshInv, Target

LEMMA PastKept ==
  ASSUME TypeOK, PastInv, NEW r \in Requests, Handle(r),
         ~CreateInsert(r), ~DeleteEntry(r)
  PROVE  PastInv'
<1>1. live' = live /\ past' = past BY QuietStep
<1>2. DOMAIN file'.pipelines \in past
  <2>1. CASE OpenTruncate(r)
    BY <2>1, StoresFacts DEF OpenTruncate, PastInv, Truncated, Contents
  <2>2. CASE WriteData(r)
    BY <2>2, StoresFacts DEF WriteData, PastInv, Valid, Garbled, Contents
  <2>3. CASE ~OpenTruncate(r) /\ ~WriteData(r)
    <3>1. file' = file
      BY <2>3 DEF Handle, CallLock, NotFound, UpdateFirst, UpdateSecond, SaveStart,
         Snapshot, Marshal, Reply, CallRLock, ListReply, GetLookup, GetAnswer
    <3> QED BY <3>1 DEF PastInv
  <2> QED BY <2>1, <2>2, <2>3
<1>3. \A s \in Requests :
        pc'[s] \in {"marshal", "open", "write"} => DOMAIN data'[s] \in past
  <2> USE DEF TypeOK, PastInv, Goto
  <2>1. CASE Snapshot(r) BY <2>1 DEF Snapshot
  <2>2. CASE Marshal(r) BY <2>2 DEF Marshal
  <2>3. CASE WriteData(r) BY <2>3 DEF WriteData
  <2>4. CASE OpenTruncate(r) BY <2>4 DEF OpenTruncate
  <2>5. CASE ~Snapshot(r) /\ ~Marshal(r) /\ ~WriteData(r) /\ ~OpenTruncate(r)
    <3>1. data' = data
      BY <2>5 DEF Handle, CallLock, NotFound, UpdateFirst, UpdateSecond, SaveStart,
         Reply, CallRLock, ListReply, GetLookup, GetAnswer
    <3>2. \A s \in Requests : pc'[s] \in {"marshal", "open", "write"} => pc'[s] = pc[s]
      BY <2>5 DEF Handle, CallLock, NotFound, UpdateFirst, UpdateSecond, SaveStart,
         Reply, CallRLock, ListReply, GetLookup, GetAnswer
    <3> QED BY <3>1, <3>2
  <2> QED BY <2>1, <2>2, <2>3, <2>4, <2>5
<1> QED BY <1>1, <1>2, <1>3 DEF PastInv

LEMMA StoreInvariant == Spec => []IInv
<1> USE StoreAssumption DEF TypeOK, AllOps, IInv, PastInv
<1>1. Init /\ TypeOK => IInv
  <2> SUFFICES ASSUME Init, TypeOK PROVE PastInv /\ FreshInv
    OBVIOUS
  <2> QED BY StoresFacts DEF Init, Absent, Contents, FreshInv, Creating, Target
<1>2. IInv /\ TypeOK' /\ [Next]_vars => IInv'
  <2> SUFFICES ASSUME IInv, TypeOK', [Next]_vars PROVE PastInv' /\ FreshInv'
    OBVIOUS
  <2> USE DEF lock, process, history, Goto
  <2>1. ASSUME NEW r \in Requests, NEW op \in Ops, NEW id \in Ids, Receive(r, op, id)
        PROVE  PastInv' /\ FreshInv'
    <3>1. PastInv' BY <2>1 DEF Receive
    <3>2. FreshInv' BY <2>1 DEF Receive, FreshInv, Creating, Target
    <3> QED BY <3>1, <3>2
  <2>2. ASSUME NEW r \in Requests, CreateInsert(r) PROVE PastInv' /\ FreshInv'
    <3>1. live' \in past' /\ past \subseteq past' BY <2>2 DEF CreateInsert
    <3>2. PastInv' BY <2>2, <3>1 DEF CreateInsert
    <3>3. FreshInv' BY <2>2 DEF CreateInsert, Enters, FreshInv, Creating, Target
    <3> QED BY <3>2, <3>3
  <2>3. ASSUME NEW r \in Requests, DeleteEntry(r) PROVE PastInv' /\ FreshInv'
    <3>1. live' \in past' /\ past \subseteq past' BY <2>3 DEF DeleteEntry
    <3>2. PastInv' BY <2>3, <3>1 DEF DeleteEntry
    <3>3. FreshInv' BY <2>3 DEF DeleteEntry, Enters, FreshInv, Creating, Target
    <3> QED BY <3>2, <3>3
  <2>4. ASSUME NEW r \in Requests, Handle(r), ~CreateInsert(r), ~DeleteEntry(r)
        PROVE  PastInv' /\ FreshInv'
    BY <2>4, QuietStep, FreshKept, PastKept
  <2>5. CASE Crash BY <2>5 DEF Crash, FreshInv, Creating
  <2>6. CASE UNCHANGED vars BY <2>6 DEF vars, FreshInv, Creating, Target
  <2> QED BY <2>1, <2>2, <2>3, <2>4, <2>5, <2>6 DEF Next
<1> QED BY <1>1, <1>2, StoreTypeOK, PTL DEF Spec

(* The store implements the registry: a create adds a pipeline under a new  *)
(* id, a delete removes one, a restart brings back a set of pipelines there *)
(* has been, and nothing else touches the map.                              *)
THEOREM ImplementsRegistry == Spec => RefinesRegistry
<1> USE DEF Registry!Next, Registry!rvars, Registry!Add, Registry!Remove,
            Registry!Restart
<1>1. Init => Registry!Init
  BY DEF Init, Registry!Init
<1>2. IInv /\ [Next]_vars => [Registry!Next]_(Registry!rvars)
  <2> SUFFICES ASSUME IInv, [Next]_vars, ~UNCHANGED <<live, past>>
               PROVE  Registry!Next
    OBVIOUS
  <2> USE DEF process, history
  <2>1. ASSUME NEW r \in Requests, Handle(r) PROVE Registry!Next
    <3> USE <2>1 DEF IInv, TypeOK
    <3>1. CASE CreateInsert(r)
      BY <3>1 DEF CreateInsert, Enters, FreshInv, Creating, Target
    <3>2. CASE DeleteEntry(r)
      BY <3>2 DEF DeleteEntry, Target
    <3> QED
      BY <3>1, <3>2 DEF Handle, CallLock, NotFound, UpdateFirst, UpdateSecond, SaveStart,
         Snapshot, Marshal, OpenTruncate, WriteData, Reply, CallRLock, ListReply,
         GetLookup, GetAnswer
  <2>2. CASE Crash
    BY <2>2 DEF Crash, IInv, PastInv
  <2> QED BY <2>1, <2>2 DEF Next, vars, Receive
<1> QED BY <1>1, <1>2, StoreInvariant, PTL DEF Spec, Registry!Spec, RefinesRegistry

-----------------------------------------------------------------------------
(* A request between Lock and the end of its changes is the writer; the one *)
(* between two field assignments has no reader beside it, and only its      *)
(* target can be half updated.                                              *)
LockInv ==
  /\ \A r \in Requests : pc[r] \in {"enter", "second"} => writer = r
  /\ \A r \in Requests : pc[r] = "second" => readers = {}
  /\ crashes = 0 =>
       \A id \in Ids : \/ Whole(conf[id])
                      \/ \E r \in Requests : pc[r] = "second" /\ Target(r) = id

(* No reader of the map sees a pipeline with one field updated and the next *)
(* not, for any number of requests.                                         *)
THEOREM ReadersSeeWhole == Spec => []LockedReadsWhole
<1> USE StoreAssumption DEF LockInv, Whole, Target
<1>1. Init => LockInv
  BY DEF Init, NewConfig
<1>2. LockInv /\ TypeOK /\ [Next]_vars => LockInv'
  <2> SUFFICES ASSUME LockInv, TypeOK, [Next]_vars PROVE LockInv'
    OBVIOUS
  <2> USE DEF TypeOK, lock, process, history, Goto, Config
  <2>1. ASSUME NEW r \in Requests, NEW op \in Ops, NEW id \in Ids, Receive(r, op, id)
        PROVE  LockInv'
    BY <2>1 DEF Receive
  <2>2. ASSUME NEW r \in Requests, Handle(r) PROVE LockInv'
    <3>1. CASE CallLock(r) BY <3>1 DEF CallLock, Announce
    <3>2. CASE CreateInsert(r) BY <3>2 DEF CreateInsert, Unlock, Enters, HoldsLock, NewConfig
    <3>3. CASE NotFound(r) BY <3>3 DEF NotFound, Unlock, Enters, HoldsLock
    <3>4. CASE UpdateFirst(r) BY <3>4 DEF UpdateFirst, Enters, HoldsLock
    <3>5. CASE UpdateSecond(r) BY <3>5 DEF UpdateSecond
    <3>6. CASE DeleteEntry(r) BY <3>6 DEF DeleteEntry, Enters, HoldsLock
    <3>7. CASE SaveStart(r) BY <3>7 DEF SaveStart, RLock
    <3>8. CASE Snapshot(r) BY <3>8 DEF Snapshot, RUnlock
    <3>9. CASE Marshal(r) BY <3>9 DEF Marshal
    <3>10. CASE OpenTruncate(r) BY <3>10 DEF OpenTruncate
    <3>11. CASE WriteData(r) BY <3>11 DEF WriteData
    <3>12. CASE Reply(r) BY <3>12 DEF Reply, Unlock
    <3>13. CASE CallRLock(r) BY <3>13 DEF CallRLock, RLock
    <3>14. CASE ListReply(r) BY <3>14 DEF ListReply, RUnlock
    <3>15. CASE GetLookup(r) BY <3>15 DEF GetLookup, RUnlock
    <3>16. CASE GetAnswer(r) BY <3>16 DEF GetAnswer
    <3> QED
      BY <2>2, <3>1, <3>2, <3>3, <3>4, <3>5, <3>6, <3>7, <3>8, <3>9, <3>10, <3>11,
         <3>12, <3>13, <3>14, <3>15, <3>16 DEF Handle
  <2>3. CASE Crash BY <2>3 DEF Crash
  <2>4. CASE UNCHANGED vars BY <2>4 DEF vars
  <2> QED BY <2>1, <2>2, <2>3, <2>4 DEF Next
<1>3. LockInv /\ TypeOK => LockedReadsWhole
  BY DEF TypeOK, LockedReadsWhole
<1> QED BY <1>1, <1>2, <1>3, StoreTypeOK, PTL DEF Spec

-----------------------------------------------------------------------------
(* What the file holds.  M is the map as save() would write it.             *)
M == [id \in live |-> conf[id]]
Saving(r) == pc[r] \in {"marshal", "open", "write"}
WillSave(r) == pc[r] \in {"second", "save", "snapshot"}

(* As long as saves have not overlapped there is one at most, and it finds  *)
(* the file as it has left it.                                              *)
OneSave ==
  clean => /\ \A r, s \in Requests : pc[r] \in SavePcs /\ pc[s] \in SavePcs => r = s
           /\ \A r \in Requests : pc[r] = "write" => file = Truncated

(* Who changes the map goes on to save it; when all have taken their        *)
(* snapshots, the latest one is of the map as it is.                        *)
MapInv ==
  storePath /\ clean /\ (\A r \in Requests : ~WillSave(r)) =>
    /\ \A r \in Requests : pc[r] = "marshal" => DOMAIN data[r] = live
    /\ \A r \in Requests : pc[r] \in {"open", "write"} => data[r] = M
    /\ (\A r \in Requests : ~Saving(r)) => file.pipelines = M

(* The creates that are answered, or will be without another save.          *)
Owed ==
  acked \cup {Target(r) : r \in {s \in Requests : pc[s] = "reply" /\ call[s].op = "create"}}

Inserted(r) == call[r].op = "create" /\ pc[r] \in {"save", "reply"} \cup SavePcs

(* They are in the file and in every text that may replace it, unless they  *)
(* have been deleted since; a create is in the text of its own save.        *)
AckInv ==
  /\ acked \subseteq live
  /\ \A r \in Requests : pc[r] = "second" => call[r].op = "update"
  /\ \A r \in Requests : Inserted(r) => Target(r) \in UNION past
  /\ storePath /\ clean =>
       /\ \A r \in Requests : Saving(r) => Owed \cap live \subseteq DOMAIN data[r]
       /\ \A r \in Requests :
            Saving(r) /\ Inserted(r) /\ Target(r) \in live => Target(r) \in DOMAIN data[r]
       /\ (\A r \in Requests : pc[r] # "write") => Owed \cap live \subseteq DOMAIN file.pipelines

FileInv == OneSave /\ MapInv /\ AckInv

LEMMA FileInit == Init => FileInv
<1> SUFFICES ASSUME Init PROVE FileInv
  OBVIOUS
<1>1. \A r \in Requests : pc[r] = "idle"
  BY DEF Init
<1>2. M = NoPipelines /\ file.pipelines = NoPipelines /\ file = Absent
  BY DEF Init, M, NoPipelines, Absent, Contents
<1>3. OneSave
  BY <1>1 DEF OneSave, SavePcs
<1>4. MapInv
  BY <1>1, <1>2 DEF MapInv
<1>5. AckInv
  <2>1. Owed = {}
    BY <1>1 DEF Init, Owed
  <2> QED BY <1>1, <2>1 DEF Init, AckInv, Inserted, Saving, SavePcs
<1> QED BY <1>3, <1>4, <1>5 DEF FileInv

(* Steps of requests that have nothing to save. *)
Elsewhere == {"idle", "lock", "enter", "read", "reading", "answer"}
LEMMA ElsewhereStep ==
  ASSUME FileInv, NEW r \in Requests, pc[r] \in Elsewhere, pc'[r] \in Elsewhere,
         \A s \in Requests : s # r => pc'[s] = pc[s] /\ call'[s] = call[s],
         UNCHANGED <<live, conf, data, file, storePath, acked, past, clean>>
  PROVE  FileInv'
<1>1. \A s \in Requests : /\ pc'[s] \in SavePcs <=> pc[s] \in SavePcs
                          /\ \A p \in {"write", "marshal", "open", "second"} :
                               pc'[s] = p <=> pc[s] = p
                          /\ pc[s] = "second" => call'[s] = call[s]
                          /\ WillSave(s)' <=> WillSave(s)
                          /\ Saving(s)' <=> Saving(s)
                          /\ Inserted(s)' <=> Inserted(s)
                          /\ Inserted(s) => Target(s)' = Target(s)
  BY DEF Elsewhere, SavePcs, WillSave, Saving, Inserted, Target
<1>2. OneSave'
  BY <1>1 DEF FileInv, OneSave
<1>3. M' = M
  BY DEF M
<1>4. MapInv'
  BY <1>1, <1>3 DEF FileInv, MapInv
<1>5. Owed' = Owed
  <2>1. \A s \in Requests : /\ pc'[s] = "reply" /\ call'[s].op = "create"
                                <=> pc[s] = "reply" /\ call[s].op = "create"
                            /\ pc[s] = "reply" => Target(s)' = Target(s)
    BY DEF Elsewhere, Target
  <2> QED BY <2>1 DEF Owed
<1>6. AckInv'
  BY <1>1, <1>5 DEF FileInv, AckInv
<1> QED BY <1>2, <1>4, <1>6 DEF FileInv

(* A create inserts a pipeline nobody is owed. *)
LEMMA InsertStep ==
  ASSUME IInv, FileInv, NEW r \in Requests, CreateInsert(r) PROVE FileInv'
<1>1. /\ pc[r] = "enter" /\ call[r].op = "create" /\ Target(r) \notin UNION past
      /\ live' = live \cup {Target(r)} /\ past' = past \cup {live'}
      /\ \A s \in Requests : pc'[s] = IF s = r THEN "save" ELSE pc[s]
      /\ UNCHANGED <<call, data, file, storePath, acked, clean>>
  BY DEF CreateInsert, Enters, Goto, IInv, TypeOK, FreshInv, Creating, process
<1>2. OneSave'
  BY <1>1 DEF FileInv, OneSave, SavePcs
<1>3. MapInv'
  BY <1>1 DEF MapInv, WillSave
<1>4. Owed' = Owed
  BY <1>1 DEF Owed, Target
<1>5. live \in past
  BY DEF IInv, PastInv
<1>6. Target(r) \notin Owed
  BY <1>1, <1>5 DEF Owed, FileInv, AckInv, Inserted
<1>7. AckInv'
  <2>1. acked' \subseteq live' /\ UNION past \subseteq UNION past' /\ Target(r) \in UNION past'
    BY <1>1 DEF FileInv, AckInv
  <2>2. \A s \in Requests : Inserted(s)' => Target(s)' \in UNION past'
    BY <1>1, <2>1 DEF FileInv, AckInv, Inserted, Target, SavePcs
  <2>3. Owed' \cap live' = Owed \cap live
    BY <1>1, <1>4, <1>6
  <2>4. \A s \in Requests : Saving(s)' => s # r /\ Saving(s) /\ (Inserted(s)' => Inserted(s))
    BY <1>1 DEF Saving, Inserted
  <2>5. \A s \in Requests : Inserted(s) => (Target(s)' \in live' <=> Target(s) \in live)
    BY <1>1 DEF FileInv, AckInv, Target
  <2>6. ASSUME storePath', clean'
        PROVE  /\ \A s \in Requests : Saving(s)' => Owed' \cap live' \subseteq DOMAIN data'[s]
               /\ \A s \in Requests :
                    Saving(s)' /\ Inserted(s)' /\ Target(s)' \in live' => Target(s)' \in DOMAIN data'[s]
               /\ (\A s \in Requests : pc'[s] # "write")
                    => Owed' \cap live' \subseteq DOMAIN file'.pipelines
    <3>1. storePath /\ clean BY <1>1, <2>6
    <3>2. \A s \in Requests : Saving(s)' => Owed' \cap live' \subseteq DOMAIN data'[s]
      BY <1>1, <2>3, <2>4, <3>1 DEF FileInv, AckInv
    <3>3. \A s \in Requests :
            Saving(s)' /\ Inserted(s)' /\ Target(s)' \in live' => Target(s)' \in DOMAIN data'[s]
      BY <1>1, <2>4, <2>5, <3>1 DEF FileInv, AckInv, Target
    <3>4. (\A s \in Requests : pc'[s] # "write")
            => Owed' \cap live' \subseteq DOMAIN file'.pipelines
      BY <1>1, <2>3, <3>1 DEF FileInv, AckInv
    <3> QED BY <3>2, <3>3, <3>4
  <2>7. \A s \in Requests : pc'[s] = "second" => call'[s].op = "update"
    BY <1>1 DEF FileInv, AckInv
  <2> QED BY <2>1, <2>2, <2>6, <2>7 DEF AckInv
<1> QED BY <1>2, <1>3, <1>7 DEF FileInv

(* Updates and deletes make a save necessary and add nothing to the map. *)
LEMMA ChangeStep ==
  ASSUME IInv, FileInv, NEW r \in Requests,
         UpdateFirst(r) \/ UpdateSecond(r) \/ DeleteEntry(r)
  PROVE  FileInv'
<1>1. /\ WillSave(r)' /\ pc[r] \in {"enter", "second"} /\ pc'[r] \in {"second", "save"}
      /\ call[r].op # "create" /\ (pc'[r] = "second" => call[r].op = "update")
      /\ \A s \in Requests : s # r => pc'[s] = pc[s]
      /\ live' \subseteq live /\ past \subseteq past'
      /\ acked' \subseteq acked /\ (acked \subseteq live => acked' \subseteq live')
      /\ UNCHANGED <<call, data, file, storePath, clean>>
  <2>1. CASE UpdateFirst(r)
    BY <2>1 DEF UpdateFirst, Enters, Goto, IInv, TypeOK, WillSave, process, history
  <2>2. CASE UpdateSecond(r)
    BY <2>2 DEF UpdateSecond, Goto, IInv, TypeOK, WillSave, process, history, FileInv, AckInv
  <2>3. CASE DeleteEntry(r)
    <3>1. Target(r) \in Ids BY DEF Target, IInv, TypeOK
    <3> QED
      BY <2>3, <3>1 DEF DeleteEntry, Enters, Goto, IInv, TypeOK, WillSave, process, history
  <2> QED BY <2>1, <2>2, <2>3
<1>2. OneSave'
  BY <1>1 DEF FileInv, OneSave, SavePcs
<1>3. MapInv'
  BY <1>1 DEF MapInv
<1>4. Owed' \subseteq Owed /\ acked' \subseteq live'
  <2>1. acked' \subseteq acked BY <1>1
  <2>2. \A s \in Requests : pc'[s] = "reply" => pc[s] = "reply" BY <1>1
  <2>3. Owed' \subseteq Owed BY <1>1, <2>1, <2>2 DEF Owed, Target
  <2>4. acked' \subseteq live' BY <1>1 DEF FileInv, AckInv
  <2> QED BY <2>3, <2>4
<1>5. \A s \in Requests : /\ Inserted(s)' => Inserted(s) \/ s = r
                          /\ Saving(s)' => s # r /\ Saving(s)
                          /\ Target(s)' = Target(s)
                          /\ pc'[s] = "write" <=> pc[s] = "write"
  BY <1>1 DEF Inserted, Saving, Target
<1>6. ~Inserted(r)'
  BY <1>1 DEF Inserted
<1>7. AckInv'
  BY <1>1, <1>4, <1>5, <1>6 DEF FileInv, AckInv
<1> QED BY <1>2, <1>3, <1>7 DEF FileInv

(* save() up to its snapshot. *)
LEMMA SaveStartStep ==
  ASSUME IInv, FileInv, NEW r \in Requests, SaveStart(r) PROVE FileInv'
<1>1. /\ pc[r] = "save"
      /\ \A s \in Requests : s # r => pc'[s] = pc[s]
      /\ pc'[r] = (IF storePath THEN "snapshot" ELSE "reply")
      /\ clean' => clean
      /\ storePath /\ clean' => \A s \in Requests : pc[s] \notin SavePcs
      /\ UNCHANGED <<live, conf, call, data, file, storePath, acked, past>>
  BY DEF SaveStart, Goto, IInv, TypeOK, process
<1>2. OneSave'
  <2>1. CASE storePath
    BY <1>1, <2>1 DEF FileInv, OneSave, SavePcs
  <2>2. CASE ~storePath
    BY <1>1, <2>2 DEF FileInv, OneSave, SavePcs
  <2> QED BY <2>1, <2>2
<1>3. MapInv'
  BY <1>1 DEF MapInv, WillSave
<1>4. AckInv'
  <2>1. \A s \in Requests : /\ Inserted(s)' => Inserted(s)
                            /\ Saving(s)' <=> Saving(s)
                            /\ pc'[s] \in {"write", "second"} <=> pc[s] \in {"write", "second"}
                            /\ pc'[s] = "second" <=> pc[s] = "second"
                            /\ Target(s)' = Target(s)
    BY <1>1 DEF Inserted, Saving, Target, SavePcs
  <2>2. storePath => Owed' = Owed
    BY <1>1 DEF Owed, Target
  <2> QED BY <1>1, <2>1, <2>2 DEF FileInv, AckInv
<1> QED BY <1>2, <1>3, <1>4 DEF FileInv

LEMMA SnapshotStep ==
  ASSUME IInv, FileInv, NEW r \in Requests, Snapshot(r) PROVE FileInv'
<1>1. /\ pc[r] = "snapshot" /\ pc'[r] = "marshal" /\ data'[r] = M
      /\ \A s \in Requests : s # r => pc'[s] = pc[s] /\ data'[s] = data[s]
      /\ UNCHANGED <<live, conf, call, file, storePath, acked, past, clean>>
  BY DEF Snapshot, Goto, IInv, TypeOK, process, history, M
<1>2. DOMAIN data'[r] = live
  BY <1>1 DEF M
<1>3. clean => \A s \in Requests : s # r => pc'[s] \notin SavePcs
  BY <1>1 DEF FileInv, OneSave, SavePcs
<1>4. OneSave'
  BY <1>1, <1>3 DEF FileInv, OneSave, SavePcs
<1>5. MapInv'
  BY <1>1, <1>2, <1>3 DEF MapInv, SavePcs, Saving
<1>6. AckInv'
  <2>1. \A s \in Requests : /\ Inserted(s)' <=> Inserted(s)
                            /\ Target(s)' = Target(s)
                            /\ pc'[s] \in {"write", "second", "reply"} => pc[s] = pc'[s]
                            /\ Saving(s)' => Saving(s) \/ s = r
                            /\ pc[s] = "write" => pc'[s] = "write"
                            /\ pc[s] = "reply" => pc'[s] = "reply"
    BY <1>1 DEF Inserted, Saving, Target, SavePcs
  <2>2. Owed' = Owed
    BY <1>1, <2>1 DEF Owed, Target
  <2>3. ASSUME storePath, clean, NEW s \in Requests, Saving(s)'
        PROVE  /\ Owed' \cap live \subseteq DOMAIN data'[s]
               /\ Inserted(s)' /\ Target(s)' \in live => Target(s)' \in DOMAIN data'[s]
    BY <1>1, <1>2, <2>1, <2>2, <2>3 DEF FileInv, AckInv
  <2> QED BY <1>1, <2>1, <2>2, <2>3 DEF FileInv, AckInv
<1> QED BY <1>4, <1>5, <1>6 DEF FileInv

(* Marshalling reads the map through the pointers: unless it is being       *)
(* changed, it finds what the snapshot found.                               *)
LEMMA MarshalStep ==
  ASSUME IInv, FileInv, NEW r \in Requests, Marshal(r) PROVE FileInv'
<1>1. /\ pc[r] = "marshal" /\ pc'[r] = "open" /\ data'[r] = [id \in DOMAIN data[r] |-> conf[id]]
      /\ \A s \in Requests : s # r => pc'[s] = pc[s] /\ data'[s] = data[s]
      /\ UNCHANGED <<live, conf, call, file, storePath, acked, past, clean>>
  BY DEF Marshal, Goto, IInv, TypeOK, process, history
<1>2. DOMAIN data'[r] = DOMAIN data[r]
  BY <1>1
<1>3. \A s \in Requests : /\ Inserted(s)' <=> Inserted(s)
                          /\ Target(s)' = Target(s)
                          /\ Saving(s)' <=> Saving(s)
                          /\ WillSave(s)' <=> WillSave(s)
                          /\ pc'[s] \in SavePcs <=> pc[s] \in SavePcs
                          /\ \A p \in {"write", "second", "reply"} : pc'[s] = p <=> pc[s] = p
  BY <1>1 DEF Inserted, Saving, WillSave, Target, SavePcs
<1>4. OneSave'
  BY <1>1, <1>3 DEF FileInv, OneSave
<1>5. MapInv'
  <2>1. DOMAIN data[r] = live => data'[r] = M
    BY <1>1 DEF M
  <2>2. M' = M
    BY <1>1 DEF M
  <2> QED BY <1>1, <1>3, <2>1, <2>2 DEF FileInv, MapInv
<1>6. AckInv'
  <2>1. Owed' = Owed
    BY <1>1, <1>3 DEF Owed, Target
  <2>2. \A s \in Requests : DOMAIN data'[s] = DOMAIN data[s]
    BY <1>1, <1>2
  <2> QED BY <1>1, <1>3, <2>1, <2>2 DEF FileInv, AckInv
<1> QED BY <1>4, <1>5, <1>6 DEF FileInv

LEMMA OpenStep ==
  ASSUME IInv, FileInv, NEW r \in Requests, OpenTruncate(r) PROVE FileInv'
<1>1. /\ pc[r] = "open" /\ pc'[r] \in {"write", "reply"}
      /\ \A s \in Requests : s # r => pc'[s] = pc[s]
      /\ clean' => clean /\ pc'[r] = "write" /\ file' = Truncated
      /\ UNCHANGED <<live, conf, call, data, storePath, acked, past>>
  BY DEF OpenTruncate, Goto, IInv, TypeOK, process
<1>2. OneSave'
  BY <1>1 DEF FileInv, OneSave, SavePcs
<1>3. clean' => \A s \in Requests :
        /\ Inserted(s)' <=> Inserted(s)
        /\ Saving(s)' <=> Saving(s)
        /\ WillSave(s)' <=> WillSave(s)
        /\ pc'[s] \in {"open", "write"} <=> pc[s] \in {"open", "write"}
        /\ \A p \in {"marshal", "reply"} : pc'[s] = p <=> pc[s] = p
  BY <1>1 DEF Inserted, Saving, WillSave, SavePcs
<1>4. MapInv'
  <2>1. M' = M BY <1>1 DEF M
  <2>2. Saving(r) BY <1>1 DEF Saving
  <2> QED BY <1>1, <1>3, <2>1, <2>2 DEF FileInv, MapInv
<1>5. AckInv'
  <2>1. clean' => Owed' = Owed
    BY <1>1, <1>3 DEF Owed, Target
  <2>2. \A s \in Requests : /\ pc'[s] = "second" => pc[s] = "second"
                            /\ Inserted(s)' => Inserted(s)
                            /\ Target(s)' = Target(s)
    BY <1>1 DEF Inserted, SavePcs, Target
  <2>3. clean' => clean /\ pc'[r] = "write"
    BY <1>1
  <2> QED BY <1>1, <1>3, <2>1, <2>2, <2>3 DEF FileInv, AckInv
<1> QED BY <1>2, <1>4, <1>5 DEF FileInv

(* The only save writes the map as it is, and the creates it owes.          *)
LEMMA WriteStep ==
  ASSUME IInv, FileInv, NEW r \in Requests, WriteData(r) PROVE FileInv'
<1>1. /\ pc[r] = "write" /\ pc'[r] = "reply"
      /\ \A s \in Requests : s # r => pc'[s] = pc[s] /\ data'[s] = data[s]
      /\ clean' => clean
      /\ UNCHANGED <<live, conf, call, storePath, acked, past>>
  BY DEF WriteData, Goto, IInv, TypeOK, process
<1>2. clean' => file'.pipelines = data[r]
  <2>1. clean => file = Truncated BY <1>1 DEF FileInv, OneSave
  <2> QED BY <1>1, <2>1 DEF WriteData, Valid, Contents
<1>3. clean' => \A s \in Requests : pc'[s] \notin SavePcs
  BY <1>1 DEF FileInv, OneSave, SavePcs
<1>4. OneSave'
  BY <1>3 DEF OneSave, SavePcs
<1>5. \A s \in Requests : /\ Inserted(s)' <=> Inserted(s)
                          /\ Target(s)' = Target(s)
                          /\ pc'[s] = "second" <=> pc[s] = "second"
                          /\ WillSave(s)' <=> WillSave(s)
  BY <1>1 DEF Inserted, Target, SavePcs, WillSave
<1>6. MapInv'
  <2>1. M' = M BY <1>1 DEF M
  <2> QED BY <1>1, <1>2, <1>3, <1>5, <2>1 DEF FileInv, MapInv, SavePcs
<1>7. AckInv'
  <2>1. Owed' \subseteq Owed \cup (IF Inserted(r) THEN {Target(r)} ELSE {})
    BY <1>1, <1>5 DEF Owed, Inserted, Target, SavePcs
  <2>2. Saving(r) BY <1>1 DEF Saving
  <2>3. storePath /\ clean' => Owed' \cap live \subseteq DOMAIN data[r]
    BY <1>1, <2>1, <2>2 DEF FileInv, AckInv
  <2>4. clean' => \A s \in Requests : ~Saving(s)'
    BY <1>3 DEF Saving, SavePcs
  <2> QED BY <1>1, <1>2, <1>5, <2>3, <2>4 DEF FileInv, AckInv
<1> QED BY <1>4, <1>6, <1>7 DEF FileInv

LEMMA ReplyStep ==
  ASSUME IInv, FileInv, NEW r \in Requests, Reply(r) PROVE FileInv'
<1>1. /\ pc[r] = "reply" /\ pc'[r] = "idle"
      /\ \A s \in Requests : s # r => pc'[s] = pc[s]
      /\ acked' = IF call[r].op = "create" THEN acked \cup ({Target(r)} \cap live) ELSE acked
      /\ UNCHANGED <<live, conf, call, data, file, storePath, past, clean>>
  BY DEF Reply, Goto, IInv, TypeOK, process
<1>2. \A s \in Requests : /\ Inserted(s)' => Inserted(s)
                          /\ Target(s)' = Target(s)
                          /\ Saving(s)' <=> Saving(s)
                          /\ WillSave(s)' <=> WillSave(s)
                          /\ pc'[s] \in SavePcs <=> pc[s] \in SavePcs
                          /\ \A p \in SavePcs \cup {"second"} : pc'[s] = p <=> pc[s] = p
                          /\ pc'[s] = "reply" => pc[s] = "reply"
  BY <1>1 DEF Inserted, Target, SavePcs, WillSave, Saving
<1>3. OneSave'
  BY <1>1, <1>2 DEF FileInv, OneSave, SavePcs
<1>4. MapInv'
  <2>1. M' = M BY <1>1 DEF M
  <2> QED BY <1>1, <1>2, <2>1 DEF FileInv, MapInv, SavePcs
<1>5. AckInv'
  <2>1. acked' \subseteq live BY <1>1 DEF FileInv, AckInv
  <2>2. Owed' \subseteq Owed BY <1>1, <1>2 DEF Owed, Target
  <2> QED BY <1>1, <1>2, <2>1, <2>2 DEF FileInv, AckInv, SavePcs
<1> QED BY <1>3, <1>4, <1>5 DEF FileInv

(* The new process has what the file has. *)
LEMMA CrashStep ==
  ASSUME IInv, Crash PROVE FileInv'
<1>1. /\ \A r \in Requests : pc'[r] = "idle"
      /\ live' = DOMAIN file.pipelines /\ file' = file /\ acked' = {}
      /\ conf' = [id \in Ids |-> IF id \in live' THEN file.pipelines[id] ELSE NewConfig]
  BY DEF Crash, process, history
<1>2. OneSave'
  BY <1>1 DEF OneSave, SavePcs
<1>3. M' = file.pipelines
  <2>1. file.pipelines \in Stores
    BY DEF IInv, TypeOK
  <2>2. /\ DOMAIN file.pipelines \subseteq Ids
        /\ file.pipelines \in [DOMAIN file.pipelines -> Config]
    BY <2>1, StoresFacts
  <2>3. \A id \in live' : conf'[id] = file.pipelines[id]
    BY <1>1, <2>2
  <2>4. M' = [id \in live' |-> conf'[id]]
    BY DEF M
  <2> QED BY <1>1, <2>2, <2>3, <2>4
<1>4. MapInv'
  BY <1>1, <1>3 DEF MapInv
<1>5. AckInv'
  <2>1. Owed' = {} BY <1>1 DEF Owed
  <2> QED BY <1>1, <2>1 DEF AckInv, Inserted, Saving, SavePcs
<1> QED BY <1>2, <1>4, <1>5 DEF FileInv

LEMMA FileInvariant == Spec => []FileInv
<1>1. IInv /\ FileInv /\ [Next]_vars => FileInv'
  <2> SUFFICES ASSUME IInv, FileInv, [Next]_vars PROVE FileInv'
    OBVIOUS
  <2> USE DEF process, history, Goto
  <2>1. ASSUME NEW r \in Requests, NEW op \in Ops, NEW id \in Ids, Receive(r, op, id)
        PROVE  FileInv'
    <3>1. /\ pc[r] \in Elsewhere /\ pc'[r] \in Elsewhere
          /\ \A s \in Requests : s # r => pc'[s] = pc[s] /\ call'[s] = call[s]
          /\ UNCHANGED <<live, conf, data, file, storePath, acked, past, clean>>
      BY <2>1 DEF Receive, Elsewhere, IInv, TypeOK
    <3> QED BY <3>1, ElsewhereStep
  <2>2. ASSUME NEW r \in Requests, CallLock(r) \/ NotFound(r) \/ CallRLock(r)
                                     \/ ListReply(r) \/ GetLookup(r) \/ GetAnswer(r)
        PROVE  FileInv'
    <3>1. /\ pc[r] \in Elsewhere /\ pc'[r] \in Elsewhere
          /\ \A s \in Requests : s # r => pc'[s] = pc[s] /\ call'[s] = call[s]
          /\ UNCHANGED <<live, conf, data, file, storePath, acked, past, clean>>
      BY <2>2 DEF CallLock, NotFound, CallRLock, ListReply, GetLookup, GetAnswer, Enters,
         Elsewhere, IInv, TypeOK
    <3> QED BY <3>1, ElsewhereStep
  <2>3. ASSUME NEW r \in Requests, Handle(r) PROVE FileInv'
    BY <2>2, <2>3, InsertStep, ChangeStep, SaveStartStep, SnapshotStep, MarshalStep,
       OpenStep, WriteStep, ReplyStep DEF Handle
  <2>4. CASE Crash
    BY <2>4, CrashStep
  <2>5. CASE UNCHANGED vars
    BY <2>5 DEF vars, FileInv, OneSave, MapInv, AckInv, M, Saving, WillSave, Owed, Inserted,
       Target
  <2> QED BY <2>1, <2>3, <2>4, <2>5 DEF Next
<1> QED BY <1>1, FileInit, StoreInvariant, PTL DEF Spec

(* While saves have neither overlapped nor failed, the file holds the map   *)
(* whenever no request is in progress: whoever changes the map saves it     *)
(* after that, and no older text can come later.                            *)
THEOREM FileMatchesAtRest == Spec => []QuiescentFileMatches
<1>1. FileInv => QuiescentFileMatches
  BY DEF FileInv, MapInv, QuiescentFileMatches, M, WillSave, Saving
<1> QED BY <1>1, FileInvariant, PTL

(* A restart forgets an answered create only after saves that overlapped or *)
(* failed, or a death between the truncation and the write.                 *)
THEOREM AckedAreKept == Spec => AckedSurviveRestart
<1>1. FileInv /\ [Next]_vars =>
        [ storePath /\ crashes' # crashes
            => \/ acked \subseteq live'
               \/ ~clean
               \/ \E r \in Requests : pc[r] = "write" ]_vars
  <2> SUFFICES ASSUME FileInv, [Next]_vars, storePath, crashes' # crashes,
                      clean, \A r \in Requests : pc[r] # "write"
               PROVE  acked \subseteq live'
    OBVIOUS
  <2>1. Crash
    BY DEF Next, vars, process, Receive, Handle, CallLock, CreateInsert, NotFound,
       UpdateFirst, UpdateSecond, DeleteEntry, SaveStart, Snapshot, Marshal, OpenTruncate,
       WriteData, Reply, CallRLock, ListReply, GetLookup, GetAnswer
  <2>2. Owed \cap live \subseteq DOMAIN file.pipelines /\ acked \subseteq live
    BY DEF FileInv, AckInv
  <2>3. acked \subseteq Owed
    BY DEF Owed
  <2> QED BY <2>1, <2>2, <2>3 DEF Crash
<1> QED BY <1>1, FileInvariant, PTL DEF Spec, AckedSurviveRestart

=============================================================================
