---------------------------- MODULE PipelineStore ---------------------------
(***************************************************************************)
(* The pipeline service, internal/pipeline/handler.go: concurrent HTTP     *)
(* requests on a map of pipelines behind a sync.RWMutex, and save(), which *)
(* writes a snapshot of the map to a file without a lock of its own.       *)
(*                                                                         *)
(* A request runs on a goroutine of its own; a slot of Requests serves one *)
(* after the other.  ListPipelines and GenerateFluentBitConfig do the same *)
(* with the lock and the map: both are the operation "list".               *)
(* A pipeline is reduced to two of the fields UpdatePipeline assigns one   *)
(* after the other, each at version 1 or 2.                                *)
(***************************************************************************)
EXTENDS Naturals, FiniteSets

CONSTANTS
  Requests,     \* slots for requests in progress
  Ids,          \* what uuid.New() can return
  Ops,          \* the operations requested: a subset of AllOps
  StorePaths,   \* is it run with a store path: a subset of BOOLEAN
  MaxCrashes,   \* bound: how often the process dies and restarts
  NoRequest     \* no slot

AllOps == {"create", "update", "delete", "list", "get"}

ASSUME StoreAssumption ==
  /\ Ops \subseteq AllOps
  /\ StorePaths \subseteq BOOLEAN
  /\ MaxCrashes \in Nat
  /\ NoRequest \notin Requests
  /\ Ids # {}

VARIABLES
  live,      \* the keys of h.pipelines
  conf,      \* what the PipelineConfig of an id holds, also once unlinked
  writer,    \* the request that called mu.Lock, from its announcement on
  readers,   \* the requests holding mu.RLock
  blocked,   \* the requests waiting in mu.RLock
  pc,        \* where a request is
  call,      \* what a request asks for
  data,      \* the pipelines a save has in hand: its snapshot, then its text
  file,      \* the store file
  used,      \* the ids drawn so far
  crashes,
  storePath, \* h.storePath is not empty (fixed at start-up)
  acked,     \* history: creates answered by this process, not deleted since
  past,      \* history: every value of live
  clean      \* history: no save overlapped another one or failed

lock == <<writer, readers, blocked>>
process == <<crashes, storePath>>
history == <<acked, past, clean>>
vars == <<live, conf, lock, pc, call, data, file, used, process, history>>

Config == [name : 1 .. 2, enabled : 1 .. 2]
Whole(c) == c.name = c.enabled
NewConfig == [name |-> 1, enabled |-> 1]

Stores == UNION {[s -> Config] : s \in SUBSET Ids}
NoPipelines == [id \in {} |-> NewConfig]
Contents(kind, m) == [kind |-> kind, pipelines |-> m]
Valid(m) == Contents("valid", m)
Absent == Contents("absent", NoPipelines)
Truncated == Contents("truncated", NoPipelines)
Garbled == Contents("garbled", NoPipelines)

SavePcs == {"snapshot", "marshal", "open", "write"}
Pcs == SavePcs \union
       {"idle", "lock", "enter", "second", "save", "reply", "read", "reading",
        "answer"}

(* Types.  A request holds RLock, or waits in it, at two places only: no    *)
(* path leaves one of them with the lock.                                   *)
TypeOK ==
  /\ live \subseteq Ids
  /\ conf \in [Ids -> Config]
  /\ writer \in Requests \union {NoRequest}
  /\ readers \subseteq Requests
  /\ blocked \subseteq Requests
  /\ \A r \in readers \union blocked : pc[r] \in {"snapshot", "reading"}
  /\ readers \intersect blocked = {}
  /\ pc \in [Requests -> Pcs]
  /\ call \in [Requests -> [op : AllOps, id : Ids]]
  /\ data \in [Requests -> Stores]
  /\ file \in [kind : {"valid", "absent", "truncated", "garbled"}, pipelines : Stores]
  /\ used \subseteq Ids
  /\ crashes \in 0 .. MaxCrashes
  /\ storePath \in BOOLEAN
  /\ acked \subseteq Ids
  /\ past \subseteq SUBSET Ids
  /\ clean \in BOOLEAN

Init ==
  /\ live = {}
  /\ conf = [id \in Ids |-> NewConfig]
  /\ writer = NoRequest /\ readers = {} /\ blocked = {}
  /\ pc = [r \in Requests |-> "idle"]
  /\ call = [r \in Requests |-> [op |-> "list", id |-> CHOOSE id \in Ids : TRUE]]
  /\ data = [r \in Requests |-> NoPipelines]
  /\ file = Absent
  /\ used = {}
  /\ crashes = 0
  /\ storePath \in StorePaths
  /\ acked = {} /\ past = {{}} /\ clean = TRUE

Goto(r, p) == pc' = [pc EXCEPT ![r] = p]

-----------------------------------------------------------------------------
(* Mutant: Lock does not wait for the readers inside. *)
HoldsLockAtOnce(r) == writer = r

(* sync.RWMutex.  A writer that has announced itself keeps new readers out  *)
(* and enters when the present ones have left; Unlock lets in every reader  *)
(* that waited.                                                             *)
Announce(r) ==
  /\ writer = NoRequest
  /\ writer' = r
  /\ UNCHANGED <<readers, blocked>>

HoldsLock(r) == writer = r /\ readers = {}

Unlock ==
  /\ writer' = NoRequest
  /\ readers' = readers \union blocked
  /\ blocked' = {}

RLock(r) ==
  /\ UNCHANGED writer
  /\ IF writer = NoRequest
     THEN readers' = readers \union {r} /\ UNCHANGED blocked
     ELSE blocked' = blocked \union {r} /\ UNCHANGED readers

RUnlock(r) ==
  /\ readers' = readers \ {r}
  /\ UNCHANGED <<writer, blocked>>

-----------------------------------------------------------------------------
(* A request arrives and is decoded.  A create draws a new id; the others   *)
(* name any id, known or not.                                               *)
Receive(r, op, id) ==
  /\ pc[r] = "idle"
  /\ IF op = "create" THEN id \notin used /\ used' = used \union {id}
                      ELSE UNCHANGED used
  /\ call' = [call EXCEPT ![r] = [op |-> op, id |-> id]]
  /\ Goto(r, IF op \in {"list", "get"} THEN "read" ELSE "lock")
  /\ UNCHANGED <<live, conf, lock, data, file, process, history>>

CallLock(r) ==
  /\ pc[r] = "lock"
  /\ Announce(r)
  /\ Goto(r, "enter")
  /\ UNCHANGED <<live, conf, call, data, file, used, process, history>>

Enters(r, op) == pc[r] = "enter" /\ HoldsLock(r) /\ call[r].op = op

Target(r) == call[r].id

(* Mutant: the Unlock of CreatePipeline is deferred, too. *)
CreateInsertDeferred(r) ==
  /\ Enters(r, "create")
  /\ live' = live \union {Target(r)}
  /\ past' = past \union {live'}
  /\ conf' = [conf EXCEPT ![Target(r)] = NewConfig]
  /\ Goto(r, "save")
  /\ UNCHANGED <<lock, call, data, file, used, process, acked, clean>>

(* CreatePipeline releases the lock before it saves. *)
CreateInsert(r) ==
  /\ Enters(r, "create")
  /\ live' = live \union {Target(r)}
  /\ past' = past \union {live'}
  /\ conf' = [conf EXCEPT ![Target(r)] = NewConfig]
  /\ Unlock
  /\ Goto(r, "save")
  /\ UNCHANGED <<call, data, file, used, process, acked, clean>>

(* Mutant: the early return of a 404 forgets the Unlock. *)
NotFoundKeepsLock(r) ==
  /\ Enters(r, "update") \/ Enters(r, "delete")
  /\ Target(r) \notin live
  /\ Goto(r, "idle")
  /\ UNCHANGED <<live, conf, lock, call, data, file, used, process, history>>

(* UpdatePipeline and DeletePipeline answer 404, or save, with the lock     *)
(* held: their Unlock is deferred to the return.                            *)
NotFound(r) ==
  /\ Enters(r, "update") \/ Enters(r, "delete")
  /\ Target(r) \notin live
  /\ Unlock
  /\ Goto(r, "idle")
  /\ UNCHANGED <<live, conf, call, data, file, used, process, history>>

UpdateFirst(r) ==
  /\ Enters(r, "update")
  /\ Target(r) \in live
  /\ conf' = [conf EXCEPT ![Target(r)].name = 3 - @]
  /\ Goto(r, "second")
  /\ UNCHANGED <<live, lock, call, data, file, used, process, history>>

UpdateSecond(r) ==
  /\ pc[r] = "second"
  /\ conf' = [conf EXCEPT ![Target(r)].enabled = conf[Target(r)].name]
  /\ Goto(r, "save")
  /\ UNCHANGED <<live, lock, call, data, file, used, process, history>>

DeleteEntry(r) ==
  /\ Enters(r, "delete")
  /\ Target(r) \in live
  /\ live' = live \ {Target(r)}
  /\ past' = past \union {live'}
  /\ acked' = acked \ {Target(r)}
  /\ Goto(r, "save")
  /\ UNCHANGED <<conf, lock, call, data, file, used, process, clean>>

-----------------------------------------------------------------------------
(* Mutant: the reply does not wait for the save. *)
SaveStartSkips(r) ==
  /\ pc[r] = "save"
  /\ Goto(r, "reply")
  /\ UNCHANGED <<live, conf, lock, call, data, file, used, process, history>>

(* Mutant: the map is walked without the lock, and changes underneath. *)
SnapshotUnlocked(r) ==
  /\ pc[r] = "snapshot"
  /\ r \in readers
  /\ \E s \in SUBSET live : data' = [data EXCEPT ![r] = [id \in s |-> conf[id]]]
  /\ RUnlock(r)
  /\ Goto(r, "marshal")
  /\ UNCHANGED <<live, conf, call, file, used, process, history>>

(* save(): nothing without a store path, else a snapshot of the pointers    *)
(* under RLock; the marshalling reads through them without the lock, and    *)
(* os.WriteFile truncates the file and then writes it.                      *)
SaveStart(r) ==
  /\ pc[r] = "save"
  /\ IF storePath
     THEN /\ RLock(r)
          /\ Goto(r, "snapshot")
          /\ clean' = (clean /\ \A s \in Requests : pc[s] \notin SavePcs)
     ELSE /\ Goto(r, "reply")
          /\ UNCHANGED <<lock, clean>>
  /\ UNCHANGED <<live, conf, call, data, file, used, process, acked, past>>

Snapshot(r) ==
  /\ pc[r] = "snapshot"
  /\ r \in readers
  /\ data' = [data EXCEPT ![r] = [id \in live |-> conf[id]]]
  /\ RUnlock(r)
  /\ Goto(r, "marshal")
  /\ UNCHANGED <<live, conf, call, file, used, process, history>>

(* Mutant: the file is opened without O_TRUNC. *)
OpenInPlace(r) ==
  /\ pc[r] = "open"
  /\ \/ Goto(r, "write") /\ UNCHANGED clean
     \/ Goto(r, "reply") /\ clean' = FALSE
  /\ UNCHANGED <<live, conf, lock, call, data, file, used, process, acked, past>>

Marshal(r) ==
  /\ pc[r] = "marshal"
  /\ data' = [data EXCEPT ![r] = [id \in DOMAIN @ |-> conf[id]]]
  /\ Goto(r, "open")
  /\ UNCHANGED <<live, conf, lock, call, file, used, process, history>>

OpenTruncate(r) ==
  /\ pc[r] = "open"
  /\ \/ /\ file' = Truncated
        /\ Goto(r, "write")
        /\ UNCHANGED clean
     \/ /\ Goto(r, "reply")          \* the error is only logged
        /\ clean' = FALSE
        /\ UNCHANGED file
  /\ UNCHANGED <<live, conf, lock, call, data, used, process, acked, past>>

(* A write over what another save has written meanwhile leaves the end of   *)
(* that text behind when it is shorter.                                     *)
WriteData(r) ==
  /\ pc[r] = "write"
  /\ \/ file' = Valid(data[r]) /\ UNCHANGED clean
     \/ /\ file \notin {Truncated, Valid(data[r])}
        /\ file' = Garbled
        /\ UNCHANGED clean
     \/ file' = Garbled /\ clean' = FALSE       \* an error during the write
  /\ Goto(r, "reply")
  /\ data' = [data EXCEPT ![r] = NoPipelines]
  /\ UNCHANGED <<live, conf, lock, call, used, process, acked, past>>

Reply(r) ==
  /\ pc[r] = "reply"
  /\ acked' = IF call[r].op = "create" THEN acked \union ({Target(r)} \intersect live)
                                       ELSE acked
  /\ IF writer = r THEN Unlock ELSE UNCHANGED lock
  /\ Goto(r, "idle")
  /\ UNCHANGED <<live, conf, call, data, file, used, process, past, clean>>

-----------------------------------------------------------------------------
(* The readers.  ListPipelines encodes its reply under the lock,            *)
(* GetPipeline encodes through the pointer it looked up, after RUnlock.     *)
CallRLock(r) ==
  /\ pc[r] = "read"
  /\ RLock(r)
  /\ Goto(r, "reading")
  /\ UNCHANGED <<live, conf, call, data, file, used, process, history>>

ListReply(r) ==
  /\ pc[r] = "reading" /\ call[r].op = "list"
  /\ r \in readers
  /\ RUnlock(r)
  /\ Goto(r, "idle")
  /\ UNCHANGED <<live, conf, call, data, file, used, process, history>>

(* Mutant: GetPipeline releases the lock after its early return. *)
GetLookupKeepsLock(r) ==
  /\ pc[r] = "reading" /\ call[r].op = "get"
  /\ r \in readers
  /\ IF Target(r) \in live THEN RUnlock(r) /\ Goto(r, "answer")
                          ELSE UNCHANGED lock /\ Goto(r, "idle")
  /\ UNCHANGED <<live, conf, call, data, file, used, process, history>>

GetLookup(r) ==
  /\ pc[r] = "reading" /\ call[r].op = "get"
  /\ r \in readers
  /\ RUnlock(r)
  /\ Goto(r, IF Target(r) \in live THEN "answer" ELSE "idle")
  /\ UNCHANGED <<live, conf, call, data, file, used, process, history>>

GetAnswer(r) ==
  /\ pc[r] = "answer"
  /\ Goto(r, "idle")
  /\ UNCHANGED <<live, conf, lock, call, data, file, used, process, history>>

Handle(r) ==
  \/ CallLock(r) \/ CreateInsert(r) \/ NotFound(r)
  \/ UpdateFirst(r) \/ UpdateSecond(r) \/ DeleteEntry(r)
  \/ SaveStart(r) \/ Snapshot(r) \/ Marshal(r) \/ OpenTruncate(r) \/ WriteData(r)
  \/ Reply(r)
  \/ CallRLock(r) \/ ListReply(r) \/ GetLookup(r) \/ GetAnswer(r)

-----------------------------------------------------------------------------
(* The process dies; the new one runs load(): a file that is missing or     *)
(* does not parse is an empty store.                                        *)
Crash ==
  /\ crashes < MaxCrashes
  /\ crashes' = crashes + 1
  /\ live' = DOMAIN file.pipelines
  /\ conf' = [id \in Ids |-> IF id \in live' THEN file.pipelines[id] ELSE NewConfig]
  /\ writer' = NoRequest /\ readers' = {} /\ blocked' = {}
  /\ pc' = [r \in Requests |-> "idle"]
  /\ data' = [r \in Requests |-> NoPipelines]
  /\ acked' = {} /\ clean' = TRUE
  /\ UNCHANGED <<call, file, used, storePath, past>>

Next ==
  \/ \E r \in Requests, op \in Ops, id \in Ids : Receive(r, op, id)
  \/ \E r \in Requests : Handle(r)
  \/ Crash

Spec == Init /\ [][Next]_vars

(* Every goroutine is scheduled.  sync.Mutex hands a starving writer the    *)
(* lock: who waits for it while it is free again and again gets it.         *)
Fairness ==
  \A r \in Requests : WF_vars(Handle(r)) /\ SF_vars(CallLock(r))

FairSpec == Spec /\ Fairness

-----------------------------------------------------------------------------
(* Properties *)

(* UpdatePipeline changes a pipeline field by field.  Who reads the map     *)
(* under RLock (list, config, the snapshot of save) never sees one half     *)
(* updated.  This is said of a process that was not restarted: save()       *)
(* marshals without the lock, so a file can hold a half-made update, which  *)
(* the next process loads.                                                  *)
LockedReadsWhole ==
  crashes = 0 => \A r \in readers, id \in live : Whole(conf[id])

(* As long as saves neither overlapped nor failed, the file holds exactly   *)
(* the map whenever no request is in progress.                              *)
QuiescentFileMatches ==
  storePath /\ clean /\ (\A r \in Requests : pc[r] = "idle")
    => file.pipelines = [id \in live |-> conf[id]]

(* A restart forgets a pipeline whose create was answered only if saves     *)
(* overlapped or failed before, or the process died between the truncation  *)
(* of the file and the write of its contents.                               *)
AckedSurviveRestart ==
  [][ storePath /\ crashes' # crashes
        => \/ acked \subseteq live'
           \/ ~clean
           \/ \E r \in Requests : pc[r] = "write" ]_vars

(* Locks, snapshots, overlapping writes of the file and restarts together   *)
(* keep to the registry: whatever save() leaves in the file, a restart      *)
(* brings back a set of pipelines the service has had.                      *)
Registry == INSTANCE PipelineRegistry WITH Ids <- Ids, live <- live, past <- past
RefinesRegistry == Registry!Spec

(* UpdatePipeline and DeletePipeline call save() while they hold the write  *)
(* lock: with a store path they wait for themselves.                        *)
Stuck(r) == pc[r] = "snapshot" /\ writer = r /\ call[r].op \in {"update", "delete"}

(* That is the only way to lose an answer: every request is answered unless *)
(* an update or a delete of a known pipeline got stuck that way, or the     *)
(* process dies.  The slots are interchangeable: one stands for all.        *)
AnyRequest == CHOOSE r \in Requests : TRUE
RequestsAnswered ==
  pc[AnyRequest] # "idle"
    ~> pc[AnyRequest] = "idle" \/ \E s \in Requests : Stuck(s)

-----------------------------------------------------------------------------
(* What the repository says and the code does not do. *)

(* README.md:717, "POST /api/pipelines/update?id=<id>": "Actualizar          *)
(* pipeline".  An update of a pipeline is carried out and answered.          *)
UpdateAnswered ==
  \A r \in Requests :
    pc[r] = "lock" /\ call[r].op = "update" ~> pc[r] = "idle"

=============================================================================
