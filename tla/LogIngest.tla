----------------------------- MODULE LogIngest ------------------------------
(***************************************************************************)
(* The path of a log line: Fluent Bit posts chunks of lines to /logs       *)
(* (main.go: withAuth(withRateLimit(HandleLogs))), the handler decodes the *)
(* chunk, inserts its lines into ClickHouse before it answers, and answers *)
(* 200 whatever became of the insert.                                      *)
(*                                                                         *)
(* Every post runs on a goroutine of its own.  Fluent Bit (external) posts *)
(* a chunk again when it gets no answer in time or one other than 200, at  *)
(* most RetryLimit times; the handler of a post it has given up runs on    *)
(* next to the later ones.  A post is <<chunk, number of the try>>.        *)
(***************************************************************************)
EXTENDS Naturals, FiniteSets

CONSTANTS
  Chunks,
  Lines,        \* the lines of every chunk
  EmptyLines,   \* those with neither "log" nor "message"
  BadLines,     \* those batch.Append refuses
  RetryLimit,   \* Retry_Limit of the Fluent Bit output
  Burst,        \* cfg.RateLimitBurst
  MaxOutages,   \* bound: how often ClickHouse goes away
  MaxCrashes    \* bound: how often the ingestor dies and is started again

ASSUME IngestAssumption ==
  /\ EmptyLines \subseteq Lines /\ BadLines \subseteq Lines
  /\ RetryLimit \in Nat /\ Burst \in Nat /\ MaxOutages \in Nat
  /\ MaxCrashes \in Nat

Posts == Chunks \X (1 .. RetryLimit + 1)
ChunkOf(p) == p[1]

(* What the handler counts as accepted of a whole chunk, and what a batch   *)
(* then holds.                                                              *)
AcceptedLines == Lines \ EmptyLines
BatchLines == AcceptedLines \ BadLines

VARIABLES
  up,           \* ClickHouse answers
  outages,
  crashes,
  chClient,     \* the handler was given a client (set once, at start-up)
  authorized,   \* no API key is configured, or Fluent Bit sends it
  gzip,         \* the bodies are sent with Content-Encoding: gzip
  tokens,       \* of the rate limiter
  tries,        \* posts made of a chunk
  fate,         \* of a chunk: "queued", "posted", "delivered" or "dropped"
  gone,         \* posts Fluent Bit no longer waits for
  pc,           \* where the handler of a post is
  status,       \* the status it answers with, 0 while undecided
  lost,         \* lines for its batch that were cut off its body unnoticed
  rows,         \* rows of the table logs holding a line of a chunk
  outcome       \* history: what became of the insert of a post

clickhouse == <<up, outages>>
setup == <<crashes, chClient, authorized, gzip>>
fluentBit == <<tries, fate, gone>>
handler == <<pc, status, lost, outcome>>
vars == <<clickhouse, setup, tokens, fluentBit, handler, rows>>

Outcomes == {"none", "skipped", "unprepared", "stored", "failed", "in doubt"}

TypeOK ==
  /\ up \in BOOLEAN /\ outages \in 0 .. MaxOutages
  /\ crashes \in 0 .. MaxCrashes
  /\ chClient \in BOOLEAN /\ authorized \in BOOLEAN /\ gzip \in BOOLEAN
  /\ tokens \in 0 .. Burst
  /\ tries \in [Chunks -> 0 .. RetryLimit + 1]
  /\ fate \in [Chunks -> {"queued", "posted", "delivered", "dropped"}]
  /\ gone \subseteq Posts
  /\ pc \in [Posts -> {"none", "auth", "limit", "read", "prepare", "send",
                       "reply", "done", "killed"}]
  /\ status \in [Posts -> {0, 200, 400, 401, 429}]
  /\ lost \in [Posts -> SUBSET BatchLines]
  /\ rows \in [Chunks \X Lines -> 0 .. RetryLimit + 1]
  /\ outcome \in [Posts -> Outcomes]

Init ==
  /\ up \in BOOLEAN /\ outages = 0
  /\ crashes = 0 /\ chClient = up /\ authorized \in BOOLEAN /\ gzip \in BOOLEAN
  /\ tokens = Burst
  /\ tries = [c \in Chunks |-> 0]
  /\ fate = [c \in Chunks |-> "queued"]
  /\ gone = {}
  /\ pc = [p \in Posts |-> "none"]
  /\ status = [p \in Posts |-> 0]
  /\ lost = [p \in Posts |-> {}]
  /\ rows = [e \in Chunks \X Lines |-> 0]
  /\ outcome = [p \in Posts |-> "none"]

Current(c) == <<c, tries[c]>>

(* The rows of the batches of these posts in the table, on top of others. *)
Adding(posts, c, l) == {p \in posts : ChunkOf(p) = c /\ l \in BatchLines \ lost[p]}
StoredBy(posts) ==
  [e \in Chunks \X Lines |-> rows[e] + Cardinality(Adding(posts, e[1], e[2]))]

-----------------------------------------------------------------------------
(* Environment: ClickHouse, the clock of the limiter, Fluent Bit. *)
Outage ==
  /\ up /\ outages < MaxOutages
  /\ up' = FALSE /\ outages' = outages + 1
  /\ UNCHANGED <<setup, tokens, fluentBit, handler, rows>>

Recover ==
  /\ ~up /\ up' = TRUE
  /\ UNCHANGED <<outages, setup, tokens, fluentBit, handler, rows>>

(* The process dies and main() runs anew: the handlers are gone, whatever   *)
(* ClickHouse makes of the batches on their way, the limiter is full and    *)
(* the handler's client is the new one - or none, if ClickHouse is away.    *)
Crash ==
  /\ crashes < MaxCrashes /\ crashes' = crashes + 1
  /\ \E arrived \in SUBSET {p \in Posts : pc[p] = "send"} : rows' = StoredBy(arrived)
  /\ pc' = [p \in Posts |-> IF pc[p] \in {"none", "done"} THEN pc[p] ELSE "killed"]
  /\ chClient' = up /\ tokens' = Burst
  /\ UNCHANGED <<clickhouse, authorized, gzip, fluentBit, status, lost, outcome>>

Refill ==
  /\ tokens < Burst
  /\ tokens' = tokens + 1
  /\ UNCHANGED <<clickhouse, setup, fluentBit, handler, rows>>

Post(c) ==
  /\ fate[c] = "queued"
  /\ tries' = [tries EXCEPT ![c] = @ + 1]
  /\ fate' = [fate EXCEPT ![c] = "posted"]
  /\ pc' = [pc EXCEPT ![<<c, tries[c] + 1>>] = "auth"]
  /\ UNCHANGED <<clickhouse, setup, tokens, gone, status, lost, outcome, rows>>

RetryOrDrop(c) ==
  fate' = [fate EXCEPT ![c] = IF tries[c] <= RetryLimit THEN "queued" ELSE "dropped"]

(* The answer reaches Fluent Bit, which waits for it. *)
GetAnswer(c) ==
  /\ fate[c] = "posted"
  /\ pc[Current(c)] = "done"
  /\ IF status[Current(c)] = 200 THEN fate' = [fate EXCEPT ![c] = "delivered"]
                                 ELSE RetryOrDrop(c)
  /\ UNCHANGED <<clickhouse, setup, tokens, tries, gone, handler, rows>>

(* It gives up a connection: its own timeout, the server's WriteTimeout     *)
(* that passes while the insert runs, or an ingestor that has died.         *)
GiveUp(c) ==
  /\ fate[c] = "posted"
  /\ gone' = gone \union {Current(c)}
  /\ RetryOrDrop(c)
  /\ UNCHANGED <<clickhouse, setup, tokens, tries, handler, rows>>

-----------------------------------------------------------------------------
(* The handler chain of a post. *)
Goto(p, there) == pc' = [pc EXCEPT ![p] = there]

Answer(p, code) ==
  /\ status' = [status EXCEPT ![p] = code]
  /\ Goto(p, "reply")

Authorize(p) ==
  /\ pc[p] = "auth"
  /\ IF authorized THEN Goto(p, "limit") /\ UNCHANGED status
                   ELSE Answer(p, 401)
  /\ UNCHANGED <<clickhouse, setup, tokens, fluentBit, lost, outcome, rows>>

(* Mutant: a post is let through whatever the limiter says. *)
LimitIgnored(p) ==
  /\ pc[p] = "limit"
  /\ tokens' = tokens - 1
  /\ Goto(p, "read")
  /\ UNCHANGED <<clickhouse, setup, fluentBit, status, lost, outcome, rows>>

(* Mutant: without its WriteHeader the refusal goes out as a 200. *)
LimitWithoutHeader(p) ==
  /\ pc[p] = "limit"
  /\ IF tokens > 0
     THEN tokens' = tokens - 1 /\ Goto(p, "read") /\ UNCHANGED status
     ELSE /\ Answer(p, 200)
          /\ UNCHANGED tokens
  /\ UNCHANGED <<clickhouse, setup, fluentBit, lost, outcome, rows>>

Limit(p) ==
  /\ pc[p] = "limit"
  /\ IF tokens > 0
     THEN tokens' = tokens - 1 /\ Goto(p, "read") /\ UNCHANGED status
     ELSE /\ Answer(p, 429)
          /\ UNCHANGED tokens
  /\ UNCHANGED <<clickhouse, setup, fluentBit, lost, outcome, rows>>

(* HandleLogs up to the insert.  A read that fails (the client has gone,    *)
(* ReadTimeout has passed) is answered 400.  Not so behind a gzip header:   *)
(* the error of that read is assigned to a shadowed err, and what came of   *)
(* the body is decoded as if it were all.  A body without an accepted line, *)
(* or a handler without a client, inserts nothing.                          *)
Take(p, came) ==
  /\ lost' = [lost EXCEPT ![p] = BatchLines \ came]
  /\ IF chClient /\ AcceptedLines \cap came # {}
     THEN Goto(p, "prepare") /\ UNCHANGED <<status, outcome>>
     ELSE outcome' = [outcome EXCEPT ![p] = "skipped"] /\ Answer(p, 200)

ReadBody(p) ==
  /\ pc[p] = "read"
  /\ \/ Answer(p, 400) /\ UNCHANGED <<lost, outcome>>
     \/ Take(p, Lines)
     \/ gzip /\ \E came \in SUBSET Lines \ {{}} : Take(p, came)
  /\ UNCHANGED <<clickhouse, setup, tokens, fluentBit, rows>>

-----------------------------------------------------------------------------
(* Client.InsertBatch under its 30 s timeout and the context of the         *)
(* request: it fails when ClickHouse is away, when no connection of the     *)
(* pool comes free, or when the client has gone.  HandleLogs logs the error *)
(* and goes on to its 200.                                                  *)
(* Mutant: without the timeout, InsertBatch waits for ClickHouse. *)
PrepareWithoutTimeout(p) ==
  /\ pc[p] = "prepare"
  /\ up
  /\ Goto(p, "send")
  /\ UNCHANGED <<clickhouse, setup, tokens, fluentBit, status, lost, outcome, rows>>

PrepareBatch(p) ==
  /\ pc[p] = "prepare"
  /\ \/ up /\ Goto(p, "send") /\ UNCHANGED <<status, outcome>>
     \/ /\ outcome' = [outcome EXCEPT ![p] = "unprepared"]
        /\ Answer(p, 200)
  /\ UNCHANGED <<clickhouse, setup, tokens, fluentBit, lost, rows>>

Insert(p, result, isStored) ==
  /\ outcome' = [outcome EXCEPT ![p] = result]
  /\ rows' = IF isStored THEN StoredBy({p}) ELSE rows

(* Send returns nil, or an error before or after ClickHouse stored the rows. *)
SendOutcome(p) ==
  \/ up /\ Insert(p, "stored", TRUE)
  \/ Insert(p, "failed", FALSE)
  \/ Insert(p, "in doubt", TRUE)

(* Mutant: an insert error is reported to the client. *)
SendReportsErrors(p) ==
  /\ pc[p] = "send"
  /\ SendOutcome(p)
  /\ Answer(p, IF outcome'[p] = "stored" THEN 200 ELSE 400)
  /\ UNCHANGED <<clickhouse, setup, tokens, fluentBit, lost>>

SendBatch(p) ==
  /\ pc[p] = "send"
  /\ SendOutcome(p)
  /\ Answer(p, 200)
  /\ UNCHANGED <<clickhouse, setup, tokens, fluentBit, lost>>

Reply(p) ==
  /\ pc[p] = "reply"
  /\ Goto(p, "done")
  /\ UNCHANGED <<clickhouse, setup, tokens, fluentBit, status, lost, outcome, rows>>

Handle(p) ==
  \/ Authorize(p) \/ Limit(p) \/ ReadBody(p)
  \/ PrepareBatch(p) \/ SendBatch(p) \/ Reply(p)

FluentBit(c) == Post(c) \/ GetAnswer(c) \/ GiveUp(c)

Next ==
  \/ Outage \/ Recover \/ Crash \/ Refill
  \/ \E c \in Chunks : FluentBit(c)
  \/ \E p \in Posts : Handle(p)

Spec == Init /\ [][Next]_vars

(* Handlers run, and their inserts return within 30 s. *)
FairSpec == Spec /\ \A p \in Posts : WF_vars(Handle(p))

-----------------------------------------------------------------------------
(* Properties *)

(* A line is stored once, and once more for each post of its chunk that     *)
(* Fluent Bit gave up: the handler answers 200 also after an insert that     *)
(* failed in doubt, so no error of ClickHouse by itself makes Fluent Bit     *)
(* post again what is already stored, and a crash costs a duplicate only    *)
(* because the answer is lost.                                              *)
DuplicatesBounded ==
  \A c \in Chunks, l \in Lines :
    rows[<<c, l>>] <= 1 + Cardinality({p \in gone : ChunkOf(p) = c})

(* A line of a delivered chunk that ClickHouse does not hold has a reason   *)
(* in the code: it is empty or cannot be encoded, the handler never got a   *)
(* client, the insert of the post that was answered failed, or its gzip     *)
(* body broke off before the line and nobody looked at the error.           *)
LossExplained ==
  \A c \in Chunks, l \in BatchLines :
    fate[c] = "delivered" /\ rows[<<c, l>>] = 0
      => \/ outcome[Current(c)] \in {"skipped", "unprepared", "failed"}
         \/ gzip /\ l \in lost[Current(c)]

(* Every handler comes to its end, also when ClickHouse is away for good or *)
(* Fluent Bit has gone, unless the process dies under it.                   *)
PostsFinish == \A p \in Posts : pc[p] # "none" ~> pc[p] \in {"done", "killed"}

-----------------------------------------------------------------------------
(* What the repository says and the code does not do. *)

(* README.md:47: "DLQ maneja logs fallidos".  AddToDLQ, the only way into   *)
(* the DLQ, has no caller; an accepted line whose insert has failed while   *)
(* the post was answered 200 should be there.                               *)
DLQ == {}
FailedLogsKept ==
  \A c \in Chunks, l \in BatchLines :
    (/\ fate[c] = "delivered" /\ outcome[Current(c)] \in {"unprepared", "failed"}
     /\ l \notin lost[Current(c)])
      => rows[<<c, l>>] > 0 \/ <<c, l>> \in DLQ

=============================================================================
