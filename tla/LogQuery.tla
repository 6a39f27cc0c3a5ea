------------------------------- MODULE LogQuery ------------------------------
(***************************************************************************)
(* Reading the logs table while it grows: the paged /logs, the stream and  *)
(* the aggregates of the query service (internal/query over                *)
(* internal/clickhouse), and /get-logs and /query of the ingestor.         *)
(*                                                                         *)
(* Reads change nothing, so one session at a time says all there is: a     *)
(* client that pages until has_more is false, or one of the other          *)
(* requests.  A row is its number in the order of arrival; all that is     *)
(* kept of it is its timestamp, in units of the DateTime column, and what  *)
(* it holds in the column a client may order by.                           *)
(***************************************************************************)
EXTENDS Naturals, Sequences, FiniteSets

CONSTANTS
  MaxRows, MaxTime, MaxOutages,   \* bounds of the environment
  Window,        \* how far back reads go: 24 h, in the aggregates 1 h and 7 days
  Keys,          \* what rows hold in a column that order_by names
  Limits,        \* what clients give as limit: 1 .. 1000, 100 without
  DefaultLimit,  \* of QueryLogs for a limit that is not positive: 100
  StreamLimit,   \* of one round of the stream: 50
  NamespaceLimit \* of the stats by namespace: 20

ASSUME QueryAssumption ==
  /\ MaxRows \in Nat /\ MaxTime \in Nat /\ MaxOutages \in Nat
  /\ Window \in Nat /\ Window <= MaxTime
  /\ Keys \subseteq Nat /\ Keys # {}
  /\ Limits \subseteq Nat \ {0} /\ Limits # {}
  /\ DefaultLimit \in Nat \ {0} /\ StreamLimit \in Nat \ {0} /\ NamespaceLimit \in Nat

VARIABLES
  rows,      \* the timestamps of the table logs, in the order of arrival
  now,
  up, outages,
  op,        \* the session, "none" before it starts
  desc,      \* newest, or greatest, first
  byTime,    \* ordered by the timestamp
  column,    \* else: what the rows hold, those too that come later
  fixed,     \* the client names start and end; else each request takes its own
  lo, hi,    \* StartTime and EndTime of the current request
  limit, offset,
  total,     \* what the count query returned
  pc,
  got,       \* how many rows the last answer held
  seen,      \* history: all rows the client has got
  parts,     \* the results of GetStatsFull so far
  known,     \* history: rows in the table when the session started
  span,      \* history: the window of the first request
  late,      \* history: rows came between the last count and its page
  cut        \* history: an answer ended early, without an error

table == <<rows, now>>
clickhouse == <<up, outages>>
order == <<desc, byTime, column>>
request == <<op, order, fixed, lo, hi, limit, offset>>
history == <<seen, known, span, late, cut>>
vars == <<table, clickhouse, request, total, pc, got, parts, history>>

Rows == 1 .. Len(rows)
Times == 0 .. MaxTime
Columns == [1 .. MaxRows -> Keys]
AnyColumn == [r \in 1 .. MaxRows |-> CHOOSE k \in Keys : TRUE]
Ops == {"none", "page", "recent", "sql", "values", "stream", "stats"}

TypeOK ==
  /\ rows \in Seq(Times) /\ Len(rows) <= MaxRows
  /\ now \in Times /\ up \in BOOLEAN /\ outages \in 0 .. MaxOutages
  /\ op \in Ops /\ fixed \in BOOLEAN
  /\ desc \in BOOLEAN /\ byTime \in BOOLEAN /\ column \in Columns
  /\ lo \in Times /\ hi \in Times /\ span \in Times \X Times
  /\ limit \in Nat /\ offset \in 0 .. MaxRows /\ total \in 0 .. Len(rows)
  /\ pc \in {"idle", "count", "fetch", "more", "wait", "stats", "done",
             "failed", "panicked"}
  /\ got \in 0 .. Len(rows) /\ seen \subseteq Rows /\ known \in 0 .. Len(rows)
  /\ parts \in Seq(0 .. MaxRows + MaxTime) /\ Len(parts) <= 5
  /\ late \in BOOLEAN /\ cut \in BOOLEAN

Init ==
  /\ rows = <<>> /\ now = Window /\ up = TRUE /\ outages = 0
  /\ op = "none" /\ fixed = FALSE
  /\ desc = TRUE /\ byTime = TRUE /\ column = AnyColumn
  /\ lo = 0 /\ hi = 0 /\ span = <<0, 0>> /\ limit = 0 /\ offset = 0 /\ total = 0
  /\ pc = "idle" /\ got = 0 /\ parts = <<>>
  /\ seen = {} /\ known = 0 /\ late = FALSE /\ cut = FALSE

-----------------------------------------------------------------------------
(* The environment.  A row may come with any time that has been: Fluent Bit *)
(* posts again, and pods' clocks differ.  The 30-day TTL deletes none here. *)
Arrive ==
  /\ Len(rows) < MaxRows
  /\ \E t \in 0 .. now : rows' = Append(rows, t)
  /\ UNCHANGED <<now, clickhouse, request, total, pc, got, parts, history>>

Pass ==
  /\ now < MaxTime /\ now' = now + 1
  /\ UNCHANGED <<rows, clickhouse, request, total, pc, got, parts, history>>

GoDown == up /\ outages < MaxOutages /\ up' = FALSE /\ outages' = outages + 1

Outage ==
  /\ GoDown
  /\ UNCHANGED <<table, request, total, pc, got, parts, history>>

Recover ==
  /\ ~up /\ up' = TRUE
  /\ UNCHANGED <<table, outages, request, total, pc, got, parts, history>>

-----------------------------------------------------------------------------
(* The handlers up to their first query. *)
Open(kind, isFixed, most, first) ==
  /\ pc = "idle" /\ pc' = first
  /\ op' = kind /\ fixed' = isFixed /\ limit' = most
  /\ lo' = now - Window /\ hi' = now /\ span' = <<lo', hi'>>
  /\ known' = Len(rows)
  /\ UNCHANGED <<table, clickhouse, offset, total, got, parts, seen, late, cut>>

NewestFirst == UNCHANGED order

(* The desc and order_by parameters of /logs. *)
OrderBy(newestFirst, named) ==
  /\ desc' = newestFirst
  /\ \/ byTime' = TRUE /\ UNCHANGED column
     \/ byTime' = FALSE /\ column' = named

OpenPage ==
  \E d, f \in BOOLEAN, c \in Columns, n \in Limits :
    Open("page", f, n, "count") /\ OrderBy(d, c)
OpenStream == Open("stream", FALSE, StreamLimit, "count") /\ NewestFirst
OpenStats == Open("stats", FALSE, 0, "stats") /\ NewestFirst

(* GetDistinctValues: each row stands for a value of its own.               *)
OpenValues == Open("values", FALSE, MaxRows, "fetch") /\ NewestFirst

(* The ingestor's handlers answer 503 as long as they have no client.       *)
(* HandleGetLogs passes any number on; QueryLogs replaces one below 1.      *)
OpenQuery ==
  \E first \in {"fetch", "failed"} :
    Open("sql", FALSE, MaxRows, first) /\ NewestFirst
OpenRecent ==
  \E first \in {"count", "failed"}, n \in Limits \union {DefaultLimit} :
    Open("recent", FALSE, n, first) /\ NewestFirst

-----------------------------------------------------------------------------
(* Client.QueryLogs: SELECT count(), then the page with ORDER BY, LIMIT and *)
(* OFFSET.  ORDER BY names one column: ClickHouse may return rows that are  *)
(* equal in it in a different order each time.                              *)
Recent == {r \in Rows : rows[r] > now - Window}

(* GetDistinctValues takes its window from ClickHouse's now(); the          *)
(* statement of /query is the client's, here one that selects every row.    *)
Matching ==
  CASE op = "values" -> Recent
    [] op = "sql" -> Rows
    [] OTHER -> {r \in Rows : lo <= rows[r] /\ rows[r] <= hi}

Key(r) == IF byTime THEN rows[r] ELSE column[r]

(* Those two order by something else, or not at all. *)
Precedes(q, r) ==
  /\ op \notin {"values", "sql"}
  /\ IF desc THEN Key(q) > Key(r) ELSE Key(q) < Key(r)

(* A can stand before the rest of B in a sorted result. *)
IsPrefix(A, B) == A \subseteq B /\ \A q \in A, r \in B \ A : ~Precedes(r, q)

AtMost(m, n) == IF m < n THEN m ELSE n

(* What LIMIT and OFFSET can select of a set of rows. *)
Pages(S, skip, most) ==
  {P \in SUBSET S :
     \E skipped \in SUBSET (S \ P) :
       /\ Cardinality(skipped) = AtMost(skip, Cardinality(S))
       /\ Cardinality(P) = AtMost(most, Cardinality(S \ skipped))
       /\ IsPrefix(skipped, S) /\ IsPrefix(skipped \union P, S)}

(* Mutant: the count query reads the whole table. *)
CountAll ==
  /\ pc = "count" /\ up
  /\ total' = Len(rows)
  /\ pc' = "fetch"
  /\ UNCHANGED <<table, clickhouse, request, got, parts, history>>

Count ==
  /\ pc = "count" /\ up
  /\ total' = Cardinality(Matching)
  /\ pc' = "fetch"
  /\ UNCHANGED <<table, clickhouse, request, got, parts, history>>

(* Either query fails: an answer 500; the stream ignores the error. *)
QueryFails ==
  /\ pc \in {"count", "fetch"} /\ ~up
  /\ pc' = IF op = "stream" THEN "wait" ELSE "failed"
  /\ UNCHANGED <<table, clickhouse, request, total, got, parts, history>>

(* Mutant: total is taken for the number of the last row, counted from 0. *)
HasMoreOffByOne == offset + limit + 1 < total

(* Mutant: the offset is left out. *)
HasMoreThanLimit == limit < total

HasMore == offset + limit < total

Deliver(P) ==
  /\ got' = Cardinality(P)
  /\ seen' = seen \union P
  /\ late' = (Cardinality(Matching) > total)
  /\ pc' = CASE op = "stream" -> "wait"
             [] op = "page" /\ HasMore -> "more"
             [] OTHER -> "done"
  /\ UNCHANGED <<table, request, total, parts, known, span>>

Fetch ==
  /\ pc = "fetch" /\ up
  /\ \E P \in Pages(Matching, offset, limit) : Deliver(P)
  /\ UNCHANGED <<clickhouse, cut>>

(* The connection breaks under rows.Next(), which then returns false like   *)
(* at the end; rows.Err() is not asked, so the answer is a short page.      *)
FetchCut ==
  /\ pc = "fetch" /\ GoDown
  /\ \E P \in Pages(Matching, offset, limit) :
       \E part \in SUBSET P \ {{}, P} : IsPrefix(part, P) /\ Deliver(part)
  /\ cut' = TRUE

(* Client.Query cancels the context of its rows when it returns them: what  *)
(* HandleQuery still gets of them is a matter of time.                      *)
QueryCancelled ==
  /\ pc = "fetch" /\ op = "sql" /\ up
  /\ \E part \in SUBSET Matching \ {Matching} : Deliver(part)
  /\ cut' = TRUE
  /\ UNCHANGED clickhouse

(* The client asks for the next page; without start and end parameters      *)
(* parseQueryParams takes the window from the clock again.                  *)
NextPage ==
  /\ pc = "more" /\ pc' = "count"
  /\ offset' = offset + limit
  /\ lo' = (IF fixed THEN lo ELSE now - Window)
  /\ hi' = (IF fixed THEN hi ELSE now)
  /\ UNCHANGED <<table, clickhouse, op, order, fixed, limit, total, got, parts, history>>

-----------------------------------------------------------------------------
(* Mutant: the stream keeps the EndTime of its request. *)
StreamTickSameEnd ==
  /\ pc = "wait" /\ pc' = "count"
  /\ UNCHANGED <<table, clickhouse, request, total, got, parts, history>>

(* StreamLogs asks again at each tick, with the same start and a new end,   *)
(* for the newest rows from offset 0, until the client leaves.              *)
StreamTick ==
  /\ pc = "wait" /\ pc' = "count"
  /\ hi' = now
  /\ UNCHANGED <<table, clickhouse, op, order, fixed, lo, limit, offset, total, got,
                 parts, history>>

StreamLeave ==
  /\ pc = "wait" /\ pc' = "done"
  /\ UNCHANGED <<table, clickhouse, request, total, got, parts, history>>

-----------------------------------------------------------------------------
(* GetStatsFull: five queries one after the other.                         *)
Latest == IF rows = <<>> THEN 0
          ELSE rows[CHOOSE r \in Rows : \A q \in Rows : rows[q] <= rows[r]]

(* The levels and the clusters count every recent row; of the namespaces    *)
(* only the largest are asked for, which hold a row each at least.          *)
Groups(n) ==
  (IF n = 4 THEN AtMost(NamespaceLimit, Cardinality(Recent)) ELSE Cardinality(Recent))
    .. Cardinality(Recent)

(* Mutant: the total leaves out the rows of the second that runs. *)
StatsQueryPast(n) ==
  CASE n = 1 -> {Cardinality({r \in Rows : rows[r] < now})}
    [] n = 2 -> {Latest}
    [] OTHER -> Groups(n)

(* What the queries can return: a number, or the sum of a map's counts. *)
StatsQuery(n) ==
  CASE n = 1 -> {Len(rows)}
    [] n = 2 -> {Latest}
    [] OTHER -> Groups(n)

(* No error of Scan is looked at.  An outage under the first two leaves     *)
(* zeros, and so does a driver that puts no UInt64 count into an int64.     *)
LeavesZero(n) == IF up THEN n # 2 ELSE n <= 2

StatsRead ==
  /\ pc = "stats"
  /\ LET n == Len(parts) + 1 IN
     \/ up /\ \E x \in StatsQuery(n) : parts' = Append(parts, x)
     \/ LeavesZero(n) /\ parts' = Append(parts, 0)
  /\ pc' = IF Len(parts') = 5 THEN "done" ELSE "stats"
  /\ UNCHANGED <<table, clickhouse, request, total, got, history>>

(* The error of Query is not looked at either: the rows of the last three   *)
(* are nil then, and the handler panics without an answer.                  *)
StatsPanic ==
  /\ pc = "stats" /\ ~up /\ Len(parts) >= 2
  /\ pc' = "panicked"
  /\ UNCHANGED <<table, clickhouse, request, total, got, parts, history>>

-----------------------------------------------------------------------------
(* What happens after the end of the session is nobody's concern. *)
Environment ==
  /\ pc \notin {"done", "failed", "panicked"}
  /\ Arrive \/ Pass \/ Outage \/ Recover

Handler ==
  \/ Count \/ QueryFails \/ Fetch \/ FetchCut \/ QueryCancelled
  \/ StreamTick
  \/ StatsRead \/ StatsPanic

Client ==
  \/ OpenPage \/ OpenRecent \/ OpenQuery \/ OpenValues \/ OpenStream \/ OpenStats
  \/ NextPage \/ StreamLeave

Next == Environment \/ Handler \/ Client

Spec == Init /\ [][Next]_vars

(* Handlers run, their queries return, the ticker ticks. *)
FairSpec == Spec /\ WF_vars(Handler)

-----------------------------------------------------------------------------
(* Properties *)

Unique(r) == \A q \in Rows \ {r} : Key(q) # Key(r)

(* Rows that have left the window since the first request. *)
Expired == {r \in Rows : span[1] <= rows[r] /\ rows[r] < lo}

(* Offsets into a table that grows, and a window that moves: a client that  *)
(* pages to the end, by whatever column, gets every row that was there when *)
(* it began, has a place of its own in that order and is still in the       *)
(* window.  What can cost it a row is only                                  *)
(*  - rows that came between the count and the page of the last request,    *)
(*    which push a row past a page that has_more calls the last one;        *)
(*  - a row before it that left the window between two pages and pulled it  *)
(*    in front of the offset, which newest first no row can do;             *)
(*  - an answer that was cut short.                                         *)
PagingSkipsNothing ==
  op = "page" /\ pc = "done" /\ ~late /\ ~cut
    => \A r \in 1 .. known :
         /\ Unique(r)
         /\ span[1] <= rows[r] /\ rows[r] <= span[2]
         /\ lo <= rows[r]
         /\ \A q \in Expired : ~Precedes(q, r)
         => r \in seen

(* An answer holds as many rows as its total promises for its page: it is   *)
(* shorter only when it was cut, and nothing in it says so.                 *)
PageFillsTotal ==
  op \in {"page", "recent"} /\ pc \in {"more", "done"} /\ ~cut
    => got = limit \/ offset + got >= total

(* The stream shows the newest StreamLimit rows at each tick, whatever was  *)
(* shown before.  When it stays open, ClickHouse stays up and no more rows  *)
(* come (MaxRows sees to that), the only rows it has missed are those that  *)
(* many others at least as new have overtaken.                              *)
Overtaken(r) == Cardinality({q \in Rows \ {r} : rows[q] >= rows[r]}) >= StreamLimit
Missed == {r \in Rows : rows[r] >= lo /\ r \notin seen /\ ~Overtaken(r)}
StreamCatchesUp ==
  <>[](op = "stream" /\ pc # "done" /\ up) => <>[](Missed = {})

(* The five queries of a stats answer see five tables.  A total below what  *)
(* the last hour's levels, namespaces or clusters add up to means that rows *)
(* came in between, or that an error of the first query was taken for a     *)
(* zero.                                                                    *)
StatsTotalExplained ==
  op = "stats" /\ pc = "done" /\ (\E n \in 3 .. 5 : parts[1] < parts[n])
    => Len(rows) > known \/ parts[1] = 0

=============================================================================
