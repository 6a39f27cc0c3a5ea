--------------------------- MODULE LogIngestProofs ---------------------------
(***************************************************************************)
(* Proofs about LogIngest, for every number of chunks, lines, retries,     *)
(* outages and crashes.                                                    *)
(***************************************************************************)
EXTENDS LogIngest, FiniteSetTheorems, TLAPS

(* All of TypeOK but the switches, which are apart for the provers' sake,   *)
(* and the bound of the rows, which is a matter of counting.                *)
Switches ==
  /\ up \in BOOLEAN /\ chClient \in BOOLEAN
  /\ authorized \in BOOLEAN /\ gzip \in BOOLEAN

Types ==
  /\ outages \in 0 .. MaxOutages
  /\ crashes \in 0 .. MaxCrashes
  /\ tokens \in 0 .. Burst
  /\ tries \in [Chunks -> 0 .. RetryLimit + 1]
  /\ fate \in [Chunks -> {"queued", "posted", "delivered", "dropped"}]
  /\ gone \subseteq Posts
  /\ pc \in [Posts -> {"none", "auth", "limit", "read", "prepare", "send",
                       "reply", "done", "killed"}]
  /\ status \in [Posts -> {0, 200, 400, 401, 429}]
  /\ lost \in [Posts -> SUBSET BatchLines]
  /\ outcome \in [Posts -> Outcomes]

(* A handler has no status before it answers, 200 goes with an insert that  *)
(* was tried or left out for a reason, and lines are cut off unnoticed only *)
(* from gzip bodies.                                                        *)
Undecided == {"none", "auth", "limit", "read", "prepare", "send"}
PostInv ==
  \A p \in Posts :
    /\ p[2] > tries[p[1]] => pc[p] = "none"
    /\ pc[p] \in Undecided => outcome[p] = "none" /\ status[p] = 0
    /\ outcome[p] # "none" <=> status[p] = 200
    /\ lost[p] # {} => gzip

FateInv ==
  \A c \in Chunks :
    /\ fate[c] = "queued" => tries[c] <= RetryLimit
    /\ fate[c] \in {"posted", "delivered"} => tries[c] >= 1
    /\ fate[c] = "delivered" => pc[Current(c)] = "done" /\ status[Current(c)] = 200

(* Fluent Bit posts again only what it has given up or been refused.        *)
Settled(p) ==
  \/ p[2] < tries[p[1]]
  \/ p[2] = tries[p[1]] /\ fate[p[1]] \in {"queued", "dropped"}
RetryInv ==
  \A p \in Posts :
    Settled(p) => p \in gone \/ (pc[p] = "done" /\ status[p] # 200)

Protocol == Types /\ PostInv /\ FateInv /\ RetryInv

LEMMA PostsAreTries ==
  ASSUME NEW p \in Posts
  PROVE  /\ p = <<p[1], p[2]>> /\ p[1] \in Chunks /\ p[2] \in 1 .. RetryLimit + 1
         /\ ChunkOf(p) = p[1]
BY DEF Posts, ChunkOf

LEMMA TriesArePosts ==
  ASSUME NEW c \in Chunks, NEW n \in 1 .. RetryLimit + 1
  PROVE  <<c, n>> \in Posts /\ <<c, n>>[1] = c /\ <<c, n>>[2] = n
BY DEF Posts

LEMMA ProtocolInvariant == Spec => []Protocol
<1> USE IngestAssumption DEF Undecided
<1>1. Init => Protocol
  <2> SUFFICES ASSUME Init PROVE Protocol
    OBVIOUS
  <2>1. Types BY DEF Init, Types, Outcomes
  <2>2. PostInv BY DEF Init, PostInv
  <2>3. FateInv BY DEF Init, FateInv
  <2>4. RetryInv BY PostsAreTries DEF Init, RetryInv, Settled
  <2> QED BY <2>1, <2>2, <2>3, <2>4 DEF Protocol
<1>2. Protocol /\ [Next]_vars => Protocol'
  <2> SUFFICES ASSUME Protocol, [Next]_vars PROVE Protocol'
    OBVIOUS
  <2> USE DEF Protocol, clickhouse, setup, fluentBit, handler
  <2>1. CASE Outage \/ Recover \/ Refill \/ UNCHANGED vars
    <3>1. Types'
      <4>1. ASSUME Outage PROVE Types' BY <4>1 DEF Outage, Types
      <4>2. ASSUME Recover PROVE Types' BY <4>2 DEF Recover, Types
      <4>3. ASSUME Refill PROVE Types' BY <4>3 DEF Refill, Types
      <4>4. ASSUME UNCHANGED vars PROVE Types' BY <4>4 DEF vars, Types
      <4> QED BY <2>1, <4>1, <4>2, <4>3, <4>4
    <3>2. UNCHANGED <<tries, fate, gone, pc, status, lost, outcome, gzip>>
      BY <2>1 DEF Outage, Recover, Refill, vars
    <3> QED BY <3>1, <3>2 DEF PostInv, FateInv, RetryInv, Settled, Current
  <2>2. CASE Crash
    <3>1. Types' BY <2>2 DEF Crash, Types
    <3>2. UNCHANGED <<tries, fate, gone, status, lost, outcome, gzip>> BY <2>2 DEF Crash
    <3>3. /\ \A p \in Posts : pc[p] = "done" => pc'[p] = "done"
          /\ \A p \in Posts : pc[p] = "none" => pc'[p] = "none"
          /\ \A p \in Posts : pc'[p] \in Undecided => pc[p] = "none"
      BY <2>2 DEF Crash, Types
    <3>4. PostInv' BY <3>2, <3>3 DEF PostInv
    <3>5. FateInv'
      <4> SUFFICES ASSUME NEW c \in Chunks, fate[c] = "delivered"
                   PROVE  pc'[Current(c)] = "done"
        BY <3>2 DEF FateInv, Current
      <4>1. Current(c) \in Posts
        BY TriesArePosts DEF FateInv, Types, Current
      <4> QED BY <3>3, <4>1 DEF FateInv
    <3>6. RetryInv' BY <3>2, <3>3 DEF RetryInv, Settled
    <3> QED BY <3>1, <3>4, <3>5, <3>6
  <2>3. ASSUME NEW c \in Chunks, Post(c) PROVE Protocol'
    <3> DEFINE q == <<c, tries[c] + 1>>
    <3>1. /\ fate[c] = "queued" /\ tries[c] \in 0 .. RetryLimit
          /\ tries' = [tries EXCEPT ![c] = tries[c] + 1]
          /\ fate' = [fate EXCEPT ![c] = "posted"]
          /\ pc' = [pc EXCEPT ![q] = "auth"]
          /\ UNCHANGED <<gone, status, lost, outcome, gzip>>
      BY <2>3 DEF Post, FateInv, Types
    <3>2. q \in Posts /\ q[1] = c /\ q[2] = tries[c] + 1
      BY <3>1, TriesArePosts
    <3> HIDE DEF q
    <3>3. Types'
      <4>1. tries' \in [Chunks -> 0 .. RetryLimit + 1] BY <3>1 DEF Types
      <4>2. UNCHANGED <<outages, crashes, tokens>> BY <2>3 DEF Post
      <4> QED BY <3>1, <3>2, <4>1, <4>2 DEF Types
    <3>4. pc[q] = "none" /\ outcome[q] = "none" /\ status[q] = 0
      BY <3>1, <3>2 DEF PostInv, Types
    <3>5. PostInv'
      <4> SUFFICES ASSUME NEW p \in Posts
                   PROVE  /\ p[2] > tries'[p[1]] => pc'[p] = "none"
                          /\ pc'[p] \in Undecided => outcome[p] = "none" /\ status[p] = 0
        BY <3>1 DEF PostInv
      <4>1. CASE p = q BY <3>1, <3>2, <3>4, <4>1 DEF Types
      <4>2. CASE p # q
        <5>1. pc'[p] = pc[p] BY <3>1, <4>2 DEF Types
        <5>2. p[1] \in Chunks /\ p[2] \in Nat BY PostsAreTries
        <5>3. p[2] > tries'[p[1]] => p[2] > tries[p[1]]
          BY <3>1, <5>2 DEF Types
        <5> QED BY <5>1, <5>3 DEF PostInv
      <4> QED BY <4>1, <4>2
    <3>6. FateInv'
      <4> SUFFICES ASSUME NEW d \in Chunks
                   PROVE  /\ fate'[d] = "queued" => tries'[d] <= RetryLimit
                          /\ fate'[d] \in {"posted", "delivered"} => tries'[d] >= 1
                          /\ fate'[d] = "delivered" =>
                               pc'[Current(d)'] = "done" /\ status'[Current(d)'] = 200
        BY DEF FateInv
      <4>1. CASE d = c BY <3>1, <4>1 DEF Types
      <4>2. CASE d # c
        <5>1. tries'[d] = tries[d] /\ fate'[d] = fate[d] BY <3>1, <4>2 DEF Types
        <5>2. Current(d)' = Current(d) BY <5>1 DEF Current
        <5>3. Current(d) # q BY <4>2 DEF Current, q
        <5> QED BY <3>1, <5>1, <5>2, <5>3 DEF FateInv, Types
      <4> QED BY <4>1, <4>2
    <3>7. RetryInv'
      <4> SUFFICES ASSUME NEW p \in Posts, Settled(p)'
                   PROVE  p \in gone \/ (pc'[p] = "done" /\ status[p] # 200)
        BY <3>1 DEF RetryInv
      <4>1. p[1] \in Chunks /\ p[2] \in Nat BY PostsAreTries
      <4>2. Settled(p)
        BY <3>1, <4>1 DEF Settled, Types
      <4>3. p # q
        BY <3>1, <3>2, <4>1 DEF Settled, Types
      <4> QED BY <3>1, <4>2, <4>3 DEF RetryInv, Types
    <3> QED BY <3>3, <3>5, <3>6, <3>7
  <2>4. ASSUME NEW c \in Chunks, GetAnswer(c) PROVE Protocol'
    <3>1. /\ fate[c] = "posted" /\ tries[c] \in 1 .. RetryLimit + 1
          /\ pc[Current(c)] = "done"
          /\ UNCHANGED <<tries, gone, pc, status, lost, outcome, gzip, outages, crashes,
                         tokens>>
      BY <2>4 DEF GetAnswer, FateInv, Types
    <3>2. \/ status[Current(c)] = 200 /\ fate' = [fate EXCEPT ![c] = "delivered"]
          \/ /\ status[Current(c)] # 200
             /\ \/ tries[c] <= RetryLimit /\ fate' = [fate EXCEPT ![c] = "queued"]
                \/ fate' = [fate EXCEPT ![c] = "dropped"]
      BY <2>4 DEF GetAnswer, RetryOrDrop
    <3>3. Types' BY <3>1, <3>2 DEF Types
    <3>4. PostInv' BY <3>1 DEF PostInv
    <3>5. FateInv' BY <3>1, <3>2 DEF FateInv, Current, Types
    <3>6. RetryInv'
      <4> SUFFICES ASSUME NEW p \in Posts, Settled(p)', ~Settled(p)
                   PROVE  pc[p] = "done" /\ status[p] # 200
        BY <3>1 DEF RetryInv
      <4>1. p = <<p[1], p[2]>> /\ p[1] \in Chunks BY PostsAreTries
      <4>2. p[1] = c /\ p[2] = tries[c] /\ fate'[c] \in {"queued", "dropped"}
        BY <3>1, <3>2, <4>1 DEF Settled, Types
      <4>3. p = Current(c) BY <4>1, <4>2 DEF Current
      <4> QED BY <3>1, <3>2, <4>2, <4>3 DEF Types
    <3> QED BY <3>3, <3>4, <3>5, <3>6
  <2>5. ASSUME NEW c \in Chunks, GiveUp(c) PROVE Protocol'
    <3>1. /\ fate[c] = "posted" /\ tries[c] \in 1 .. RetryLimit + 1
          /\ gone' = gone \union {Current(c)}
          /\ UNCHANGED <<tries, pc, status, lost, outcome, gzip, outages, crashes,
                         tokens>>
      BY <2>5 DEF GiveUp, FateInv, Types
    <3>2. \/ tries[c] <= RetryLimit /\ fate' = [fate EXCEPT ![c] = "queued"]
          \/ fate' = [fate EXCEPT ![c] = "dropped"]
      BY <2>5 DEF GiveUp, RetryOrDrop
    <3>3. Types'
      <4>1. Current(c) \in Posts BY <3>1, TriesArePosts DEF Current
      <4> QED BY <3>1, <3>2, <4>1 DEF Types
    <3>4. PostInv' BY <3>1 DEF PostInv
    <3>5. FateInv' BY <3>1, <3>2 DEF FateInv, Current, Types
    <3>6. RetryInv'
      <4> SUFFICES ASSUME NEW p \in Posts, Settled(p)', ~Settled(p)
                   PROVE  p \in gone'
        BY <3>1 DEF RetryInv
      <4>1. p = <<p[1], p[2]>> /\ p[1] \in Chunks BY PostsAreTries
      <4>2. p[1] = c /\ p[2] = tries[c]
        BY <3>1, <3>2, <4>1 DEF Settled, Types
      <4> QED BY <3>1, <4>1, <4>2 DEF Current
    <3> QED BY <3>3, <3>4, <3>5, <3>6
  <2>6. ASSUME NEW p \in Posts, Handle(p) PROVE Protocol'
    <3>1. /\ pc[p] \notin {"none", "done", "killed"}
          /\ UNCHANGED <<outages, crashes, tries, fate, gone>>
      BY <2>6 DEF Handle, Authorize, Limit, ReadBody, PrepareBatch, SendBatch, Reply
    <3>2. tokens' \in 0 .. Burst
      <4>1. tokens' = tokens \/ (tokens > 0 /\ tokens' = tokens - 1)
        BY <2>6 DEF Handle, Authorize, Limit, ReadBody, PrepareBatch, SendBatch, Reply
      <4> QED BY <4>1 DEF Types
    <3>3. \/ /\ pc[p] \in Undecided
             /\ \E there \in Undecided \ {"none"} : pc' = [pc EXCEPT ![p] = there]
             /\ UNCHANGED <<status, outcome>>
          \/ /\ pc[p] \in Undecided /\ pc' = [pc EXCEPT ![p] = "reply"]
             /\ \E code \in {400, 401, 429} : status' = [status EXCEPT ![p] = code]
             /\ UNCHANGED outcome
          \/ /\ pc[p] \in Undecided /\ pc' = [pc EXCEPT ![p] = "reply"]
             /\ status' = [status EXCEPT ![p] = 200]
             /\ \E what \in Outcomes \ {"none"} : outcome' = [outcome EXCEPT ![p] = what]
          \/ /\ pc[p] = "reply" /\ pc' = [pc EXCEPT ![p] = "done"]
             /\ UNCHANGED <<status, outcome>>
      <4>1. CASE Authorize(p) BY <4>1 DEF Authorize, Goto, Answer
      <4>2. CASE Limit(p) BY <4>2 DEF Limit, Goto, Answer
      <4>3. CASE ReadBody(p)
        <5>1. ASSUME NEW came, Take(p, came)
              PROVE  \/ Goto(p, "prepare") /\ UNCHANGED <<status, outcome>>
                     \/ outcome' = [outcome EXCEPT ![p] = "skipped"] /\ Answer(p, 200)
          BY <5>1, Zenon DEF Take
        <5>2. /\ pc[p] = "read"
              /\ \/ Answer(p, 400) /\ UNCHANGED outcome
                 \/ Goto(p, "prepare") /\ UNCHANGED <<status, outcome>>
                 \/ outcome' = [outcome EXCEPT ![p] = "skipped"] /\ Answer(p, 200)
          BY <4>3, <5>1, Zenon DEF ReadBody
        <5> QED BY <5>2 DEF Goto, Answer, Outcomes
      <4>4. CASE PrepareBatch(p) BY <4>4 DEF PrepareBatch, Goto, Answer, Outcomes
      <4>5. CASE SendBatch(p) BY <4>5 DEF SendBatch, SendOutcome, Insert, Goto, Answer, Outcomes
      <4>6. CASE Reply(p) BY <4>6 DEF Reply, Goto
      <4> QED BY <2>6, <4>1, <4>2, <4>3, <4>4, <4>5, <4>6 DEF Handle
    <3>8. /\ lost' \in [Posts -> SUBSET BatchLines]
          /\ \A q \in Posts : lost'[q] # {} => gzip'
      <4>1. lost \in [Posts -> SUBSET BatchLines] /\ (\A q \in Posts : lost[q] # {} => gzip)
        BY DEF Types, PostInv
      <4>2. UNCHANGED gzip
        BY <2>6 DEF Handle, Authorize, Limit, ReadBody, PrepareBatch, SendBatch, Reply
      <4>3. CASE UNCHANGED lost
        BY <4>1, <4>2, <4>3
      <4>4. ASSUME NEW came \in SUBSET Lines, came = Lines \/ gzip,
                   lost' = [lost EXCEPT ![p] = BatchLines \ came]
            PROVE  /\ lost' \in [Posts -> SUBSET BatchLines]
                   /\ \A q \in Posts : lost'[q] # {} => gzip'
        <5>1. lost'[p] = BatchLines \ came /\ \A q \in Posts \ {p} : lost'[q] = lost[q]
          BY <4>1, <4>4, Zenon
        <5>2. came = Lines => BatchLines \ came = {}
          BY DEF BatchLines, AcceptedLines
        <5>3. \A q \in Posts : lost'[q] # {} => gzip'
          BY <4>1, <4>2, <4>4, <5>1, <5>2
        <5> QED BY <4>1, <4>4, <5>3, Zenon
      <4>5. UNCHANGED lost \/ \E came \in SUBSET Lines :
              (came = Lines \/ gzip) /\ lost' = [lost EXCEPT ![p] = BatchLines \ came]
        BY <2>6, Zenon DEF Handle, Authorize, Limit, ReadBody, Take, PrepareBatch, SendBatch, Reply
      <4> QED BY <4>3, <4>4, <4>5
    <3>4. Types' BY <3>1, <3>2, <3>3, <3>8 DEF Types
    <3>5. PostInv' BY <3>1, <3>3, <3>8 DEF PostInv, Types
    <3>6. FateInv'
      <4> SUFFICES ASSUME NEW c \in Chunks, fate[c] = "delivered"
                   PROVE  pc'[Current(c)] = "done" /\ status'[Current(c)] = 200
        BY <3>1 DEF FateInv, Current
      <4>1. pc[Current(c)] = "done" /\ status[Current(c)] = 200 BY DEF FateInv
      <4>2. Current(c) \in Posts /\ Current(c) # p
        BY <3>1, <4>1, TriesArePosts DEF FateInv, Types, Current
      <4> QED BY <3>3, <4>1, <4>2 DEF Types
    <3>7. RetryInv'
      <4> SUFFICES ASSUME NEW q \in Posts, Settled(q), q \notin gone
                   PROVE  pc'[q] = "done" /\ status'[q] # 200
        BY <3>1 DEF RetryInv, Settled
      <4>1. q # p BY <3>1 DEF RetryInv
      <4> QED BY <3>3, <4>1 DEF RetryInv, Types
    <3> QED BY <3>4, <3>5, <3>6, <3>7
  <2> QED BY <2>1, <2>2, <2>3, <2>4, <2>5, <2>6 DEF Next, FluentBit
<1> QED BY <1>1, <1>2, PTL DEF Spec

(* The switches are what they are called. *)
LEMMA SwitchesAreBoolean == Spec => []Switches
<1> USE DEF Switches, clickhouse, setup
<1>1. Init => Switches
  BY DEF Init
<1>2. Switches /\ [Next]_vars => Switches'
  <2> SUFFICES ASSUME Switches, [Next]_vars PROVE Switches'
    OBVIOUS
  <2>1. CASE Outage BY <2>1 DEF Outage
  <2>2. CASE Recover BY <2>2 DEF Recover
  <2>3. CASE Refill BY <2>3 DEF Refill
  <2>4. CASE Crash BY <2>4 DEF Crash
  <2>5. ASSUME NEW c \in Chunks, FluentBit(c) PROVE Switches'
    BY <2>5 DEF FluentBit, Post, GetAnswer, GiveUp
  <2>6. ASSUME NEW p \in Posts, Handle(p) PROVE Switches'
    BY <2>6 DEF Handle, Authorize, Limit, ReadBody, PrepareBatch, SendBatch, Reply
  <2>7. CASE UNCHANGED vars BY <2>7 DEF vars
  <2> QED BY <2>1, <2>2, <2>3, <2>4, <2>5, <2>6, <2>7 DEF Next
<1> QED BY <1>1, <1>2, PTL DEF Spec

-----------------------------------------------------------------------------
(* The posts of a chunk whose rows may be in the table. *)
Stored(p) == outcome[p] \in {"stored", "in doubt"}
Landed(c) == {p \in Posts : p[1] = c /\ (Stored(p) \/ pc[p] = "killed")}

RowsInv ==
  /\ rows \in [Chunks \X Lines -> Nat]
  /\ \A c \in Chunks, l \in Lines : rows[<<c, l>>] <= Cardinality(Landed(c))
  /\ \A p \in Posts, l \in BatchLines :
       Stored(p) /\ l \notin lost[p] => rows[<<p[1], l>>] >= 1

LEMMA PostsOfChunk ==
  ASSUME NEW c \in Chunks
  PROVE  /\ IsFiniteSet({p \in Posts : p[1] = c})
         /\ Cardinality({p \in Posts : p[1] = c}) = RetryLimit + 1
<1>1. {p \in Posts : p[1] = c} = {c} \X (1 .. RetryLimit + 1)
  BY DEF Posts
<1>2. IsFiniteSet({c}) /\ Cardinality({c}) = 1
  BY FS_Singleton
<1>3. /\ IsFiniteSet(1 .. RetryLimit + 1)
      /\ Cardinality(1 .. RetryLimit + 1) = RetryLimit + 1
  BY FS_Interval, IngestAssumption
<1>4. /\ IsFiniteSet({c} \X (1 .. RetryLimit + 1))
      /\ Cardinality({c} \X (1 .. RetryLimit + 1))
           = Cardinality({c}) * Cardinality(1 .. RetryLimit + 1)
  BY <1>2, <1>3, FS_Product, Zenon
<1>5. Cardinality({c}) * Cardinality(1 .. RetryLimit + 1) = RetryLimit + 1
  BY <1>2, <1>3, IngestAssumption
<1> QED BY <1>1, <1>4, <1>5

(* Counting within the posts of a chunk. *)
LEMMA CountPosts ==
  ASSUME NEW c \in Chunks, NEW A \in SUBSET {p \in Posts : p[1] = c}
  PROVE  /\ IsFiniteSet(A) /\ Cardinality(A) \in Nat
         /\ Cardinality(A) <= RetryLimit + 1
<1>1. IsFiniteSet(A) /\ Cardinality(A) <= Cardinality({p \in Posts : p[1] = c})
  BY PostsOfChunk, FS_Subset
<1>2. Cardinality(A) \in Nat
  BY <1>1, FS_CardinalityType
<1> QED BY <1>1, <1>2, PostsOfChunk

LEMMA DisjointPosts ==
  ASSUME NEW c \in Chunks, NEW D \in SUBSET {p \in Posts : p[1] = c},
         NEW A \in SUBSET D, NEW B \in SUBSET D, A \cap B = {}
  PROVE  Cardinality(A) + Cardinality(B) <= Cardinality(D)
<1>1. IsFiniteSet(A) /\ IsFiniteSet(B) /\ IsFiniteSet(D)
      /\ Cardinality(A) \in Nat /\ Cardinality(B) \in Nat /\ Cardinality(D) \in Nat
  BY CountPosts
<1>2. Cardinality(A \cup B) = Cardinality(A) + Cardinality(B) - Cardinality(A \cap B)
  BY <1>1, FS_Union
<1>3. Cardinality(A \cap B) = 0
  BY FS_EmptySet
<1>4. Cardinality(A \cup B) <= Cardinality(D)
  BY <1>1, FS_Subset
<1> QED BY <1>1, <1>2, <1>3, <1>4

(* What rows a post adds is matched by a post that has landed: a batch is   *)
(* stored once by its handler, or once when the process dies under it.      *)
LEMMA RowsInvariant == Spec => []RowsInv
<1> USE IngestAssumption
<1>1. Init => RowsInv
  <2> SUFFICES ASSUME Init PROVE RowsInv
    OBVIOUS
  <2>1. rows = [e \in Chunks \X Lines |-> 0] /\ \A p \in Posts : outcome[p] = "none"
    BY DEF Init
  <2>2. \A c \in Chunks, l \in Lines : rows[<<c, l>>] <= Cardinality(Landed(c))
    <3> SUFFICES ASSUME NEW c \in Chunks, NEW l \in Lines
                 PROVE  rows[<<c, l>>] <= Cardinality(Landed(c))
      OBVIOUS
    <3>1. Cardinality(Landed(c)) \in Nat BY CountPosts DEF Landed
    <3> QED BY <2>1, <3>1
  <2> QED BY <2>1, <2>2 DEF RowsInv, Stored
<1>2. RowsInv /\ Protocol /\ Protocol' /\ [Next]_vars => RowsInv'
  <2> SUFFICES ASSUME RowsInv, Protocol, Protocol', [Next]_vars PROVE RowsInv'
    OBVIOUS
  <2> USE DEF clickhouse, setup, fluentBit, handler
  <2>0. \A c \in Chunks : /\ Landed(c) \in SUBSET {p \in Posts : p[1] = c}
                         /\ Landed(c)' \in SUBSET {p \in Posts : p[1] = c}
    BY DEF Landed
  <2>1. ASSUME UNCHANGED rows,
               \A p \in Posts : Stored(p)' <=> Stored(p),
               \A p \in Posts : Stored(p) => lost'[p] = lost[p],
               \A p \in Posts : pc[p] = "killed" => pc'[p] = "killed"
        PROVE  RowsInv'
    <3>1. \A c \in Chunks : Cardinality(Landed(c)) <= Cardinality(Landed(c)')
      <4> SUFFICES ASSUME NEW c \in Chunks
                   PROVE  Cardinality(Landed(c)) <= Cardinality(Landed(c)')
        OBVIOUS
      <4>1. Landed(c) \subseteq Landed(c)' BY <2>1 DEF Landed
      <4>2. IsFiniteSet(Landed(c)') BY <2>0, CountPosts
      <4> QED BY <4>1, <4>2, FS_Subset
    <3>2. \A c \in Chunks : /\ Cardinality(Landed(c)) \in Nat
                           /\ Cardinality(Landed(c)') \in Nat
      BY <2>0, CountPosts
    <3> QED BY <2>1, <3>1, <3>2 DEF RowsInv
  <2>2. CASE Outage \/ Recover \/ Refill \/ UNCHANGED vars
    <3>1. UNCHANGED <<rows, pc, lost, outcome>>
      BY <2>2 DEF Outage, Recover, Refill, vars
    <3> QED BY <2>1, <3>1 DEF Stored
  <2>3. ASSUME NEW c \in Chunks, FluentBit(c) PROVE RowsInv'
    <3>1. UNCHANGED <<rows, lost, outcome>>
      BY <2>3 DEF FluentBit, Post, GetAnswer, GiveUp
    <3>2. ASSUME NEW p \in Posts, pc[p] = "killed" PROVE pc'[p] = "killed"
      <4>1. CASE Post(c)
        <5> DEFINE q == <<c, tries[c] + 1>>
        <5>1. pc' = [pc EXCEPT ![q] = "auth"] /\ q \in Posts
          BY <4>1, TriesArePosts DEF Post, Protocol, FateInv, Types
        <5>2. q[1] = c /\ q[2] > tries[c]
          BY DEF Protocol, Types
        <5>3. pc[q] = "none"
          BY <5>1, <5>2 DEF Protocol, PostInv
        <5> HIDE DEF q
        <5> QED BY <3>2, <5>1, <5>3 DEF Protocol, Types
      <4>2. CASE GetAnswer(c) \/ GiveUp(c)
        BY <3>2, <4>2 DEF GetAnswer, GiveUp
      <4> QED BY <2>3, <4>1, <4>2 DEF FluentBit
    <3> QED BY <2>1, <3>1, <3>2 DEF Stored
  <2>4. ASSUME NEW p \in Posts, Authorize(p) \/ Limit(p) \/ ReadBody(p) \/ PrepareBatch(p)
                                 \/ Reply(p)
        PROVE  RowsInv'
    <3>1. /\ UNCHANGED rows /\ pc[p] # "killed"
          /\ \E there : pc' = [pc EXCEPT ![p] = there]
      BY <2>4 DEF Authorize, Limit, ReadBody, Take, PrepareBatch, Reply, Goto, Answer
    <3>2. \/ UNCHANGED outcome
          \/ /\ pc[p] \in Undecided
             /\ \E what \in {"skipped", "unprepared"} : outcome' = [outcome EXCEPT ![p] = what]
      BY <2>4 DEF Authorize, Limit, ReadBody, Take, PrepareBatch, Reply, Undecided
    <3>5. \A q \in Posts : Stored(q) => lost'[q] = lost[q]
      <4>1. CASE UNCHANGED lost BY <4>1
      <4>2. CASE ~UNCHANGED lost
        <5>1. pc[p] = "read" /\ \E cut : lost' = [lost EXCEPT ![p] = cut]
          BY <2>4, <4>2, Zenon DEF Authorize, Limit, ReadBody, Take, PrepareBatch, Reply
        <5>2. ~Stored(p)
          BY <5>1 DEF Stored, Protocol, PostInv, Undecided
        <5> QED BY <5>1, <5>2 DEF Protocol, Types
      <4> QED BY <4>1, <4>2
    <3>3. \A q \in Posts : pc[q] = "killed" => pc'[q] = "killed"
      BY <3>1 DEF Protocol, Types
    <3>4. \A q \in Posts : Stored(q)' <=> Stored(q)
      <4>1. CASE UNCHANGED outcome BY <4>1 DEF Stored
      <4>2. ASSUME pc[p] \in Undecided, NEW what \in {"skipped", "unprepared"},
                   outcome' = [outcome EXCEPT ![p] = what]
            PROVE  \A q \in Posts : Stored(q)' <=> Stored(q)
        <5>1. ~Stored(p) BY <4>2 DEF Stored, Protocol, PostInv
        <5>2. outcome'[p] = what /\ \A q \in Posts \ {p} : outcome'[q] = outcome[q]
          BY <4>2 DEF Protocol, Types
        <5>3. ~Stored(p)' BY <4>2, <5>2 DEF Stored
        <5>4. \A q \in Posts \ {p} : Stored(q)' <=> Stored(q)
          BY <5>2 DEF Stored
        <5> QED BY <5>1, <5>3, <5>4
      <4> QED BY <3>2, <4>1, <4>2
    <3> QED BY <2>1, <3>1, <3>3, <3>4, <3>5
  (* The rows of a set of posts A that lands all at once. *)
  <2>5. ASSUME NEW A \in SUBSET Posts, rows' = StoredBy(A), UNCHANGED lost,
               \A p \in A : ~Stored(p) /\ pc[p] # "killed",
               \A c \in Chunks :
                 Landed(c) \cup {p \in A : ChunkOf(p) = c} \subseteq Landed(c)',
               \A p \in Posts : Stored(p)' => Stored(p) \/ p \in A
        PROVE  RowsInv'
    <3>1. \A c \in Chunks, l \in Lines :
            Adding(A, c, l) \in SUBSET {p \in Posts : p[1] = c}
      BY PostsAreTries DEF Adding
    <3>2. \A c \in Chunks, l \in Lines : Cardinality(Adding(A, c, l)) \in Nat
      BY <3>1, CountPosts
    <3>3. rows' = [e \in Chunks \X Lines |-> rows[e] + Cardinality(Adding(A, e[1], e[2]))]
      BY <2>5, Zenon DEF StoredBy
    <3>4. \A c \in Chunks, l \in Lines :
            Cardinality(Landed(c)) + Cardinality(Adding(A, c, l)) <= Cardinality(Landed(c)')
      <4> SUFFICES ASSUME NEW c \in Chunks, NEW l \in Lines
                   PROVE  Cardinality(Landed(c)) + Cardinality(Adding(A, c, l))
                            <= Cardinality(Landed(c)')
        OBVIOUS
      <4>1. Landed(c) \subseteq Landed(c)' /\ Adding(A, c, l) \subseteq Landed(c)'
        BY <2>5 DEF Adding
      <4>2. Landed(c) \cap Adding(A, c, l) = {}
        BY <2>5 DEF Landed, Adding
      <4> QED BY <2>0, <4>1, <4>2, DisjointPosts
    <3>5. \A c \in Chunks : Cardinality(Landed(c)) \in Nat /\ Cardinality(Landed(c)') \in Nat
      BY <2>0, CountPosts
    <3>6. \A c \in Chunks, l \in Lines :
            /\ rows'[<<c, l>>] = rows[<<c, l>>] + Cardinality(Adding(A, c, l))
            /\ rows[<<c, l>>] \in Nat
      <4> SUFFICES ASSUME NEW c \in Chunks, NEW l \in Lines
                   PROVE  /\ rows'[<<c, l>>] = rows[<<c, l>>] + Cardinality(Adding(A, c, l))
                          /\ rows[<<c, l>>] \in Nat
        OBVIOUS
      <4>1. <<c, l>> \in Chunks \X Lines /\ <<c, l>>[1] = c /\ <<c, l>>[2] = l
        OBVIOUS
      <4>2. rows[<<c, l>>] \in Nat
        BY <4>1 DEF RowsInv
      <4> QED BY <3>3, <4>1, <4>2
    <3>7. rows' \in [Chunks \X Lines -> Nat]
      <4>1. \A e \in Chunks \X Lines : rows[e] + Cardinality(Adding(A, e[1], e[2])) \in Nat
        BY <3>2 DEF RowsInv
      <4> QED BY <3>3, <4>1
    <3>8. \A c \in Chunks, l \in Lines : rows'[<<c, l>>] <= Cardinality(Landed(c)')
      <4> SUFFICES ASSUME NEW c \in Chunks, NEW l \in Lines
                   PROVE  rows'[<<c, l>>] <= Cardinality(Landed(c)')
        OBVIOUS
      <4> DEFINE k == Cardinality(Adding(A, c, l))
                 m == Cardinality(Landed(c))
                 n == Cardinality(Landed(c)')
      <4>1. k \in Nat /\ m \in Nat /\ n \in Nat /\ m + k <= n
        BY <3>2, <3>4, <3>5
      <4>2. rows[<<c, l>>] \in Nat /\ rows[<<c, l>>] <= m
        BY <3>6 DEF RowsInv
      <4>3. rows'[<<c, l>>] = rows[<<c, l>>] + k
        BY <3>6
      <4> HIDE DEF k, m, n
      <4>4. rows'[<<c, l>>] <= n
        BY <4>1, <4>2, <4>3
      <4> QED BY <4>4 DEF n
    <3>9. \A p \in Posts, l \in BatchLines :
            Stored(p)' /\ l \notin lost'[p] => rows'[<<p[1], l>>] >= 1
      <4> SUFFICES ASSUME NEW p \in Posts, NEW l \in BatchLines, Stored(p)', l \notin lost[p]
                   PROVE  rows'[<<p[1], l>>] >= 1
        BY <2>5
      <4>1. p[1] \in Chunks /\ l \in Lines /\ ChunkOf(p) = p[1]
        BY PostsAreTries DEF BatchLines, AcceptedLines
      <4>2. CASE Stored(p)
        <5>1. rows[<<p[1], l>>] >= 1
          BY <4>2 DEF RowsInv
        <5> QED BY <3>2, <3>6, <4>1, <5>1
      <4>3. CASE p \in A
        <5>1. p \in Adding(A, p[1], l) BY <4>1, <4>3 DEF Adding
        <5>2. IsFiniteSet(Adding(A, p[1], l)) BY <3>1, <4>1, CountPosts
        <5>3. Cardinality(Adding(A, p[1], l)) # 0 BY <5>1, <5>2, FS_EmptySet
        <5> QED BY <3>2, <3>6, <4>1, <5>3
      <4> QED BY <2>5, <4>2, <4>3
    <3> QED BY <3>7, <3>8, <3>9 DEF RowsInv
  <2>6. ASSUME NEW p \in Posts, SendBatch(p) PROVE RowsInv'
    <3>1. /\ pc[p] = "send" /\ pc' = [pc EXCEPT ![p] = "reply"]
          /\ outcome[p] = "none" /\ UNCHANGED lost
      BY <2>6 DEF SendBatch, Answer, Goto, Protocol, PostInv, Undecided
    <3>2. ASSUME NEW what \in {"stored", "in doubt"},
                 outcome' = [outcome EXCEPT ![p] = what], rows' = StoredBy({p})
          PROVE  RowsInv'
      <4>1. \A q \in Posts : Stored(q)' <=> Stored(q) \/ q = p
        <5>1. outcome \in [Posts -> Outcomes]
          BY Zenon DEF Protocol, Types
        <5>2. outcome'[p] = what /\ \A q \in Posts \ {p} : outcome'[q] = outcome[q]
          BY <3>2, <5>1, Zenon
        <5> QED BY <3>2, <5>2 DEF Stored
      <4>2. \A q \in Posts : pc'[q] = "killed" <=> pc[q] = "killed"
        BY <3>1 DEF Protocol, Types
      <4>3. ~Stored(p) /\ pc[p] # "killed"
        BY <3>1 DEF Stored
      <4>4. \A c \in Chunks : Landed(c) \cup {q \in {p} : ChunkOf(q) = c} \subseteq Landed(c)'
        BY <4>1, <4>2, PostsAreTries DEF Landed
      <4> QED BY <2>5, <3>1, <3>2, <4>1, <4>3, <4>4
    <3>3. ASSUME outcome' = [outcome EXCEPT ![p] = "failed"], UNCHANGED rows
          PROVE  RowsInv'
      <4>1. \A q \in Posts : Stored(q)' <=> Stored(q)
        <5>1. /\ outcome'[p] = "failed"
              /\ \A q \in Posts \ {p} : outcome'[q] = outcome[q]
          BY <3>3 DEF Protocol, Types
        <5> QED BY <3>1, <5>1 DEF Stored
      <4>2. \A q \in Posts : pc[q] = "killed" => pc'[q] = "killed"
        BY <3>1 DEF Protocol, Types
      <4> QED BY <2>1, <3>1, <3>3, <4>1, <4>2
    <3> QED BY <2>6, <3>2, <3>3 DEF SendBatch, SendOutcome, Insert
  <2>7. CASE Crash
    <3>1. PICK A \in SUBSET {p \in Posts : pc[p] = "send"} : rows' = StoredBy(A)
      BY <2>7 DEF Crash
    <3>2. /\ UNCHANGED <<lost, outcome>>
          /\ \A p \in Posts : pc'[p] = "killed" <=> pc[p] \notin {"none", "done"}
      BY <2>7 DEF Crash, Protocol, Types
    <3>3. \A p \in A : p \in Posts /\ pc[p] = "send" /\ ~Stored(p)
      BY <3>1 DEF Stored, Protocol, PostInv, Undecided
    <3>4. \A p \in Posts : Stored(p)' <=> Stored(p)
      BY <3>2 DEF Stored
    <3>5. \A c \in Chunks : Landed(c) \cup {p \in A : ChunkOf(p) = c} \subseteq Landed(c)'
      BY <3>2, <3>3, <3>4, PostsAreTries DEF Landed
    <3> QED BY <2>5, <3>1, <3>2, <3>3, <3>4, <3>5
  <2> QED BY <2>2, <2>3, <2>4, <2>6, <2>7 DEF Next, Handle
<1> QED BY <1>1, <1>2, ProtocolInvariant, PTL DEF Spec

(* Every variable keeps to its set of values; no line is stored more often  *)
(* than its chunk is posted.                                                *)
THEOREM IngestTypeOK == Spec => []TypeOK
<1>1. Switches /\ Protocol /\ RowsInv => TypeOK
  <2> SUFFICES ASSUME Switches, Protocol, RowsInv PROVE TypeOK
    OBVIOUS
  <2>1. rows \in [Chunks \X Lines -> 0 .. RetryLimit + 1]
    <3> SUFFICES ASSUME NEW c \in Chunks, NEW l \in Lines
                 PROVE  rows[<<c, l>>] \in 0 .. RetryLimit + 1
      BY DEF RowsInv
    <3>1. /\ Cardinality(Landed(c)) \in Nat
          /\ Cardinality(Landed(c)) <= RetryLimit + 1
      BY CountPosts DEF Landed
    <3> QED BY <3>1, IngestAssumption DEF RowsInv
  <2> QED BY <2>1 DEF TypeOK, Switches, Protocol, Types
<1> QED BY <1>1, SwitchesAreBoolean, ProtocolInvariant, RowsInvariant, PTL

(* A line is stored once, and once more for each post of its chunk that     *)
(* Fluent Bit gave up: for any number of retries, outages and crashes.      *)
THEOREM DuplicatesAreBounded == Spec => []DuplicatesBounded
<1>1. Protocol /\ RowsInv => DuplicatesBounded
  <2> SUFFICES ASSUME Protocol, RowsInv, NEW c \in Chunks, NEW l \in Lines
               PROVE  rows[<<c, l>>] <= 1 + Cardinality({p \in gone : ChunkOf(p) = c})
    BY DEF DuplicatesBounded
  <2> DEFINE G == {p \in gone : ChunkOf(p) = c}
  <2>1. IsFiniteSet(G) /\ Cardinality(G) \in Nat
    BY CountPosts, PostsAreTries DEF Protocol, Types
  <2>2. Landed(c) \subseteq G \cup {Current(c)}
    <3> SUFFICES ASSUME NEW p \in Landed(c), p \notin gone PROVE p = Current(c)
      BY PostsAreTries DEF Landed
    <3>1. p \in Posts /\ p[1] = c /\ p = <<c, p[2]>> /\ p[2] \in Nat
      BY PostsAreTries DEF Landed
    <3>2. pc[p] = "killed" \/ status[p] = 200
      BY <3>1 DEF Landed, Stored, Protocol, PostInv
    <3>3. ~Settled(p)
      BY <3>1, <3>2 DEF Protocol, RetryInv
    <3>4. pc[p] # "none"
      BY <3>1 DEF Landed, Stored, Protocol, PostInv, Undecided
    <3>5. p[2] = tries[c]
      BY <3>1, <3>3, <3>4 DEF Settled, Protocol, PostInv, Types
    <3> QED BY <3>1, <3>5 DEF Current
  <2>3. /\ IsFiniteSet(G \cup {Current(c)})
        /\ Cardinality(G \cup {Current(c)}) <= Cardinality(G) + 1
    <3>1. /\ IsFiniteSet(G \cup {Current(c)})
          /\ Cardinality(G \cup {Current(c)}) =
               IF Current(c) \in G THEN Cardinality(G) ELSE Cardinality(G) + 1
      BY <2>1, FS_AddElement
    <3> HIDE DEF G
    <3> QED BY <2>1, <3>1
  <2>4. Cardinality(Landed(c)) <= Cardinality(G \cup {Current(c)})
    BY <2>2, <2>3, FS_Subset
  <2>5. Cardinality(Landed(c)) \in Nat /\ Cardinality(G \cup {Current(c)}) \in Nat
    BY <2>3, CountPosts, FS_CardinalityType DEF Landed
  <2> QED BY <2>1, <2>3, <2>4, <2>5 DEF RowsInv
<1> QED BY <1>1, ProtocolInvariant, RowsInvariant, PTL

(* A missing line of a delivered chunk was skipped, its insert failed, or   *)
(* it was cut off a gzip body.                                              *)
THEOREM LossHasReason == Spec => []LossExplained
<1>1. Protocol /\ RowsInv => LossExplained
  <2> SUFFICES ASSUME Protocol, RowsInv, NEW c \in Chunks, NEW l \in BatchLines,
                      fate[c] = "delivered", rows[<<c, l>>] = 0
               PROVE  \/ outcome[Current(c)] \in {"skipped", "unprepared", "failed"}
                      \/ gzip /\ l \in lost[Current(c)]
    BY DEF LossExplained
  <2>1. Current(c) \in Posts /\ Current(c)[1] = c /\ status[Current(c)] = 200
    BY TriesArePosts DEF Protocol, FateInv, Types, Current
  <2>2. outcome[Current(c)] \in Outcomes \ {"none"}
    BY <2>1 DEF Protocol, PostInv, Types
  <2>3. ~Stored(Current(c)) \/ l \in lost[Current(c)]
    BY <2>1 DEF RowsInv
  <2>4. l \in lost[Current(c)] => gzip
    BY <2>1 DEF Protocol, PostInv
  <2> QED BY <2>2, <2>3, <2>4 DEF Outcomes, Stored
<1> QED BY <1>1, ProtocolInvariant, RowsInvariant, PTL

=============================================================================
