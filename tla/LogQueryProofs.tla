---------------------------- MODULE LogQueryProofs ---------------------------
(***************************************************************************)
(* Proofs about LogQuery, for tables and windows of any size, any limits   *)
(* of the pages and any number of outages.                                 *)
(***************************************************************************)
EXTENDS LogQuery, FiniteSetTheorems, TLAPS

-----------------------------------------------------------------------------
(* The inductive invariant *)

(* Which requests come to which point, and the windows they read. *)
SessionInv ==
  /\ Window <= now
  /\ pc = "idle" => offset = 0 /\ parts = <<>>
  /\ pc = "more" => op = "page" /\ offset + limit < total
  /\ pc = "wait" => op = "stream"
  /\ pc = "stats" => op = "stats"
  /\ pc \in {"count", "fetch"} => op # "stats"
  /\ pc # "idle" => span[1] <= lo /\ lo + Window <= now /\ span[2] <= hi /\ hi <= now

(* The count can only be overtaken by the rows: the table grows, and the    *)
(* window of a request stands still.                                        *)
CountInv ==
  op \in {"page", "recent"} /\ pc = "fetch" => total <= Cardinality(Matching)

(* The first and the last three numbers of a stats answer, and the table.   *)
StatsInv ==
  op = "stats" =>
    /\ Len(parts) >= 1 => parts[1] = 0 \/ known <= parts[1]
    /\ \A n \in 3 .. Len(parts) : parts[n] <= Len(rows)
    /\ pc = "stats" => Len(parts) < 5
    /\ pc = "done" => Len(parts) = 5

(* The rows before r in the order of the pages, in the widest window of the *)
(* session.                                                                 *)
Before(r) ==
  {q \in Rows : Precedes(q, r) /\ span[1] <= rows[q] /\ rows[q] <= hi}

(* The rows that a client may expect. *)
Due == {r \in 1 .. known :
          /\ Unique(r) /\ span[1] <= rows[r] /\ rows[r] <= span[2] /\ lo <= rows[r]
          /\ \A q \in Expired : ~Precedes(q, r)}

(* A row not yet delivered has at least as many rows before it as the next  *)
(* page leaves out.                                                         *)
SkipInv ==
  op = "page" /\ ~cut =>
    \A r \in Due \ seen :
      /\ pc \in {"count", "fetch"} => offset <= Cardinality(Before(r))
      /\ pc = "more" => offset + limit <= Cardinality(Before(r))
      /\ pc = "done" => late

IInv == TypeOK /\ SessionInv /\ CountInv /\ StatsInv /\ PageFillsTotal /\ SkipInv

-----------------------------------------------------------------------------
(* Counting *)

LEMMA MoreRows ==
  ASSUME NEW T, IsFiniteSet(T), NEW S \in SUBSET T
  PROVE  /\ IsFiniteSet(S) /\ Cardinality(S) \in Nat /\ Cardinality(T) \in Nat
         /\ Cardinality(S) <= Cardinality(T)
BY FS_Subset, FS_CardinalityType

(* Any set of rows is finite and no larger than the table. *)
LEMMA SomeRows ==
  ASSUME TypeOK, NEW S \in SUBSET Rows
  PROVE  /\ IsFiniteSet(S) /\ Cardinality(S) \in Nat /\ Cardinality(S) <= Len(rows)
<1>1. Len(rows) \in Nat
  BY DEF TypeOK
<1>2. IsFiniteSet(Rows) /\ Cardinality(Rows) = Len(rows)
  BY <1>1, FS_Interval DEF Rows
<1> QED
  BY <1>2, MoreRows

(* A table with rows has a latest one: the CHOOSE of the second stats query *)
(* has something to choose.                                                 *)
LEMMA LatestRow ==
  ASSUME TypeOK, rows # <<>>
  PROVE  \E r \in Rows : \A q \in Rows : rows[q] <= rows[r]
<1> DEFINE Later(r) == {q \in Rows : rows[r] < rows[q]}
           Sets == {Later(r) : r \in Rows}
<1>1. Len(rows) \in Nat /\ Len(rows) # 0 /\ \A r \in Rows : rows[r] \in Nat
  BY QueryAssumption DEF TypeOK, Rows, Times
<1>2. 1 \in Rows
  BY <1>1 DEF Rows
<1>3. Sets # {}
  BY <1>2
<1>4. IsFiniteSet(Rows)
  BY SomeRows
<1>5. Sets \subseteq FiniteSubsetsOf(Rows)
  BY <1>4, FS_FiniteSubsetsOfFinite
<1>6. IsWellFoundedOn(StrictSubsetOrdering(Rows), FiniteSubsetsOf(Rows))
  BY FS_StrictSubsetOrderingWellFounded
<1> HIDE DEF Sets
<1>7. \E x \in Sets : \A y \in Sets : <<y, x>> \notin StrictSubsetOrdering(Rows)
  BY <1>3, <1>5, <1>6, WFMin
<1> USE DEF Sets
<1>8. PICK r \in Rows : \A q \in Rows :
        <<Later(q), Later(r)>> \notin StrictSubsetOrdering(Rows)
  BY <1>7
<1>9. ASSUME NEW q \in Rows, rows[r] < rows[q] PROVE FALSE
  <2>1. Later(q) \subseteq Later(r)
    BY <1>1, <1>9
  <2>2. q \in Later(r) /\ q \notin Later(q)
    BY <1>1, <1>9
  <2>3. Later(q) \in SUBSET Rows /\ Later(r) \in SUBSET Rows /\ Later(q) # Later(r)
    BY <2>2
  <2> HIDE DEF Later
  <2>4. <<Later(q), Later(r)>> \in StrictSubsetOrdering(Rows)
    BY <2>1, <2>3 DEF StrictSubsetOrdering
  <2> QED
    BY <1>8, <2>4
<1> QED
  BY <1>1, <1>8, <1>9

(* A page is full, or what it leaves out at the front and holds make up the *)
(* whole set.                                                               *)
LEMMA PageFills ==
  ASSUME NEW S, IsFiniteSet(S), NEW skip \in Nat, NEW most \in Nat,
         NEW P \in Pages(S, skip, most)
  PROVE  /\ P \in SUBSET S
         /\ Cardinality(P) = most \/ Cardinality(S) <= skip + Cardinality(P)
<1>1. PICK skipped \in SUBSET (S \ P) :
        /\ Cardinality(skipped) = AtMost(skip, Cardinality(S))
        /\ Cardinality(P) = AtMost(most, Cardinality(S \ skipped))
  BY DEF Pages
<1>2. P \in SUBSET S /\ skipped \in SUBSET S /\ S \cap skipped = skipped
  BY DEF Pages
<1>3. Cardinality(S) \in Nat /\ Cardinality(skipped) \in Nat
  BY <1>2, MoreRows
<1>4. Cardinality(S \ skipped) = Cardinality(S) - Cardinality(skipped)
  BY <1>2, FS_Difference
<1> QED
  BY <1>1, <1>2, <1>3, <1>4 DEF AtMost

(* A row with a place of its own in the order, and with as many rows before *)
(* it as are left out, is on the page, or has the whole page before it.     *)
LEMMA PagePasses ==
  ASSUME NEW S, IsFiniteSet(S), NEW skip \in Nat, NEW most \in Nat,
         NEW P \in Pages(S, skip, most), NEW r \in S \ P,
         ~Precedes(r, r),
         \A q \in S \ {r} : Precedes(q, r) \/ Precedes(r, q),
         NEW B, B = {q \in S : Precedes(q, r)}, skip <= Cardinality(B)
  PROVE  skip + most <= Cardinality(B) /\ Cardinality(B) < Cardinality(S)
<1>1. PICK skipped \in SUBSET (S \ P) :
        /\ Cardinality(skipped) = AtMost(skip, Cardinality(S))
        /\ Cardinality(P) = AtMost(most, Cardinality(S \ skipped))
        /\ IsPrefix(skipped, S) /\ IsPrefix(skipped \union P, S)
  BY DEF Pages
<1>2. P \in SUBSET S /\ skipped \in SUBSET S /\ skipped \cap P = {}
      /\ S \cap skipped = skipped
  BY DEF Pages
<1>3. B \in SUBSET S /\ r \notin B /\ B \union {r} \in SUBSET S
  OBVIOUS
<1>4. IsFiniteSet(skipped) /\ IsFiniteSet(P) /\ IsFiniteSet(B)
      /\ Cardinality(S) \in Nat /\ Cardinality(skipped) \in Nat
      /\ Cardinality(P) \in Nat /\ Cardinality(B) \in Nat
  BY <1>2, <1>3, MoreRows
<1>5. Cardinality(B \union {r}) = Cardinality(B) + 1
      /\ Cardinality(B \union {r}) <= Cardinality(S)
  BY <1>3, <1>4, FS_AddElement, MoreRows
<1>6. Cardinality(B) < Cardinality(S)
  BY <1>4, <1>5
<1>7. Cardinality(skipped) = skip
  BY <1>4, <1>1, <1>6 DEF AtMost
<1>8. r \notin skipped
  <2> SUFFICES ASSUME r \in skipped PROVE FALSE
    OBVIOUS
  <2>1. B \in SUBSET skipped
    BY <1>1, <1>3 DEF IsPrefix
  <2>2. B \union {r} \in SUBSET skipped
    BY <2>1
  <2>3. Cardinality(B \union {r}) <= Cardinality(skipped)
    BY <1>4, <2>2, MoreRows
  <2> QED
    BY <1>4, <1>5, <1>7, <2>3
<1>9. skipped \union P \in SUBSET B
  <2> SUFFICES ASSUME NEW q \in skipped \union P PROVE q \in B
    OBVIOUS
  <2>1. q \in S /\ q # r /\ r \in S \ (skipped \union P)
    BY <1>2, <1>8
  <2>2. ~Precedes(r, q)
    BY <1>1, <2>1 DEF IsPrefix
  <2> QED
    BY <2>1, <2>2
<1>10. Cardinality(skipped \union P) = skip + Cardinality(P)
  <2>1. Cardinality(skipped \cap P) = 0
    BY <1>2, FS_EmptySet
  <2>2. Cardinality(skipped \union P)
          = Cardinality(skipped) + Cardinality(P) - Cardinality(skipped \cap P)
    BY <1>4, FS_Union
  <2> QED
    BY <1>4, <1>7, <2>1, <2>2
<1>11. skip + Cardinality(P) <= Cardinality(B)
  BY <1>4, <1>9, <1>10, MoreRows
<1>12. Cardinality(S \ skipped) = Cardinality(S) - skip
  BY <1>2, <1>7, FS_Difference
<1>13. Cardinality(P) = most
  BY <1>1, <1>4, <1>6, <1>11, <1>12 DEF AtMost
<1> QED
  BY <1>6, <1>11, <1>13

-----------------------------------------------------------------------------
(* What a step of an open session may do to the table and its windows. *)
Onward ==
  /\ Rows \subseteq Rows' /\ \A q \in Rows : rows'[q] = rows[q]
  /\ op' = op /\ desc' = desc /\ byTime' = byTime /\ column' = column /\ span' = span /\ known' = known
  /\ lo <= lo' /\ hi <= hi'

LEMMA Numbers ==
  ASSUME TypeOK
  PROVE  /\ MaxRows \in Nat /\ MaxTime \in Nat /\ Window \in Nat
         /\ Len(rows) \in Nat /\ \A q \in Rows : rows[q] \in Nat
         /\ now \in Nat /\ lo \in Nat /\ hi \in Nat /\ span[1] \in Nat /\ span[2] \in Nat
         /\ limit \in Nat /\ offset \in Nat /\ total \in Nat /\ known \in Nat
         /\ 1 .. known \subseteq Rows
BY QueryAssumption DEF TypeOK, Rows, Times

(* The order of the rows does not change. *)
LEMMA SameOrder ==
  ASSUME Onward
  PROVE  \A q, r \in Rows : /\ Key(q)' = Key(q)
                            /\ Precedes(q, r)' <=> Precedes(q, r)
<1> SUFFICES ASSUME NEW q \in Rows, NEW r \in Rows
             PROVE  Key(q)' = Key(q) /\ (Precedes(q, r)' <=> Precedes(q, r))
  OBVIOUS
<1>1. Key(q)' = Key(q) /\ Key(r)' = Key(r) /\ op' = op /\ desc' = desc
  BY DEF Onward, Key
<1> HIDE DEF Key
<1> QED
  BY <1>1 DEF Precedes

(* What a client may expect only shrinks, what stands before it only grows. *)
LEMMA OnwardStep ==
  ASSUME TypeOK, TypeOK', Onward
  PROVE  /\ Due' \subseteq Due
         /\ \A r \in Due : Cardinality(Before(r)) <= Cardinality(Before(r)')
<1>1. /\ \A q \in Rows : rows[q] \in Nat
      /\ lo \in Nat /\ hi \in Nat /\ span[1] \in Nat /\ span[2] \in Nat
      /\ 1 .. known \subseteq Rows
  BY Numbers
<1>2. lo' \in Nat /\ hi' \in Nat /\ \A q \in Rows' : rows'[q] \in Nat
  <2>1. rows' \in Seq(Times) /\ lo' \in Times /\ hi' \in Times
    BY DEF TypeOK
  <2>2. Times \subseteq Nat
    BY QueryAssumption DEF Times
  <2>3. \A q \in Rows' : rows'[q] \in Times
    BY <2>1 DEF Rows
  <2> QED
    BY <2>1, <2>2, <2>3
<1>3. Expired \subseteq Expired'
  BY <1>1, <1>2 DEF Expired, Onward
<1>4. ASSUME NEW r \in Due' PROVE r \in Due
  <2>1. r \in 1 .. known /\ r \in Rows
    BY <1>1 DEF Due, Onward
  <2>2. Unique(r)' /\ span[1] <= rows[r] /\ rows[r] <= span[2] /\ lo' <= rows[r]
        /\ \A q \in Expired' : ~Precedes(q, r)'
    BY <2>1 DEF Due, Onward
  <2>3. Unique(r)
    <3> SUFFICES ASSUME NEW q \in Rows \ {r} PROVE Key(q) # Key(r)
      BY DEF Unique
    <3>1. q \in Rows' /\ Key(q)' = Key(q) /\ Key(r)' = Key(r)
      BY <2>1, SameOrder DEF Onward
    <3> QED
      BY <2>2, <3>1 DEF Unique
  <2>4. lo <= rows[r]
    BY <1>1, <1>2, <2>1, <2>2 DEF Onward
  <2>5. \A q \in Expired : ~Precedes(q, r)
    <3> SUFFICES ASSUME NEW q \in Expired PROVE ~Precedes(q, r)
      OBVIOUS
    <3>1. q \in Rows /\ q \in Expired'
      BY <1>3 DEF Expired
    <3> QED
      BY <2>1, <2>2, <3>1, SameOrder
  <2> QED
    BY <2>1, <2>2, <2>3, <2>4, <2>5 DEF Due
<1>5. ASSUME NEW r \in Due PROVE Cardinality(Before(r)) <= Cardinality(Before(r)')
  <2>1. r \in Rows
    BY <1>1 DEF Due
  <2>2. Before(r) \subseteq Before(r)'
    <3> SUFFICES ASSUME NEW q \in Before(r) PROVE q \in Before(r)'
      OBVIOUS
    <3>1. q \in Rows /\ q \in Rows' /\ rows'[q] = rows[q] /\ span' = span /\ hi <= hi'
      BY DEF Before, Onward
    <3>2. Precedes(q, r) /\ span[1] <= rows[q] /\ rows[q] <= hi
      BY DEF Before
    <3>3. Precedes(q, r)'
      BY <2>1, <3>1, <3>2, SameOrder
    <3>4. span'[1] <= rows'[q] /\ rows'[q] <= hi'
      BY <1>1, <1>2, <3>1, <3>2
    <3> QED
      BY <3>1, <3>3, <3>4 DEF Before
  <2>3. Before(r)' \in SUBSET Rows'
    BY DEF Before
  <2>4. IsFiniteSet(Before(r)')
    <3>1. Len(rows') \in Nat
      BY DEF TypeOK
    <3>2. IsFiniteSet(Rows')
      BY <3>1, FS_Interval DEF Rows
    <3> QED
      BY <2>3, <3>2, FS_Subset
  <2> QED
    BY <2>2, <2>4, MoreRows
<1> QED
  BY <1>4, <1>5

(* Rows are compared by numbers. *)
LEMMA Keyed ==
  ASSUME TypeOK
  PROVE  \A q \in Rows : Key(q) \in Nat
<1> SUFFICES ASSUME NEW q \in Rows PROVE Key(q) \in Nat
  OBVIOUS
<1>1. rows[q] \in Nat /\ q \in 1 .. MaxRows
  BY QueryAssumption, Numbers DEF TypeOK, Rows
<1>2. column[q] \in Nat
  BY <1>1, QueryAssumption DEF TypeOK, Columns
<1> QED
  BY <1>1, <1>2 DEF Key

(* A step that delivers nothing, and goes on as the offset says. *)
LEMMA SkipKept ==
  ASSUME TypeOK, TypeOK', SkipInv, Onward, cut => cut', seen' = seen,
         pc' \in {"count", "fetch"}
           => \/ pc \in {"count", "fetch"} /\ offset' = offset
              \/ pc = "more" /\ offset' = offset + limit,
         pc' = "more" => pc = "more" /\ offset' = offset /\ limit' = limit,
         pc' = "done" => op # "page" \/ (pc = "done" /\ late' = late)
  PROVE  SkipInv'
<1> SUFFICES ASSUME op' = "page", ~cut', NEW r \in (Due \ seen)'
             PROVE  /\ pc' \in {"count", "fetch"} => offset' <= Cardinality(Before(r)')
                    /\ pc' = "more" => offset' + limit' <= Cardinality(Before(r)')
                    /\ pc' = "done" => late'
  BY DEF SkipInv
<1>1. op = "page" /\ ~cut /\ r \in Due \ seen
  BY OnwardStep DEF Onward
<1>2. /\ pc \in {"count", "fetch"} => offset <= Cardinality(Before(r))
      /\ pc = "more" => offset + limit <= Cardinality(Before(r))
      /\ pc = "done" => late
  BY <1>1 DEF SkipInv
<1>3. Cardinality(Before(r)) <= Cardinality(Before(r)')
  BY <1>1, OnwardStep
<1>4. Cardinality(Before(r)) \in Nat
  BY SomeRows DEF Before
<1>5. Cardinality(Before(r)') \in Nat
  <2>1. Len(rows') \in Nat
    BY DEF TypeOK
  <2>2. IsFiniteSet(Rows')
    BY <2>1, FS_Interval DEF Rows
  <2> QED
    BY <2>2, FS_Subset, FS_CardinalityType DEF Before
<1>6. offset \in Nat /\ limit \in Nat
  BY Numbers
<1> QED
  BY <1>1, <1>2, <1>3, <1>4, <1>5, <1>6

-----------------------------------------------------------------------------
(* The environment's steps *)

LEMMA Appended ==
  ASSUME NEW S, NEW s \in Seq(S), NEW e \in S
  PROVE  /\ Append(s, e) \in Seq(S)
         /\ Len(s) \in Nat /\ Len(Append(s, e)) = Len(s) + 1
         /\ \A k \in 1 .. Len(s) : Append(s, e)[k] = s[k]
         /\ Append(s, e)[Len(s) + 1] = e
OBVIOUS

(* The window of every request but two is the one it names. *)
LEMMA Windowed ==
  ASSUME op \notin {"values", "sql"}
  PROVE  Matching = {r \in Rows : lo <= rows[r] /\ rows[r] <= hi}
BY DEF Matching

LEMMA ArriveStep ==
  ASSUME IInv, Arrive
  PROVE  IInv'
<1> USE DEF clickhouse, request, order, history
<1>1. /\ TypeOK /\ Len(rows) < MaxRows
      /\ UNCHANGED <<now, up, outages, op, desc, byTime, column, fixed, lo, hi, limit, offset, total, pc,
                     got, parts, seen, known, span, late, cut>>
  BY DEF IInv, Arrive
<1>2. PICK t \in 0 .. now : rows' = Append(rows, t)
  BY DEF Arrive
<1>3. t \in Times
  BY <1>1, QueryAssumption DEF TypeOK, Times
<1>4. /\ rows' \in Seq(Times) /\ Len(rows') = Len(rows) + 1 /\ Len(rows) \in Nat
      /\ \A q \in Rows : rows'[q] = rows[q]
  BY <1>1, <1>2, <1>3, Appended DEF TypeOK, Rows
<1>5. Rows \subseteq Rows'
  BY <1>4 DEF Rows
<1>6. TypeOK'
  <2>1. Len(rows') <= MaxRows
    BY <1>1, <1>4, QueryAssumption
  <2>2. seen \subseteq Rows' /\ total \in 0 .. Len(rows') /\ known \in 0 .. Len(rows')
        /\ got \in 0 .. Len(rows')
    BY <1>1, <1>4, <1>5 DEF TypeOK
  <2> QED
    BY <1>1, <1>4, <2>1, <2>2 DEF TypeOK, Times
<1>7. Onward
  BY <1>1, <1>4, <1>5, Numbers DEF Onward
<1>8. SkipInv'
  BY <1>1, <1>6, <1>7, SkipKept DEF IInv
<1>9. SessionInv' /\ PageFillsTotal'
  BY <1>1 DEF IInv, SessionInv, PageFillsTotal
<1>10. StatsInv'
  <2>1. parts \in Seq(0 .. MaxRows + MaxTime)
    BY <1>1 DEF TypeOK
  <2>2. \A n \in 3 .. Len(parts) : parts[n] \in Nat
    BY <2>1, QueryAssumption
  <2> QED
    BY <1>1, <1>4, <2>2 DEF IInv, StatsInv
<1>11. CountInv'
  <2> SUFFICES ASSUME op \in {"page", "recent"}, pc = "fetch"
               PROVE  total <= Cardinality(Matching')
    BY <1>1 DEF CountInv
  <2>1. total <= Cardinality(Matching)
    BY <1>1 DEF IInv, CountInv
  <2>2. /\ Matching = {r \in Rows : lo <= rows[r] /\ rows[r] <= hi}
        /\ Matching' = {r \in Rows' : lo' <= rows'[r] /\ rows'[r] <= hi'}
    BY <1>1 DEF Matching
  <2>3. Matching \in SUBSET Matching' /\ Matching' \in SUBSET Rows'
    BY <1>1, <1>4, <1>5, <2>2
  <2>4. IsFiniteSet(Rows')
    BY <1>4, FS_Interval DEF Rows
  <2>5. IsFiniteSet(Matching')
    BY <2>3, <2>4, FS_Subset
  <2>6. Cardinality(Matching) \in Nat /\ Cardinality(Matching') \in Nat
        /\ Cardinality(Matching) <= Cardinality(Matching')
    BY <2>3, <2>5, MoreRows
  <2> QED
    BY <1>1, <2>1, <2>6, Numbers
<1> QED
  BY <1>6, <1>8, <1>9, <1>10, <1>11 DEF IInv

(* Time passes, ClickHouse goes and comes, or nothing happens. *)
LEMMA AsideStep ==
  ASSUME IInv, Pass \/ Outage \/ Recover \/ UNCHANGED vars
  PROVE  IInv'
<1> USE DEF clickhouse, request, order, history, table, vars
<1>1. /\ TypeOK
      /\ UNCHANGED <<rows, op, desc, byTime, column, fixed, lo, hi, limit, offset, total, pc,
                     got, parts, seen, known, span, late, cut>>
  BY DEF IInv, Pass, Outage, Recover
<1>2. now' \in Times /\ now <= now' /\ up' \in BOOLEAN /\ outages' \in 0 .. MaxOutages
  <2>1. now \in Nat /\ MaxTime \in Nat /\ MaxOutages \in Nat /\ outages \in Nat
    BY <1>1, QueryAssumption DEF TypeOK, Times
  <2>2. now \in Times /\ up \in BOOLEAN /\ outages \in 0 .. MaxOutages
    BY <1>1 DEF TypeOK
  <2>3. \/ now < MaxTime /\ now' = now + 1 /\ up' = up /\ outages' = outages
        \/ now' = now /\ up' = FALSE /\ outages' = outages + 1 /\ outages < MaxOutages
        \/ now' = now /\ up' = TRUE /\ outages' = outages
        \/ now' = now /\ up' = up /\ outages' = outages
    BY Zenon DEF Pass, Outage, GoDown, Recover
  <2>4. up' \in BOOLEAN
    BY <2>2, <2>3, Zenon
  <2>5. \/ now < MaxTime /\ now' = now + 1 /\ outages' = outages
        \/ now' = now /\ outages' = outages + 1 /\ outages < MaxOutages
        \/ now' = now /\ outages' = outages
    BY <2>3, Zenon
  <2> QED
    BY <2>1, <2>2, <2>4, <2>5 DEF Times
<1>3. Rows' = Rows
  BY <1>1 DEF Rows
<1>4. TypeOK'
  BY <1>1, <1>2, <1>3 DEF TypeOK, Times
<1>5. Onward
  BY <1>1, <1>3, Numbers DEF Onward
<1>6. SkipInv'
  BY <1>1, <1>4, <1>5, SkipKept DEF IInv
<1>7. SessionInv'
  <2>1. now \in Nat /\ lo \in Nat /\ hi \in Nat /\ Window \in Nat
    BY <1>1, Numbers
  <2>2. now' \in Nat
    BY <1>2, QueryAssumption DEF Times
  <2> QED
    BY <1>1, <1>2, <2>1, <2>2 DEF IInv, SessionInv
<1>8. PageFillsTotal' /\ StatsInv'
  BY <1>1 DEF IInv, PageFillsTotal, StatsInv
<1>9. CountInv'
  BY <1>1, <1>3 DEF IInv, CountInv, Matching
<1> QED
  BY <1>4, <1>6, <1>7, <1>8, <1>9 DEF IInv

-----------------------------------------------------------------------------
(* The client's steps *)

LEMMA OpenStep ==
  ASSUME IInv, NEW kind \in Ops, NEW f \in BOOLEAN, NEW most \in Nat,
         NEW first \in {"count", "fetch", "stats", "failed"},
         desc' \in BOOLEAN, byTime' \in BOOLEAN, column' \in Columns,
         first = "count" => kind \in {"page", "recent", "stream"},
         first = "fetch" => kind \in {"sql", "values"},
         first = "stats" => kind = "stats",
         first = "failed" => kind # "page",
         Open(kind, f, most, first)
  PROVE  IInv'
<1> USE DEF clickhouse, request, order, history, table
<1>1. /\ TypeOK /\ Window <= now /\ parts = <<>> /\ offset = 0 /\ pc' = first
      /\ op' = kind /\ fixed' = f /\ limit' = most
      /\ lo' = now - Window /\ hi' = now /\ span' = <<now - Window, now>>
      /\ known' = Len(rows)
      /\ UNCHANGED <<rows, now, up, outages, offset, total, got, parts, seen, late, cut>>
  BY DEF IInv, SessionInv, Open
<1>2. /\ now \in Nat /\ Window \in Nat /\ MaxTime \in Nat /\ now <= MaxTime
      /\ Len(rows) \in Nat /\ MaxRows \in Nat
  BY <1>1, Numbers DEF TypeOK, Times
<1>3. now - Window \in Times /\ now \in Times
  BY <1>1, <1>2 DEF Times
<1>4. Rows' = Rows
  BY <1>1 DEF Rows
<1>5. TypeOK'
  <2>1. offset' \in 0 .. MaxRows /\ known' \in 0 .. Len(rows')
    BY <1>1, <1>2
  <2>2. span' \in Times \X Times /\ lo' \in Times /\ hi' \in Times
    BY <1>1, <1>3
  <2> QED
    BY <1>1, <1>4, <2>1, <2>2 DEF TypeOK, Times
<1>6. SessionInv'
  <2>1. span'[1] = now - Window /\ span'[2] = now
    BY <1>1
  <2> QED
    BY <1>1, <1>2, <2>1 DEF SessionInv
<1>7. CountInv' /\ PageFillsTotal'
  BY <1>1 DEF CountInv, PageFillsTotal
<1>8. StatsInv'
  <2>1. Len(parts') = 0
    BY <1>1
  <2> QED
    BY <1>1, <2>1 DEF StatsInv
<1>9. SkipInv'
  <2>1. ASSUME NEW r PROVE 0 <= Cardinality(Before(r)')
    <3>1. IsFiniteSet(Rows')
      BY <1>4, SomeRows, <1>1
    <3> QED
      BY <3>1, FS_Subset, FS_CardinalityType DEF Before
  <2> QED
    BY <1>1, <2>1 DEF SkipInv
<1> QED
  BY <1>5, <1>6, <1>7, <1>8, <1>9 DEF IInv

LEMMA OpensStep ==
  ASSUME IInv,
         OpenPage \/ OpenRecent \/ OpenQuery \/ OpenValues \/ OpenStream \/ OpenStats
  PROVE  IInv'
<1> USE OpenStep, QueryAssumption DEF Ops
<1>0. NewestFirst => desc' \in BOOLEAN /\ byTime' \in BOOLEAN /\ column' \in Columns
  BY Zenon DEF IInv, TypeOK, NewestFirst, order
<1>1. CASE OpenPage
  <2>1. PICK d \in BOOLEAN, f \in BOOLEAN, c \in Columns, n \in Limits :
          Open("page", f, n, "count") /\ OrderBy(d, c)
    BY <1>1 DEF OpenPage
  <2>2. desc' \in BOOLEAN /\ byTime' \in BOOLEAN /\ column' \in Columns
    BY <2>1, Zenon DEF OrderBy, IInv, TypeOK
  <2> QED
    BY <2>1, <2>2
<1>2. CASE OpenRecent
  BY <1>0, <1>2 DEF OpenRecent
<1>3. CASE OpenQuery
  BY <1>0, <1>3 DEF OpenQuery
<1>4. CASE OpenValues
  BY <1>0, <1>4 DEF OpenValues
<1>5. CASE OpenStream
  BY <1>0, <1>5 DEF OpenStream
<1>6. CASE OpenStats
  BY <1>0, <1>6 DEF OpenStats
<1> QED
  BY <1>1, <1>2, <1>3, <1>4, <1>5, <1>6

(* The next page starts where the last one ended, in a window moved on. *)
LEMMA NextPageStep ==
  ASSUME IInv, NextPage
  PROVE  IInv'
<1> USE DEF clickhouse, request, order, history, table
<1>1. /\ TypeOK /\ pc = "more" /\ pc' = "count" /\ op = "page" /\ op' = "page"
      /\ offset' = offset + limit /\ offset + limit < total
      /\ UNCHANGED <<rows, now, up, outages, desc, byTime, column, fixed, limit, total, got, parts, seen,
                     known, span, late, cut>>
  BY DEF IInv, SessionInv, NextPage
<1>2. /\ now \in Nat /\ Window \in Nat /\ MaxTime \in Nat /\ now <= MaxTime
      /\ Len(rows) \in Nat /\ MaxRows \in Nat /\ lo \in Nat /\ hi \in Nat
      /\ offset \in Nat /\ limit \in Nat /\ total \in Nat
      /\ span[1] \in Nat /\ span[2] \in Nat
      /\ total <= Len(rows) /\ Len(rows) <= MaxRows
  BY <1>1, Numbers DEF TypeOK, Times
<1>3. /\ Window <= now /\ span[1] <= lo /\ lo + Window <= now /\ span[2] <= hi /\ hi <= now
  BY <1>1 DEF IInv, SessionInv
<1>4. lo' \in Times /\ hi' \in Times /\ lo <= lo' /\ hi <= hi'
      /\ lo' + Window <= now /\ hi' <= now
  <2>1. \/ lo' = lo /\ hi' = hi
        \/ lo' = now - Window /\ hi' = now
    BY DEF NextPage
  <2>2. lo \in Times /\ hi \in Times
    BY <1>1 DEF TypeOK
  <2> QED
    BY <1>2, <1>3, <2>1, <2>2 DEF Times
<1>5. lo' \in Nat /\ hi' \in Nat
  BY <1>2, <1>4 DEF Times
<1>6. Rows' = Rows
  BY <1>1 DEF Rows
<1>7. TypeOK'
  <2>1. offset' \in 0 .. MaxRows
    BY <1>1, <1>2
  <2> QED
    BY <1>1, <1>4, <1>6, <2>1 DEF TypeOK, Times
<1>8. SessionInv'
  <2>1. span' = span /\ now' = now
    BY <1>1
  <2>2. span[1] <= lo' /\ span[2] <= hi'
    BY <1>2, <1>3, <1>4, <1>5
  <2> QED
    BY <1>1, <1>3, <1>4, <2>1, <2>2 DEF SessionInv
<1>9. Onward
  BY <1>1, <1>4, <1>6 DEF Onward
<1>10. SkipInv'
  BY <1>1, <1>7, <1>9, SkipKept DEF IInv
<1>11. CountInv' /\ PageFillsTotal' /\ StatsInv'
  BY <1>1 DEF CountInv, PageFillsTotal, StatsInv
<1> QED
  BY <1>7, <1>8, <1>10, <1>11 DEF IInv

(* The ticks of a stream, and its end. *)
LEMMA StreamStep ==
  ASSUME IInv, StreamTick \/ StreamLeave
  PROVE  IInv'
<1> USE DEF clickhouse, request, order, history, table
<1>1. /\ TypeOK /\ pc = "wait" /\ pc' \in {"count", "done"} /\ op = "stream" /\ op' = "stream"
      /\ UNCHANGED <<rows, now, up, outages, desc, byTime, column, fixed, lo, limit, offset, total, got, parts,
                     seen, known, span, late, cut>>
  BY DEF IInv, SessionInv, StreamTick, StreamLeave
<1>2. now \in Nat /\ lo \in Nat /\ hi \in Nat /\ span[1] \in Nat /\ span[2] \in Nat
      /\ hi \in Times /\ now \in Times
  BY <1>1, Numbers DEF TypeOK
<1>3. /\ Window <= now /\ span[1] <= lo /\ lo + Window <= now /\ span[2] <= hi /\ hi <= now
  BY <1>1 DEF IInv, SessionInv
<1>4. hi' = hi \/ hi' = now
  BY DEF StreamTick, StreamLeave
<1>5. Rows' = Rows
  BY <1>1 DEF Rows
<1>6. TypeOK'
  BY <1>1, <1>2, <1>4, <1>5 DEF TypeOK, Times
<1>7. SessionInv'
  BY <1>1, <1>2, <1>3, <1>4 DEF SessionInv
<1>8. SkipInv'
  BY <1>1 DEF SkipInv
<1>9. CountInv' /\ PageFillsTotal' /\ StatsInv'
  BY <1>1 DEF CountInv, PageFillsTotal, StatsInv
<1> QED
  BY <1>6, <1>7, <1>8, <1>9 DEF IInv

-----------------------------------------------------------------------------
(* The handler's steps: the queries *)

LEMMA MatchingRows ==
  ASSUME TypeOK
  PROVE  /\ Matching \in SUBSET Rows /\ IsFiniteSet(Matching)
         /\ Cardinality(Matching) \in Nat /\ Cardinality(Matching) <= Len(rows)
<1>1. Matching \in SUBSET Rows
  <2>1. CASE op = "values"
    BY <2>1 DEF Matching, Recent
  <2>2. CASE op = "sql"
    BY <2>2 DEF Matching
  <2>3. CASE op \notin {"values", "sql"}
    BY <2>3, Windowed
  <2> QED
    BY <2>1, <2>2, <2>3
<1> QED
  BY <1>1, SomeRows

LEMMA CountStep ==
  ASSUME IInv, Count
  PROVE  IInv'
<1> USE DEF clickhouse, request, order, history, table
<1>1. /\ TypeOK /\ pc = "count" /\ pc' = "fetch" /\ total' = Cardinality(Matching)
      /\ UNCHANGED <<rows, now, up, outages, op, desc, byTime, column, fixed, lo, hi, limit, offset, got,
                     parts, seen, known, span, late, cut>>
  BY DEF IInv, Count
<1>2. Rows' = Rows
  BY <1>1 DEF Rows
<1>3. Matching' = Matching
  BY <1>1, <1>2 DEF Matching, Recent
<1>4. total' \in 0 .. Len(rows) /\ total' \in Nat
  BY <1>1, MatchingRows, Numbers
<1>5. TypeOK'
  BY <1>1, <1>2, <1>4 DEF TypeOK, Times
<1>6. Onward
  BY <1>1, <1>2, Numbers DEF Onward
<1>7. SkipInv'
  BY <1>1, <1>5, <1>6, SkipKept DEF IInv
<1>8. SessionInv' /\ PageFillsTotal'
  BY <1>1 DEF IInv, SessionInv, PageFillsTotal
<1>9. StatsInv'
  BY <1>1 DEF IInv, StatsInv
<1>10. CountInv'
  BY <1>1, <1>3, <1>4 DEF CountInv
<1> QED
  BY <1>5, <1>7, <1>8, <1>9, <1>10 DEF IInv

LEMMA FailStep ==
  ASSUME IInv, QueryFails \/ StatsPanic
  PROVE  IInv'
<1> USE DEF clickhouse, request, order, history, table
<1>1. /\ TypeOK /\ pc \in {"count", "fetch", "stats"}
      /\ \/ pc' = "wait" /\ op = "stream"
         \/ pc' \in {"failed", "panicked"}
      /\ UNCHANGED <<rows, now, up, outages, op, desc, byTime, column, fixed, lo, hi, limit, offset, total,
                     got, parts, seen, known, span, late, cut>>
  BY DEF IInv, QueryFails, StatsPanic
<1>2. Rows' = Rows
  BY <1>1 DEF Rows
<1>3. TypeOK'
  BY <1>1, <1>2 DEF TypeOK, Times
<1>4. SkipInv'
  BY <1>1 DEF SkipInv
<1>5. SessionInv' /\ PageFillsTotal' /\ CountInv'
  BY <1>1 DEF IInv, SessionInv, PageFillsTotal, CountInv
<1>6. StatsInv'
  BY <1>1 DEF IInv, StatsInv
<1> QED
  BY <1>3, <1>4, <1>5, <1>6 DEF IInv

(* An answer with some of the matching rows. *)
LEMMA DeliverStep ==
  ASSUME IInv, pc = "fetch", NEW P \in SUBSET Matching, Deliver(P),
         up' \in BOOLEAN, outages' \in 0 .. MaxOutages, cut' \in BOOLEAN
  PROVE  TypeOK' /\ SessionInv' /\ CountInv' /\ StatsInv' /\ Onward
<1> USE DEF request, order, table
<1>1. /\ TypeOK /\ pc' \in {"wait", "more", "done"} /\ op # "stats"
      /\ got' = Cardinality(P) /\ seen' = seen \union P
      /\ UNCHANGED <<rows, now, op, desc, byTime, column, fixed, lo, hi, limit, offset, total, parts, known,
                     span>>
  BY DEF IInv, SessionInv, Deliver
<1>2. Rows' = Rows
  BY <1>1 DEF Rows
<1>3. P \in SUBSET Rows
  BY <1>1, MatchingRows
<1>4. got' \in 0 .. Len(rows) /\ seen' \subseteq Rows
  <2>1. seen \subseteq Rows
    BY <1>1 DEF TypeOK
  <2> QED
    BY <1>1, <1>3, <2>1, SomeRows, Numbers
<1>5. late' \in BOOLEAN
  BY DEF Deliver
<1>6. TypeOK'
  BY <1>1, <1>2, <1>4, <1>5 DEF TypeOK, Times
<1>7. /\ pc' = "more" => op = "page" /\ offset + limit < total
      /\ pc' = "wait" => op = "stream"
  BY DEF Deliver, HasMore
<1>8. SessionInv'
  BY <1>1, <1>7 DEF IInv, SessionInv
<1>9. CountInv' /\ StatsInv'
  BY <1>1 DEF CountInv, StatsInv
<1>10. Onward
  BY <1>1, <1>2, Numbers DEF Onward
<1> QED
  BY <1>6, <1>8, <1>9, <1>10

LEMMA FetchCutStep ==
  ASSUME IInv, FetchCut
  PROVE  IInv'
<1>1. /\ TypeOK /\ pc = "fetch" /\ up' = FALSE /\ outages < MaxOutages
      /\ outages' = outages + 1 /\ cut' = TRUE
  BY DEF IInv, FetchCut, GoDown
<1>2. PICK P \in Pages(Matching, offset, limit) :
        \E part \in SUBSET P \ {{}, P} : IsPrefix(part, P) /\ Deliver(part)
  BY DEF FetchCut
<1>3. PICK part \in SUBSET P : Deliver(part)
  BY <1>2
<1>4. part \in SUBSET Matching
  BY DEF Pages
<1>5. outages' \in 0 .. MaxOutages
  BY <1>1, QueryAssumption DEF TypeOK
<1>6. up' \in BOOLEAN /\ cut' \in BOOLEAN
  BY <1>1
<1>7. TypeOK' /\ SessionInv' /\ CountInv' /\ StatsInv'
  BY <1>1, <1>3, <1>4, <1>5, <1>6, DeliverStep
<1>8. PageFillsTotal' /\ SkipInv'
  BY <1>1 DEF PageFillsTotal, SkipInv
<1> QED
  BY <1>7, <1>8 DEF IInv

LEMMA QueryCancelledStep ==
  ASSUME IInv, QueryCancelled
  PROVE  IInv'
<1>1. /\ TypeOK /\ pc = "fetch" /\ cut' = TRUE /\ up' = up /\ outages' = outages
  BY DEF IInv, QueryCancelled, clickhouse
<1>2. PICK part \in SUBSET Matching : Deliver(part)
  BY DEF QueryCancelled
<1>3. up' \in BOOLEAN /\ outages' \in 0 .. MaxOutages /\ cut' \in BOOLEAN
  BY <1>1 DEF TypeOK
<1>4. TypeOK' /\ SessionInv' /\ CountInv' /\ StatsInv'
  BY <1>1, <1>2, <1>3, DeliverStep
<1>5. PageFillsTotal' /\ SkipInv'
  BY <1>1 DEF PageFillsTotal, SkipInv
<1> QED
  BY <1>4, <1>5 DEF IInv

(* A whole page: what it promises, and what it passes over. *)
LEMMA FetchStep ==
  ASSUME IInv, Fetch
  PROVE  IInv'
<1> USE DEF clickhouse, request, order, table
<1>1. /\ TypeOK /\ pc = "fetch" /\ cut' = cut /\ up' = up /\ outages' = outages
      /\ total \in Nat /\ limit \in Nat /\ offset \in Nat
  BY Numbers DEF IInv, Fetch
<1>2. PICK P \in Pages(Matching, offset, limit) : Deliver(P)
  BY DEF Fetch
<1>3. P \in SUBSET Matching
  BY DEF Pages
<1>4. up' \in BOOLEAN /\ outages' \in 0 .. MaxOutages /\ cut' \in BOOLEAN
  BY <1>1 DEF TypeOK
<1>5. TypeOK' /\ SessionInv' /\ CountInv' /\ StatsInv' /\ Onward
  BY <1>1, <1>2, <1>3, <1>4, DeliverStep
<1>6. /\ got' = Cardinality(P) /\ seen' = seen \union P
      /\ late' = (Cardinality(Matching) > total)
      /\ UNCHANGED <<rows, op, desc, byTime, column, lo, hi, limit, offset, total, known, span>>
  BY <1>2 DEF Deliver
<1>7. IsFiniteSet(Matching) /\ Cardinality(Matching) \in Nat /\ Cardinality(P) \in Nat
  BY <1>1, <1>3, MatchingRows, MoreRows
<1>8. PageFillsTotal'
  <2> SUFFICES ASSUME op \in {"page", "recent"}
               PROVE  got' = limit \/ offset + got' >= total
    BY <1>6 DEF PageFillsTotal
  <2>1. total <= Cardinality(Matching)
    BY <1>1 DEF IInv, CountInv
  <2>2. Cardinality(P) = limit \/ Cardinality(Matching) <= offset + Cardinality(P)
    BY <1>1, <1>7, PageFills
  <2> QED
    BY <1>1, <1>6, <1>7, <2>1, <2>2
<1>9. SkipInv'
  <2> SUFFICES ASSUME op = "page", ~cut, NEW r \in Due', r \notin seen'
               PROVE  /\ pc' \notin {"count", "fetch"}
                      /\ pc' = "more" => offset + limit <= Cardinality(Before(r)')
                      /\ pc' = "done" => late'
    BY <1>1, <1>6 DEF SkipInv
  <2>1. r \in Due /\ r \notin seen /\ r \notin P
    BY <1>1, <1>5, <1>6, OnwardStep
  <2>2. offset <= Cardinality(Before(r))
    BY <1>1, <2>1 DEF IInv, SkipInv
  <2>3. Before(r)' = Before(r)
    BY <1>6 DEF Before, Rows, Precedes, Key
  <2>4. /\ r \in Rows /\ Unique(r) /\ \A q \in Rows : rows[q] \in Nat
        /\ span[1] <= rows[r] /\ rows[r] <= span[2] /\ lo <= rows[r]
        /\ span[1] <= lo /\ span[2] <= hi
        /\ span[1] \in Nat /\ span[2] \in Nat /\ lo \in Nat /\ hi \in Nat
        /\ \A q \in Expired : ~Precedes(q, r)
    BY <1>1, <2>1, Numbers DEF Due, IInv, SessionInv
  <2>5. Matching = {q \in Rows : lo <= rows[q] /\ rows[q] <= hi}
    BY Windowed
  <2>6. r \in Matching \ P
    BY <2>1, <2>4, <2>5
  <2>7. \A q \in Rows : Key(q) \in Nat
    BY <1>1, <2>4, Keyed
  <2>8. ~Precedes(r, r)
    BY <2>4, <2>7 DEF Precedes
  <2>9. \A q \in Matching \ {r} : Precedes(q, r) \/ Precedes(r, q)
    <3> SUFFICES ASSUME NEW q \in Matching \ {r} PROVE Precedes(q, r) \/ Precedes(r, q)
      OBVIOUS
    <3>1. q \in Rows \ {r} /\ Key(q) # Key(r)
      BY <2>4, <2>5 DEF Unique
    <3>2. Key(q) \in Nat /\ Key(r) \in Nat
      BY <2>4, <2>7, <3>1
    <3>3. Key(q) < Key(r) \/ Key(r) < Key(q)
      BY <3>1, <3>2
    <3> QED
      BY <3>2, <3>3 DEF Precedes
  <2>10. Before(r) = {q \in Matching : Precedes(q, r)}
    <3>1. ASSUME NEW q \in Rows
          PROVE  q \in Before(r) <=> q \in Matching /\ Precedes(q, r)
      <4>1. q \in Before(r) <=> Precedes(q, r) /\ span[1] <= rows[q] /\ rows[q] <= hi
        BY DEF Before
      <4>2. Precedes(q, r) /\ span[1] <= rows[q] => lo <= rows[q]
        BY <2>4 DEF Expired
      <4>3. lo <= rows[q] => span[1] <= rows[q]
        BY <2>4
      <4> QED
        BY <2>5, <4>1, <4>2, <4>3
    <3>2. Before(r) \in SUBSET Rows /\ Matching \in SUBSET Rows
      BY <2>5 DEF Before
    <3> QED
      BY <3>1, <3>2
  <2>11. /\ offset + limit <= Cardinality(Before(r))
         /\ Cardinality(Before(r)) < Cardinality(Matching)
    <3> HIDE DEF clickhouse, request, order, table
    <3> QED
      BY <1>1, <1>7, <2>2, <2>6, <2>8, <2>9, <2>10, PagePasses
  <2>12. Cardinality(Before(r)) \in Nat
    BY <1>1, SomeRows DEF Before
  <2>13. pc' = IF HasMore THEN "more" ELSE "done"
    BY <1>2 DEF Deliver
  <2>14. ~HasMore => late'
    <3>1. ~HasMore => Cardinality(Matching) > total
      BY <1>1, <1>7, <2>11, <2>12 DEF HasMore
    <3> QED
      BY <1>6, <3>1, Zenon
  <2> QED
    BY <2>3, <2>11, <2>13, <2>14
<1> QED
  BY <1>5, <1>8, <1>9 DEF IInv

-----------------------------------------------------------------------------
(* The five queries of GetStatsFull *)

LEMMA StatsQueryType ==
  ASSUME TypeOK, NEW n \in Nat \ {0}, NEW x \in StatsQuery(n)
  PROVE  /\ x \in 0 .. MaxRows + MaxTime
         /\ n = 1 => x = Len(rows)
         /\ n >= 3 => x <= Len(rows)
<1>1. MaxRows \in Nat /\ MaxTime \in Nat /\ Len(rows) \in Nat /\ Len(rows) <= MaxRows
  BY Numbers DEF TypeOK
<1>2. CASE n = 1
  BY <1>1, <1>2 DEF StatsQuery
<1>3. CASE n = 2
  <2>1. x = Latest
    BY <1>3 DEF StatsQuery
  <2>2. CASE rows = <<>>
    BY <1>1, <1>3, <2>1, <2>2 DEF Latest
  <2>3. CASE rows # <<>>
    <3> DEFINE last == CHOOSE r \in Rows : \A q \in Rows : rows[q] <= rows[r]
    <3>1. \E r \in Rows : \A q \in Rows : rows[q] <= rows[r]
      BY <2>3, LatestRow
    <3>2. last \in Rows
      BY <3>1
    <3>3. x = rows[last]
      BY <2>1, <2>3 DEF Latest
    <3> HIDE DEF last
    <3>4. rows[last] \in 0 .. MaxTime
      <4>1. rows \in Seq(Times)
        BY DEF TypeOK
      <4>2. \A r \in Rows : rows[r] \in Times
        BY <4>1 DEF Rows
      <4> QED
        BY <3>2, <4>2 DEF Times
    <3> QED
      BY <1>1, <1>3, <3>3, <3>4
  <2> QED
    BY <2>2, <2>3
<1>4. CASE n \notin {1, 2}
  <2>1. Cardinality(Recent) \in Nat /\ Cardinality(Recent) <= Len(rows)
    BY SomeRows DEF Recent
  <2>2. x \in AtMost(NamespaceLimit, Cardinality(Recent)) .. Cardinality(Recent)
        \/ x \in Cardinality(Recent) .. Cardinality(Recent)
    BY <1>4 DEF StatsQuery, Groups
  <2>3. AtMost(NamespaceLimit, Cardinality(Recent)) \in Nat
    BY <2>1, QueryAssumption DEF AtMost
  <2> QED
    BY <1>1, <1>4, <2>1, <2>2, <2>3
<1> QED
  BY <1>2, <1>3, <1>4

LEMMA StatsReadStep ==
  ASSUME IInv, StatsRead
  PROVE  IInv'
<1> USE DEF clickhouse, request, order, history, table
<1> DEFINE n == Len(parts) + 1
           Result == 0 .. MaxRows + MaxTime
<1>1. /\ TypeOK /\ pc = "stats" /\ op = "stats" /\ Len(parts) < 5
      /\ pc' = (IF Len(parts') = 5 THEN "done" ELSE "stats")
      /\ UNCHANGED <<rows, now, up, outages, op, desc, byTime, column, fixed, lo, hi, limit, offset, total,
                     got, seen, known, span, late, cut>>
  BY DEF IInv, SessionInv, StatsInv, StatsRead
<1>2. /\ parts \in Seq(Result) /\ n \in Nat \ {0} /\ Len(parts) \in Nat
      /\ Len(rows) \in Nat /\ known \in 0 .. Len(rows) /\ 0 \in Result
  <2>1. parts \in Seq(Result) /\ known \in 0 .. Len(rows)
    BY <1>1 DEF TypeOK
  <2>2. MaxRows + MaxTime \in Nat /\ Len(rows) \in Nat
    BY <1>1, Numbers
  <2> QED
    BY <2>1, <2>2
<1>3. PICK x \in Result :
        parts' = Append(parts, x) /\ (x = 0 \/ x \in StatsQuery(n))
  <2>1. (\E x \in StatsQuery(n) : parts' = Append(parts, x)) \/ parts' = Append(parts, 0)
    BY DEF StatsRead
  <2> QED
    BY <1>1, <1>2, <2>1, StatsQueryType
<1> HIDE DEF Result
<1>4. /\ parts' \in Seq(Result) /\ Len(parts') = n
      /\ \A k \in 1 .. Len(parts) : parts'[k] = parts[k]
      /\ parts'[n] = x
  BY <1>2, <1>3, Appended
<1>5. Rows' = Rows
  BY <1>1 DEF Rows
<1>6. TypeOK'
  <2>1. Len(parts') <= 5 /\ parts' \in Seq(0 .. MaxRows + MaxTime)
    BY <1>1, <1>2, <1>4 DEF Result
  <2> QED
    BY <1>1, <1>5, <2>1 DEF TypeOK, Times
<1>7. SessionInv' /\ CountInv' /\ PageFillsTotal' /\ SkipInv'
  BY <1>1 DEF IInv, SessionInv, CountInv, PageFillsTotal, SkipInv
<1>8. StatsInv'
  <2>1. parts'[1] = 0 \/ known <= parts'[1]
    <3>1. CASE Len(parts) = 0
      BY <1>1, <1>2, <1>3, <1>4, <3>1, StatsQueryType
    <3>2. CASE Len(parts) >= 1
      <4>1. parts[1] = 0 \/ known <= parts[1]
        BY <1>1, <3>2 DEF IInv, StatsInv
      <4> QED
        BY <1>2, <1>4, <3>2, <4>1
    <3> QED
      BY <1>2, <3>1, <3>2
  <2>2. ASSUME NEW k \in 3 .. n PROVE parts'[k] <= Len(rows)
    <3>1. CASE k = n
      BY <1>1, <1>2, <1>3, <1>4, <3>1, StatsQueryType
    <3>2. CASE k < n
      <4>1. k \in 3 .. Len(parts) /\ parts'[k] = parts[k]
        BY <1>2, <1>4, <3>2
      <4> QED
        BY <1>1, <4>1 DEF IInv, StatsInv
    <3> QED
      BY <1>2, <3>1, <3>2
  <2> QED
    BY <1>1, <1>2, <1>4, <2>1, <2>2 DEF StatsInv
<1> QED
  BY <1>6, <1>7, <1>8 DEF IInv

(* Every step keeps the invariant. *)
LEMMA QueryInvariant == Spec => []IInv
<1>1. Init => IInv
  <2> SUFFICES ASSUME Init PROVE IInv
    OBVIOUS
  <2>1. /\ 0 \in Times /\ Window \in Times /\ Window <= Window
        /\ rows \in Seq(Times) /\ Len(rows) = 0 /\ <<0, 0>> \in Times \X Times
        /\ parts \in Seq(0 .. MaxRows + MaxTime) /\ Len(parts) = 0
        /\ AnyColumn \in Columns
        /\ MaxRows \in Nat /\ 0 \in 0 .. MaxRows /\ 0 \in 0 .. MaxOutages
    BY QueryAssumption DEF Init, Times, AnyColumn, Columns
  <2>2. TypeOK
    <3>1. /\ rows \in Seq(Times) /\ Len(rows) <= MaxRows /\ parts \in Seq(0 .. MaxRows + MaxTime)
          /\ Len(parts) <= 5
      BY <2>1
    <3>2. now \in Times /\ lo \in Times /\ hi \in Times /\ span \in Times \X Times
      BY <2>1 DEF Init
    <3>3. limit \in Nat /\ offset \in 0 .. MaxRows /\ total \in 0 .. Len(rows)
          /\ got \in 0 .. Len(rows) /\ known \in 0 .. Len(rows) /\ outages \in 0 .. MaxOutages
      BY <2>1 DEF Init
    <3>4. desc \in BOOLEAN /\ byTime \in BOOLEAN /\ column \in Columns
      BY <2>1 DEF Init
    <3> QED
      BY <3>1, <3>2, <3>3, <3>4 DEF Init, TypeOK, Ops
  <2>3. SessionInv
    BY <2>1 DEF Init, SessionInv
  <2>4. CountInv /\ StatsInv /\ PageFillsTotal /\ SkipInv
    BY DEF Init, CountInv, StatsInv, PageFillsTotal, SkipInv
  <2> QED
    BY <2>2, <2>3, <2>4 DEF IInv
<1>2. IInv /\ [Next]_vars => IInv'
  BY ArriveStep, AsideStep, OpensStep, NextPageStep, StreamStep, CountStep, FailStep,
    FetchStep, FetchCutStep, QueryCancelledStep, StatsReadStep
    DEF Next, Environment, Handler, Client
<1> QED
  BY <1>1, <1>2, PTL DEF Spec

-----------------------------------------------------------------------------
(* The types of a session's state: the window stays within the clock, the   *)
(* offset of a page within the table, the results of the statistics have    *)
(* values.                                                                  *)
THEOREM QueryTypeOK == Spec => []TypeOK
<1>1. IInv => TypeOK
  BY DEF IInv
<1> QED
  BY <1>1, QueryInvariant, PTL

(* A client of /logs that pages to the end, by time or by another column,   *)
(* has got every row that was there when it began, has a place of its own   *)
(* in that order and is still in the window, unless rows came after the     *)
(* last count, an answer was cut or a row before it left the window.        *)
THEOREM NothingSkipped == Spec => []PagingSkipsNothing
<1>1. IInv => PagingSkipsNothing
  BY DEF IInv, SkipInv, PagingSkipsNothing, Due
<1> QED
  BY <1>1, QueryInvariant, PTL

(* An answer of QueryLogs that was not cut has as many rows as its total    *)
(* and its limit promise.                                                   *)
THEOREM PagesFilled == Spec => []PageFillsTotal
<1>1. IInv => PageFillsTotal
  BY DEF IInv
<1> QED
  BY <1>1, QueryInvariant, PTL

(* A stats answer whose total is below the sum of its levels, namespaces or *)
(* clusters has read a table that grew, or an error of the first query as a *)
(* zero.                                                                    *)
THEOREM StatsExplained == Spec => []StatsTotalExplained
<1>1. IInv => StatsTotalExplained
  <2> SUFFICES ASSUME IInv, op = "stats", pc = "done", parts[1] # 0,
                      NEW n \in 3 .. 5, parts[1] < parts[n]
               PROVE  Len(rows) > known
    BY DEF StatsTotalExplained
  <2>1. Len(parts) = 5
    BY DEF IInv, StatsInv
  <2>2. known <= parts[1] /\ parts[n] <= Len(rows)
    BY <2>1 DEF IInv, StatsInv
  <2>3. parts \in Seq(0 .. MaxRows + MaxTime) /\ known \in Nat /\ Len(rows) \in Nat
    BY Numbers DEF IInv, TypeOK
  <2>4. parts[1] \in Nat /\ parts[n] \in Nat
    <3>1. \A k \in 1 .. Len(parts) : parts[k] \in Nat
      BY <2>3, QueryAssumption
    <3> QED
      BY <2>1, <3>1
  <2> QED
    BY <2>2, <2>3, <2>4
<1> QED
  BY <1>1, QueryInvariant, PTL

=============================================================================
