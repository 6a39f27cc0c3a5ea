---------------------------- MODULE LogBodyProofs ----------------------------
(* Proofs about LogBody, for bodies with any number of records. *)
EXTENDS LogBody, FiniteSetTheorems, TLAPS

-----------------------------------------------------------------------------
(* The inductive invariant: what each stage of the decoding knows of logs.  *)

(* An array that parses leaves all its records, whatever their types. *)
ArrayKept ==
  pc # "array" /\ ArrayParses => \A i \in Positions : \E k \in DOMAIN logs : logs[k] = i

(* Of the lines read so far, those that decode are in logs. *)
LinesKept ==
  pc # "array" =>
    \A i \in alone :
      i < line /\ WellTyped(records[i]) => \E k \in DOMAIN logs : logs[k] = i

(* The scanner has gone past the whole body or stopped at a long line. *)
LinesRead ==
  pc \in {"single", "count", "done"} /\ ~ArraySucceeds /\ line <= Len(records)
    => ~Scans(line)

(* One object is read by the third decoder or not at all. *)
ObjectRead ==
  form = "object" =>
    /\ pc = "scan" => logs = <<>>
    /\ pc = "count" \/ status = 200 => logs = <<1>>
    /\ status = 400 => ~WellTyped(records[1])

(* A body that came to the third decoder has brought nothing before it. *)
NothingBefore == pc = "single" \/ status = 400 => logs = <<>> /\ ~ArrayParses

(* What a position in logs twice means. *)
Doubled(i) ==
  /\ ArrayParses
  /\ LineDecodes(i)
  /\ \E j \in Positions : ~WellTyped(records[j])

LogsDoubled ==
  \A k, l \in DOMAIN logs : k # l /\ logs[k] = logs[l] => Doubled(logs[k])

(* When the array has left nothing, logs holds only lines before the next.  *)
LogsBehind ==
  pc = "scan" /\ ~ArrayParses => \A k \in DOMAIN logs : logs[k] < line

(* The entries are the logs with a message among those looked at. *)
AcceptedFromLogs ==
  /\ \A m \in DOMAIN accepted : \E k \in 1 .. counted : logs[k] = accepted[m]
  /\ \A k \in 1 .. counted :
       HasMessage(records[logs[k]]) => \E m \in DOMAIN accepted : accepted[m] = logs[k]

Stages ==
  /\ status = 200 => pc = "done" /\ counted = Len(logs)
  /\ status = 400 => pc = "done"
  /\ pc \notin {"count", "done"} => counted = 0 /\ accepted = <<>>
  /\ pc = "array" => logs = <<>> /\ line = 1
  /\ pc = "scan" => ~ArraySucceeds

IInv ==
  /\ TypeOK /\ IsBody
  /\ ArrayKept /\ LinesKept /\ LinesRead /\ ObjectRead /\ NothingBefore
  /\ LogsDoubled /\ LogsBehind /\ DoubledOnlyAlone /\ AcceptedFromLogs
  /\ Stages

-----------------------------------------------------------------------------
(* The slice an array decodes into: one log for each of its records. *)
LEMMA WholeArray ==
  ASSUME TypeOK
  PROVE  /\ [i \in Positions |-> i] \in Seq(Positions)
         /\ Len([i \in Positions |-> i]) = Len(records)
<1>1. Len(records) \in Nat
  BY DEF TypeOK
<1> QED
  BY <1>1 DEF Positions

(* What a loop that appends to a slice does to it. *)
LEMMA Appended ==
  ASSUME NEW S, NEW s \in Seq(S), NEW e \in S
  PROVE  /\ Append(s, e) \in Seq(S)
         /\ Len(s) \in Nat
         /\ DOMAIN s = 1 .. Len(s)
         /\ DOMAIN Append(s, e) = 1 .. Len(s) + 1
         /\ Len(Append(s, e)) = Len(s) + 1
         /\ \A k \in DOMAIN s : Append(s, e)[k] = s[k]
         /\ Append(s, e)[Len(s) + 1] = e
OBVIOUS

(* A body the array decoder has reported an error for has a record that is  *)
(* not well typed; one without records has none.                            *)
LEMMA ArrayErrors ==
  ASSUME IsArray, ~ArraySucceeds
  PROVE  /\ \E i \in Positions : ~WellTyped(records[i])
         /\ 1 .. Len(records) # {}
BY DEF ArraySucceeds, ArrayParses, Malformed, WellTyped, Positions

-----------------------------------------------------------------------------
(* The steps, one lemma for each action that appends or replaces logs. *)

(* The array decoder replaces the empty slice. *)
LEMMA DecodeArrayStep == IInv /\ DecodeArray => IInv'
<1> SUFFICES ASSUME IInv, DecodeArray PROVE IInv'
  OBVIOUS
<1> USE DEF body, entries
<1>1. /\ TypeOK /\ counted = 0 /\ accepted = <<>> /\ line = 1
      /\ UNCHANGED <<form, records, alone, line, counted, accepted, rejected, status>>
      /\ pc = "array" /\ status = 0
  BY DEF IInv, TypeOK, DecodeArray, Stages
<1>2. Positions' = Positions /\ IsArray' = IsArray /\ ArrayParses' = ArrayParses
      /\ ArraySucceeds' = ArraySucceeds /\ IsBody'
  BY <1>1 DEF IInv, IsBody, Positions, IsArray, ArrayParses, ArraySucceeds
<1>3. \/ ArrayParses /\ logs' = [i \in Positions |-> i]
      \/ ~ArrayParses /\ logs' = <<>>
  BY DEF DecodeArray
<1>4. logs' \in Seq(Positions) /\ Len(logs') \in Nat
  <2>1. CASE ArrayParses
    <3>1. TypeOK
      BY <1>1
    <3>2. logs' = [i \in Positions |-> i]
      BY <1>3, <2>1
    <3>3. [i \in Positions |-> i] \in Seq(Positions)
      BY <3>1, WholeArray
    <3>4. logs' \in Seq(Positions)
      BY <3>2, <3>3
    <3> QED
      BY <3>4
  <2>2. CASE ~ArrayParses
    <3>1. logs' = <<>>
      BY <1>3, <2>2
    <3> QED
      BY <3>1
  <2> QED
    BY <2>1, <2>2
<1>5. TypeOK'
  BY <1>1, <1>2, <1>4 DEF TypeOK, DecodeArray
<1>6. ArrayKept'
  BY <1>1, <1>2, <1>3 DEF ArrayKept, Positions
<1>7. LinesKept'
  BY <1>1, <1>2 DEF IInv, IsBody, LinesKept, Positions
<1>8. LinesRead' /\ ObjectRead' /\ NothingBefore'
  <2>1. pc' = IF ArraySucceeds THEN "count" ELSE "scan"
    BY DEF DecodeArray
  <2>2. ArraySucceeds => ArrayParses
    BY DEF ArraySucceeds
  <2>3. form = "object" => ~ArrayParses
    BY DEF ArrayParses, IsArray
  <2>4. LinesRead'
    BY <1>2, <2>1 DEF LinesRead
  <2>5. ObjectRead'
    BY <1>1, <1>2, <1>3, <2>1, <2>2, <2>3 DEF ObjectRead
  <2>6. NothingBefore'
    BY <1>1, <2>1 DEF NothingBefore
  <2> QED
    BY <2>4, <2>5, <2>6
<1>9. LogsDoubled' /\ LogsBehind'
  BY <1>1, <1>2, <1>3 DEF LogsDoubled, LogsBehind, ArrayParses, IsArray
<1>10. DoubledOnlyAlone' /\ AcceptedFromLogs' /\ Stages'
  BY <1>1, <1>2 DEF DoubledOnlyAlone, AcceptedFromLogs, Stages, DecodeArray
<1> QED
  BY <1>2, <1>5, <1>6, <1>7, <1>8, <1>9, <1>10 DEF IInv

(* A line of the scanner appends a record or nothing. *)
LEMMA ScanLineStep == IInv /\ ScanLine => IInv'
<1> SUFFICES ASSUME IInv, ScanLine PROVE IInv'
  OBVIOUS
<1> USE DEF body, entries
<1>1. /\ TypeOK /\ pc = "scan" /\ pc' = "scan" /\ ~ArraySucceeds
      /\ counted = 0 /\ accepted = <<>> /\ status = 0
      /\ UNCHANGED <<form, records, alone, counted, accepted, rejected, status>>
      /\ line \in Positions /\ line' = line + 1 /\ Len(records) \in Nat
  BY DEF IInv, TypeOK, ScanLine, Stages, Positions
<1>2. Positions' = Positions /\ IsArray' = IsArray /\ ArrayParses' = ArrayParses
      /\ ArraySucceeds' = ArraySucceeds /\ IsBody'
  BY <1>1 DEF IInv, IsBody, Positions, IsArray, ArrayParses, ArraySucceeds
<1>3. logs \in Seq(Positions)
  BY <1>1 DEF TypeOK
<1>4. CASE ~LineDecodes(line)
  <2>1. logs' = logs
    BY <1>4 DEF ScanLine
  <2>2. TypeOK'
    BY <1>1, <1>2, <2>1 DEF TypeOK, Positions
  <2>3. ArrayKept' /\ LinesRead' /\ ObjectRead' /\ NothingBefore'
    BY <1>1, <1>2, <2>1 DEF IInv, ArrayKept, LinesRead, ObjectRead, NothingBefore
  <2>4. LinesKept'
    BY <1>1, <1>2, <1>4, <2>1 DEF IInv, IsBody, LinesKept, LineDecodes, Positions
  <2>5. LogsDoubled' /\ DoubledOnlyAlone' /\ AcceptedFromLogs' /\ Stages'
    BY <1>1, <1>2, <2>1 DEF IInv, LogsDoubled, Doubled, LineDecodes, DoubledOnlyAlone,
      AcceptedFromLogs, Stages
  <2>6. LogsBehind'
    BY <1>1, <1>2, <1>3, <2>1 DEF IInv, LogsBehind, Positions
  <2> QED
    BY <1>2, <2>2, <2>3, <2>4, <2>5, <2>6 DEF IInv
<1>5. CASE LineDecodes(line)
  <2>1. logs' = Append(logs, line)
    BY <1>5 DEF ScanLine
  <2>2. /\ logs' \in Seq(Positions) /\ Len(logs) \in Nat
        /\ DOMAIN logs = 1 .. Len(logs)
        /\ DOMAIN logs' = 1 .. Len(logs) + 1
        /\ \A k \in DOMAIN logs : logs'[k] = logs[k]
        /\ logs'[Len(logs) + 1] = line
        /\ Len(logs') = Len(logs) + 1
    BY <1>1, <1>3, <2>1, Appended
  <2>3. TypeOK'
    BY <1>1, <1>2, <2>2 DEF TypeOK, Positions
  <2>4. ArrayKept'
    <3>1. \A k \in DOMAIN logs : k \in DOMAIN logs' /\ logs'[k] = logs[k]
      BY <2>2
    <3> QED
      BY <1>1, <1>2, <3>1 DEF IInv, ArrayKept
  <2>5. LinesKept'
    <3> SUFFICES ASSUME NEW i \in alone, i < line + 1, WellTyped(records[i])
                 PROVE  \E k \in DOMAIN logs' : logs'[k] = i
      BY <1>1, <1>2 DEF LinesKept, WellTyped
    <3>1. CASE i = line
      BY <2>2, <3>1
    <3>2. CASE i < line
      <4>1. PICK k \in DOMAIN logs : logs[k] = i
        BY <1>1, <3>2 DEF IInv, LinesKept
      <4> QED
        BY <2>2, <4>1
    <3> QED
      BY <1>1, <3>1, <3>2 DEF IInv, IsBody, Positions
  <2>6. LinesRead' /\ NothingBefore' /\ Stages'
    BY <1>1, <1>2 DEF IInv, LinesRead, NothingBefore, Stages
  <2>7. ObjectRead'
    BY <1>1, <1>5 DEF IInv, IsBody, ObjectRead, LineDecodes
  <2>8. LogsDoubled'
    <3> SUFFICES ASSUME NEW k \in DOMAIN logs', NEW l \in DOMAIN logs',
                        k # l, logs'[k] = logs'[l]
                 PROVE  Doubled(logs'[k])
      BY <1>1, <1>2 DEF LogsDoubled, Doubled, LineDecodes, WellTyped
    <3>1. CASE k \in DOMAIN logs /\ l \in DOMAIN logs
      <4>1. Doubled(logs[k])
        BY <2>2, <3>1 DEF IInv, LogsDoubled
      <4> QED
        BY <2>2, <3>1, <4>1
    <3>2. CASE ~(k \in DOMAIN logs /\ l \in DOMAIN logs)
      <4>1. logs'[k] = line /\ \E m \in DOMAIN logs : logs[m] = line
        BY <2>2, <3>2
      <4>2. ArrayParses
        BY <1>1, <4>1 DEF IInv, LogsBehind, Positions
      <4>3. \E j \in Positions : ~WellTyped(records[j])
        BY <1>1, <4>2, ArrayErrors DEF ArrayParses
      <4> QED
        BY <1>5, <4>1, <4>2, <4>3 DEF Doubled
    <3> QED
      BY <3>1, <3>2
  <2>9. LogsBehind'
    <3> SUFFICES ASSUME ~ArrayParses, NEW k \in DOMAIN logs'
                 PROVE  logs'[k] < line + 1
      BY <1>1, <1>2 DEF LogsBehind
    <3>1. CASE k \in DOMAIN logs
      <4>1. logs[k] \in Positions /\ logs[k] < line
        BY <1>1, <1>3, <3>1 DEF IInv, LogsBehind
      <4> QED
        BY <1>1, <2>2, <3>1, <4>1 DEF Positions
    <3>2. CASE k = Len(logs) + 1
      BY <1>1, <2>2, <3>2 DEF Positions
    <3> QED
      BY <2>2, <3>1, <3>2
  <2>10. DoubledOnlyAlone' /\ AcceptedFromLogs'
    BY <1>1 DEF DoubledOnlyAlone, AcceptedFromLogs
  <2> QED
    BY <1>2, <2>3, <2>4, <2>5, <2>6, <2>7, <2>8, <2>9, <2>10 DEF IInv
<1> QED
  BY <1>4, <1>5

(* The scanner ends: with logs to count, or for the third decoder. *)
LEMMA ScanEndStep == IInv /\ ScanEnd => IInv'
<1> SUFFICES ASSUME IInv, ScanEnd PROVE IInv'
  OBVIOUS
<1> USE DEF body, entries
<1>1. /\ TypeOK /\ pc = "scan" /\ pc' \in {"single", "count"} /\ ~ArraySucceeds
      /\ UNCHANGED <<form, records, alone, line, logs, counted, accepted, rejected, status>>
      /\ counted = 0 /\ accepted = <<>> /\ status = 0
      /\ line <= Len(records) => ~Scans(line)
      /\ pc' = "single" <=> logs = <<>>
  BY DEF IInv, TypeOK, ScanEnd, Stages
<1>2. Positions' = Positions /\ IsArray' = IsArray /\ ArrayParses' = ArrayParses
      /\ ArraySucceeds' = ArraySucceeds /\ IsBody'
  BY <1>1 DEF IInv, IsBody, Positions, IsArray, ArrayParses, ArraySucceeds
<1>3. TypeOK'
  BY <1>1, <1>2 DEF TypeOK
<1>4. ArrayKept' /\ LinesKept'
  BY <1>1, <1>2 DEF IInv, ArrayKept, LinesKept
<1>5. LinesRead' /\ ObjectRead'
  BY <1>1, <1>2 DEF IInv, LinesRead, ObjectRead, Scans
<1>6. NothingBefore'
  <2> SUFFICES ASSUME logs = <<>> PROVE ~ArrayParses
    BY <1>1, <1>2 DEF NothingBefore
  <2>1. ArrayParses => IsArray
    BY DEF ArrayParses
  <2>2. ArrayParses => \E i \in Positions : \E k \in DOMAIN logs : logs[k] = i
    BY <1>1, <2>1, ArrayErrors DEF IInv, ArrayKept
  <2> QED
    BY <2>2
<1>7. LogsDoubled' /\ LogsBehind'
  BY <1>1, <1>2 DEF IInv, LogsDoubled, Doubled, LineDecodes, LogsBehind
<1>8. DoubledOnlyAlone' /\ AcceptedFromLogs' /\ Stages'
  BY <1>1, <1>2 DEF IInv, DoubledOnlyAlone, LineDecodes, AcceptedFromLogs, Stages
<1> QED
  BY <1>2, <1>3, <1>4, <1>5, <1>6, <1>7, <1>8 DEF IInv

(* The third decoder finds its slice empty. *)
LEMMA DecodeSingleStep == IInv /\ DecodeSingle => IInv'
<1> SUFFICES ASSUME IInv, DecodeSingle PROVE IInv'
  OBVIOUS
<1> USE DEF body, entries
<1>1. /\ TypeOK /\ pc = "single" /\ logs = <<>> /\ ~ArrayParses
      /\ UNCHANGED <<form, records, alone, line, counted, accepted, rejected>>
      /\ counted = 0 /\ accepted = <<>> /\ status = 0
      /\ Len(records) \in Nat
  BY DEF IInv, TypeOK, DecodeSingle, Stages, NothingBefore
<1>2. Positions' = Positions /\ IsArray' = IsArray /\ ArrayParses' = ArrayParses
      /\ ArraySucceeds' = ArraySucceeds /\ IsObject' = IsObject /\ IsBody'
  BY <1>1 DEF IInv, IsBody, Positions, IsArray, ArrayParses, ArraySucceeds, IsObject
<1>3. \/ IsObject /\ logs' = <<1>> /\ pc' = "count" /\ status' = 0
      \/ ~IsObject /\ logs' = <<>> /\ pc' = "done" /\ status' = 400
  BY <1>1 DEF DecodeSingle
<1>4. logs' \in Seq(Positions) /\ Len(logs') \in Nat
  <2>1. IsObject => 1 \in Positions
    BY DEF IsObject, Positions
  <2>2. CASE IsObject
    <3>1. logs' = <<1>> /\ 1 \in Positions
      BY <1>3, <2>1, <2>2
    <3> QED
      BY <3>1
  <2>3. CASE ~IsObject
    <3>1. logs' = <<>>
      BY <1>3, <2>3
    <3> QED
      BY <3>1
  <2> QED
    BY <2>2, <2>3
<1>5. TypeOK'
  BY <1>1, <1>2, <1>3, <1>4 DEF TypeOK
<1>6. ArrayKept' /\ NothingBefore'
  BY <1>1, <1>2, <1>3 DEF ArrayKept, NothingBefore
<1>7. LinesKept'
  BY <1>1, <1>2, <1>3 DEF IInv, LinesKept, IsObject, Positions
<1>8. LinesRead' /\ ObjectRead'
  <2>1. form = "object" => (IsObject <=> WellTyped(records[1]))
    BY DEF IInv, IsBody, IsObject, IsArray
  <2> QED
    BY <1>1, <1>2, <1>3, <2>1 DEF IInv, LinesRead, ObjectRead, Scans, WellTyped
<1>9. LogsDoubled' /\ LogsBehind'
  BY <1>3 DEF LogsDoubled, LogsBehind
<1>10. DoubledOnlyAlone' /\ AcceptedFromLogs' /\ Stages'
  BY <1>1, <1>3 DEF DoubledOnlyAlone, AcceptedFromLogs, Stages
<1> QED
  BY <1>2, <1>5, <1>6, <1>7, <1>8, <1>9, <1>10 DEF IInv

(* One round of the loop over logs. *)
LEMMA CountLogStep == IInv /\ CountLog => IInv'
<1> SUFFICES ASSUME IInv, CountLog PROVE IInv'
  OBVIOUS
<1> USE DEF body, entries
<1> DEFINE now == logs[counted + 1]
<1>1. /\ TypeOK /\ pc = "count" /\ counted \in Nat /\ counted + 1 \in DOMAIN logs
      /\ counted' = counted + 1 /\ counted < Len(logs) /\ Len(logs) \in Nat
      /\ UNCHANGED <<form, records, alone, pc, line, logs, status>>
      /\ status \notin {200, 400} /\ now \in Positions
      /\ accepted \in Seq(Positions)
  BY DEF IInv, TypeOK, CountLog, Stages
<1>2. Positions' = Positions /\ IsArray' = IsArray /\ ArrayParses' = ArrayParses
      /\ ArraySucceeds' = ArraySucceeds /\ IsBody'
  BY <1>1 DEF IInv, IsBody, Positions, IsArray, ArrayParses, ArraySucceeds
<1>3. ArrayKept' /\ LinesKept' /\ LinesRead' /\ ObjectRead' /\ NothingBefore'
  BY <1>1, <1>2 DEF IInv, ArrayKept, LinesKept, LinesRead, ObjectRead, NothingBefore, Scans
<1>4. LogsDoubled' /\ LogsBehind' /\ Stages'
  BY <1>1, <1>2 DEF IInv, LogsDoubled, Doubled, LineDecodes, LogsBehind, Stages
<1>5. CASE HasMessage(records[now])
  <2>1. accepted' = Append(accepted, now) /\ rejected' = rejected
    BY <1>1, <1>5 DEF CountLog
  <2>2. /\ accepted' \in Seq(Positions) /\ Len(accepted) \in Nat
        /\ DOMAIN accepted = 1 .. Len(accepted)
        /\ DOMAIN accepted' = 1 .. Len(accepted) + 1
        /\ \A m \in DOMAIN accepted : accepted'[m] = accepted[m]
        /\ accepted'[Len(accepted) + 1] = now
    BY <1>1, <2>1, Appended
  <2>3. TypeOK'
    BY <1>1, <1>2, <2>1, <2>2 DEF TypeOK
  <2>4. AcceptedFromLogs'
    <3>1. \A m \in DOMAIN accepted' : \E k \in 1 .. counted + 1 : logs[k] = accepted'[m]
      <4> SUFFICES ASSUME NEW m \in DOMAIN accepted'
                   PROVE  \E k \in 1 .. counted + 1 : logs[k] = accepted'[m]
        OBVIOUS
      <4>1. CASE m \in DOMAIN accepted
        <5>1. PICK k \in 1 .. counted : logs[k] = accepted[m]
          BY <4>1 DEF IInv, AcceptedFromLogs
        <5> QED
          BY <1>1, <2>2, <4>1, <5>1
      <4>2. CASE m = Len(accepted) + 1
        BY <1>1, <2>2, <4>2
      <4> QED
        BY <2>2, <4>1, <4>2
    <3>2. ASSUME NEW k \in 1 .. counted + 1, HasMessage(records[logs[k]])
          PROVE  \E m \in DOMAIN accepted' : accepted'[m] = logs[k]
      <4>1. CASE k \in 1 .. counted
        <5>1. PICK m \in DOMAIN accepted : accepted[m] = logs[k]
          BY <3>2, <4>1 DEF IInv, AcceptedFromLogs
        <5> QED
          BY <2>2, <5>1
      <4>2. CASE k = counted + 1
        BY <2>2, <4>2
      <4> QED
        BY <1>1, <4>1, <4>2
    <3> QED
      BY <1>1, <3>1, <3>2 DEF AcceptedFromLogs, HasMessage
  <2>5. DoubledOnlyAlone'
    <3> SUFFICES ASSUME NEW m \in DOMAIN accepted', NEW n \in DOMAIN accepted',
                        m # n, accepted'[m] = accepted'[n]
                 PROVE  Doubled(accepted'[m])
      BY <1>1, <1>2 DEF DoubledOnlyAlone, Doubled, LineDecodes, WellTyped
    <3>1. CASE m \in DOMAIN accepted /\ n \in DOMAIN accepted
      BY <2>2, <3>1 DEF IInv, DoubledOnlyAlone, Doubled
    <3>2. CASE ~(m \in DOMAIN accepted /\ n \in DOMAIN accepted)
      <4>1. accepted'[m] = now /\ \E o \in DOMAIN accepted : accepted[o] = now
        BY <2>2, <3>2
      <4>2. \E k \in 1 .. counted : logs[k] = now
        BY <4>1 DEF IInv, AcceptedFromLogs
      <4>3. PICK k \in DOMAIN logs : k # counted + 1 /\ logs[k] = now
        BY <1>1, <4>2 DEF TypeOK
      <4>4. Doubled(logs[k])
        BY <1>1, <4>3 DEF IInv, LogsDoubled
      <4> QED
        BY <4>1, <4>3, <4>4
    <3> QED
      BY <3>1, <3>2
  <2> QED
    BY <1>2, <1>3, <1>4, <2>3, <2>4, <2>5 DEF IInv
<1>6. CASE ~HasMessage(records[now])
  <2>1. accepted' = accepted /\ rejected' = rejected + 1
    BY <1>1, <1>6 DEF CountLog
  <2>2. TypeOK'
    BY <1>1, <1>2, <2>1 DEF TypeOK
  <2>3. DoubledOnlyAlone'
    BY <1>1, <1>2, <2>1 DEF IInv, DoubledOnlyAlone, LineDecodes
  <2>4. \A m \in DOMAIN accepted : \E k \in 1 .. counted + 1 : logs[k] = accepted[m]
    BY <1>1 DEF IInv, AcceptedFromLogs
  <2>5. ASSUME NEW k \in 1 .. counted + 1, HasMessage(records[logs[k]])
        PROVE  \E m \in DOMAIN accepted : accepted[m] = logs[k]
    <3>1. k \in 1 .. counted
      BY <1>1, <1>6, <2>5
    <3> QED
      BY <2>5, <3>1 DEF IInv, AcceptedFromLogs
  <2>6. AcceptedFromLogs'
    BY <1>1, <2>1, <2>4, <2>5 DEF AcceptedFromLogs, HasMessage
  <2> QED
    BY <1>2, <1>3, <1>4, <2>2, <2>3, <2>6 DEF IInv
<1> QED
  BY <1>5, <1>6

(* The reply. *)
LEMMA AnswerStep == IInv /\ Answer => IInv'
<1> SUFFICES ASSUME IInv, Answer PROVE IInv'
  OBVIOUS
<1> USE DEF body, entries
<1>1. /\ TypeOK /\ pc = "count" /\ pc' = "done" /\ status' = 200 /\ counted = Len(logs)
      /\ UNCHANGED <<form, records, alone, line, logs, counted, accepted, rejected>>
  BY DEF IInv, Answer
<1>2. Positions' = Positions /\ IsArray' = IsArray /\ ArrayParses' = ArrayParses
      /\ ArraySucceeds' = ArraySucceeds /\ IsBody'
  BY <1>1 DEF IInv, IsBody, Positions, IsArray, ArrayParses, ArraySucceeds
<1>3. TypeOK'
  BY <1>1, <1>2 DEF TypeOK
<1>4. ArrayKept' /\ LinesKept' /\ LinesRead' /\ ObjectRead' /\ NothingBefore'
  BY <1>1, <1>2 DEF IInv, ArrayKept, LinesKept, LinesRead, ObjectRead, NothingBefore, Scans
<1>5. LogsDoubled' /\ LogsBehind' /\ Stages'
  BY <1>1, <1>2 DEF IInv, LogsDoubled, Doubled, LineDecodes, LogsBehind, Stages
<1>6. DoubledOnlyAlone' /\ AcceptedFromLogs'
  BY <1>1, <1>2 DEF IInv, DoubledOnlyAlone, LineDecodes, AcceptedFromLogs
<1> QED
  BY <1>2, <1>3, <1>4, <1>5, <1>6 DEF IInv

(* Every step keeps the invariant. *)
LEMMA BodyInvariant == Spec => []IInv
<1>1. Init => IInv
  <2> SUFFICES ASSUME Init PROVE IInv
    OBVIOUS
  <2>1. records \in Seq(Records)
    BY DEF Init, RecordSeqs
  <2>2. TypeOK
    BY <2>1 DEF Init, TypeOK, Positions
  <2> QED
    BY <2>2 DEF Init, IInv, IsBody, ArrayKept, LinesKept, LinesRead, ObjectRead,
      NothingBefore, LogsDoubled, LogsBehind, DoubledOnlyAlone, AcceptedFromLogs, Stages
<1>2. IInv /\ UNCHANGED vars => IInv'
  BY DEF vars, body, entries, IInv, TypeOK, Positions, ArrayKept, LinesKept, LinesRead,
    ObjectRead, NothingBefore, LogsDoubled, LogsBehind, DoubledOnlyAlone, AcceptedFromLogs,
    Stages, Doubled, LineDecodes, IsBody, Scans, IsArray, ArrayParses, ArraySucceeds
<1>3. IInv /\ [Next]_vars => IInv'
  BY <1>2, DecodeArrayStep, ScanLineStep, ScanEndStep, DecodeSingleStep, CountLogStep,
    AnswerStep DEF Next
<1> QED
  BY <1>1, <1>3, PTL DEF Spec

-----------------------------------------------------------------------------
(* The types of the decoder's state: positions in logs and entries are      *)
(* positions of the body, and the loops stay within their slices.           *)
THEOREM BodyTypeOK == Spec => []TypeOK
<1>1. IInv => TypeOK
  BY DEF IInv
<1> QED
  BY <1>1, BodyInvariant, PTL

(* HandleLogs accepts a record twice in one case only: it has a line of its *)
(* own in an array in which another record has a mistyped field.            *)
THEOREM AloneDoubled == Spec => []DoubledOnlyAlone
<1>1. IInv => DoubledOnlyAlone
  BY DEF IInv
<1> QED
  BY <1>1, BodyInvariant, PTL

(* A record that is missing from an answer 200 stood in an array with a     *)
(* malformed record, did not decode itself, or the scanner had stopped.     *)
THEOREM MissingHasReason == Spec => []MissingExplained
<1>1. IInv => MissingExplained
  <2> SUFFICES ASSUME IInv, status = 200, NEW i \in Messages \ AcceptedSet
               PROVE  /\ IsArray => \E j \in Positions : Malformed(records[j])
                      /\ LineDecodes(i) => Unreached(i)
    BY DEF MissingExplained
  <2>1. /\ pc = "done" /\ counted = Len(logs) /\ Len(logs) \in Nat
        /\ DOMAIN logs = 1 .. Len(logs) /\ i \in Positions /\ HasMessage(records[i])
        /\ line \in 1 .. Len(records) + 1 /\ Len(records) \in Nat
    BY DEF IInv, TypeOK, Stages, Messages
  <2>2. \A k \in DOMAIN logs : logs[k] # i
    BY <2>1 DEF IInv, AcceptedFromLogs, AcceptedSet
  <2>3. ~ArrayParses
    BY <2>1, <2>2 DEF IInv, ArrayKept
  <2>4. ASSUME LineDecodes(i) PROVE Unreached(i)
    <3>1. line \in 1 .. i
      BY <2>1, <2>2, <2>4 DEF IInv, LinesKept, LineDecodes, Positions
    <3>2. records[line].long
      BY <2>1, <2>3, <3>1 DEF IInv, LinesRead, Scans, ArraySucceeds, Positions
    <3> QED
      BY <3>1, <3>2 DEF Unreached
  <2> QED
    BY <2>3, <2>4 DEF ArrayParses
<1> QED
  BY <1>1, BodyInvariant, PTL

(* A refused body has left no record behind that was decoded, and nothing   *)
(* readable stood before its first line that is too long.                   *)
THEOREM RefusedUnreadable == Spec => []RefusedMeansUnreadable
<1>1. IInv => RefusedMeansUnreadable
  <2> SUFFICES ASSUME IInv, status = 400
               PROVE  /\ logs = <<>>
                      /\ \A i \in Positions : LineDecodes(i) => Unreached(i)
                      /\ form = "object" => ~WellTyped(records[1])
    BY DEF RefusedMeansUnreadable
  <2>1. /\ pc = "done" /\ logs = <<>> /\ ~ArrayParses
        /\ line \in 1 .. Len(records) + 1 /\ Len(records) \in Nat
    BY DEF IInv, TypeOK, Stages, NothingBefore
  <2>2. ASSUME NEW i \in Positions, LineDecodes(i) PROVE Unreached(i)
    <3>1. line \in 1 .. i
      BY <2>1, <2>2 DEF IInv, LinesKept, LineDecodes, Positions
    <3>2. records[line].long
      BY <2>1, <3>1 DEF IInv, LinesRead, Scans, ArraySucceeds, Positions
    <3> QED
      BY <3>1, <3>2 DEF Unreached
  <2> QED
    BY <2>1, <2>2 DEF IInv, ObjectRead
<1> QED
  BY <1>1, BodyInvariant, PTL

-----------------------------------------------------------------------------
(* Valid bodies *)

(* What the decoders make of a body none of them has to complain of: the    *)
(* logs are its records up to the line read, in order, and so are the       *)
(* entries taken from them.                                                 *)
InOrder(s) == \A m, n \in DOMAIN s : m < n => s[m] < s[n]

ValidInv ==
  /\ \A m \in DOMAIN accepted : HasMessage(records[accepted[m]])
  /\ pc = "done" => status # 0
  /\ IsValid =>
       /\ \A k \in DOMAIN logs : logs[k] = k
       /\ InOrder(accepted)
       /\ pc = "scan" => ~IsArray /\ Len(logs) = IF form = "lines" THEN line - 1 ELSE 0
       /\ pc = "single" => IsObject
       /\ pc \in {"count", "done"} => Len(logs) = Len(records)
       /\ status # 400

(* The lists of the invariants, with their lengths. *)
LEMMA Lists ==
  ASSUME IInv
  PROVE  /\ Len(records) \in Nat /\ Len(logs) \in Nat /\ Len(accepted) \in Nat
         /\ counted \in Nat /\ counted <= Len(logs) /\ rejected \in Nat
         /\ line \in 1 .. Len(records) + 1
         /\ logs \in Seq(Positions) /\ accepted \in Seq(Positions)
         /\ DOMAIN logs = 1 .. Len(logs) /\ DOMAIN accepted = 1 .. Len(accepted)
BY DEF IInv, TypeOK

LEMMA ValidInit == Init => ValidInv
<1> SUFFICES ASSUME Init PROVE ValidInv
  OBVIOUS
<1>1. /\ logs = <<>> /\ accepted = <<>> /\ rejected = 0 /\ counted = 0 /\ status = 0
      /\ pc = "array" /\ (form = "lines" => Len(records) > 0)
  BY DEF Init, IsBody
<1> QED
  BY <1>1 DEF ValidInv, InOrder

LEMMA ValidArrayStep ==
  ASSUME IInv, ValidInv, DecodeArray
  PROVE  ValidInv'
<1> USE DEF body, entries
<1>1. /\ pc = "array" /\ accepted = <<>> /\ counted = 0 /\ logs = <<>> /\ line = 1
      /\ pc' = IF ArraySucceeds THEN "count" ELSE "scan"
      /\ UNCHANGED <<form, records, alone, line, counted, accepted, rejected, status>>
  BY DEF IInv, Stages, DecodeArray
<1>2. Positions' = Positions /\ IsArray' = IsArray /\ IsValid' = IsValid
  BY <1>1 DEF Positions, IsArray, IsValid, WellTyped
<1>3. ASSUME IsValid
      PROVE  /\ \A k \in DOMAIN logs' : logs'[k] = k
             /\ pc' = "scan" => ~IsArray /\ Len(logs') = 0
             /\ pc' = "count" => Len(logs') = Len(records)
  <2>1. ArraySucceeds <=> IsArray
    BY <1>3 DEF IsValid, ArraySucceeds, ArrayParses, WellTyped, Malformed
  <2>2. CASE IsArray
    <3>1. logs' = [i \in Positions |-> i] /\ pc' = "count"
      BY <1>1, <2>1, <2>2 DEF DecodeArray, ArraySucceeds
    <3>2. Len(logs') = Len(records)
      <4>1. TypeOK
        BY DEF IInv
      <4> QED
        BY <3>1, <4>1, WholeArray
    <3> QED
      BY <3>1, <3>2
  <2>3. CASE ~IsArray
    <3>1. logs' = <<>> /\ pc' = "scan"
      BY <1>1, <2>1, <2>3 DEF DecodeArray, ArrayParses
    <3> QED
      BY <2>3, <3>1
  <2> QED
    BY <2>2, <2>3
<1>4. IsValid' =>
        /\ \A k \in DOMAIN logs' : logs'[k] = k
        /\ InOrder(accepted')
        /\ pc' = "scan" => ~IsArray' /\ Len(logs') = IF form' = "lines" THEN line' - 1 ELSE 0
        /\ pc' = "count" => Len(logs') = Len(records')
        /\ status' # 400
  BY <1>1, <1>2, <1>3 DEF InOrder, ValidInv
<1> QED
  BY <1>1, <1>4 DEF ValidInv

LEMMA ValidScanStep ==
  ASSUME IInv, ValidInv, ScanLine
  PROVE  ValidInv'
<1> USE DEF body, entries
<1>1. /\ pc = "scan" /\ pc' = "scan" /\ line \in Positions /\ line' = line + 1
      /\ UNCHANGED <<form, records, alone, counted, accepted, rejected, status>>
      /\ Len(records) \in Nat
  BY Lists DEF ScanLine, Positions
<1>2. Positions' = Positions /\ IsArray' = IsArray /\ IsValid' = IsValid
  BY <1>1 DEF Positions, IsArray, IsValid, WellTyped
<1>3. ASSUME IsValid
      PROVE  /\ \A k \in DOMAIN logs' : logs'[k] = k
             /\ Len(logs') = IF form = "lines" THEN line ELSE 0
  <2>1. /\ ~IsArray /\ Len(logs) = (IF form = "lines" THEN line - 1 ELSE 0)
        /\ \A k \in DOMAIN logs : logs[k] = k
    BY <1>1, <1>3 DEF ValidInv
  <2>2. CASE form = "lines"
    <3>1. logs' = Append(logs, line)
      BY <1>1, <1>3, <2>2 DEF IInv, IsBody, ScanLine, LineDecodes, IsValid
    <3>2. /\ DOMAIN logs = 1 .. Len(logs) /\ DOMAIN logs' = 1 .. Len(logs) + 1
          /\ Len(logs) \in Nat /\ Len(logs') = Len(logs) + 1
          /\ \A k \in DOMAIN logs : logs'[k] = logs[k]
          /\ logs'[Len(logs) + 1] = line
      BY <1>1, <3>1, Lists, Appended
    <3>3. Len(logs) + 1 = line
      BY <1>1, <2>1, <2>2 DEF Positions
    <3>4. ASSUME NEW k \in DOMAIN logs' PROVE logs'[k] = k
      <4>1. k \in DOMAIN logs \/ k = Len(logs) + 1
        BY <3>2
      <4> QED
        BY <2>1, <3>2, <3>3, <4>1
    <3> QED
      BY <2>2, <3>2, <3>3, <3>4
  <2>3. CASE form # "lines"
    <3>1. logs' = logs
      BY <2>1, <2>3 DEF IInv, IsBody, TypeOK, Forms, ScanLine, LineDecodes, IsArray
    <3> QED
      BY <2>1, <2>3, <3>1
  <2> QED
    BY <2>2, <2>3
<1>4. line' - 1 = line
  BY <1>1 DEF Positions
<1>5. IsValid' =>
        /\ \A k \in DOMAIN logs' : logs'[k] = k
        /\ InOrder(accepted')
        /\ ~IsArray' /\ Len(logs') = IF form' = "lines" THEN line' - 1 ELSE 0
        /\ status' # 400
  BY <1>1, <1>2, <1>3, <1>4 DEF ValidInv
<1> QED
  BY <1>1, <1>5 DEF ValidInv

(* The scanner stops at the end of a valid body, or at the only line it has. *)
LEMMA ValidScanEndStep ==
  ASSUME IInv, ValidInv, ScanEnd
  PROVE  ValidInv'
<1> USE DEF body, entries
<1>1. /\ pc = "scan" /\ pc' = (IF logs = <<>> THEN "single" ELSE "count")
      /\ line <= Len(records) => ~Scans(line)
      /\ UNCHANGED <<form, records, alone, line, logs, counted, accepted, rejected, status>>
  BY DEF ScanEnd
<1>2. Positions' = Positions /\ IsArray' = IsArray /\ IsValid' = IsValid /\ IsObject' = IsObject
  BY <1>1 DEF Positions, IsArray, IsValid, WellTyped, IsObject
<1>3. Len(records) \in Nat /\ line \in 1 .. Len(records) + 1 /\ Len(logs) \in Nat
      /\ (Len(logs) = 0 <=> logs = <<>>)
  BY Lists
<1>4. ASSUME IsValid
      PROVE  /\ logs = <<>> => IsObject
             /\ logs # <<>> => Len(logs) = Len(records)
  <2>1. ~IsArray /\ Len(logs) = IF form = "lines" THEN line - 1 ELSE 0
    BY <1>1, <1>4 DEF ValidInv
  <2>2. \A i \in Positions : WellTyped(records[i])
    BY <1>4 DEF IsValid
  <2>3. CASE form = "lines"
    <3>1. line <= Len(records) => Len(records) = 1 /\ line = 1
      BY <1>1, <1>3, <1>4, <2>3 DEF Scans, IsValid, Positions
    <3>2. Len(records) > 0
      BY <2>3 DEF IInv, IsBody
    <3>3. line = 1 => IsObject
      BY <1>3, <2>1, <2>2, <3>1, <3>2 DEF IsObject, Positions
    <3> QED
      BY <1>3, <2>1, <2>3, <3>1, <3>2, <3>3
  <2>4. CASE form # "lines"
    <3>1. form = "object"
      BY <2>1, <2>4 DEF IInv, TypeOK, Forms, IsArray
    <3>2. Len(records) = 1
      BY <3>1 DEF IInv, IsBody
    <3>3. IsObject
      BY <2>1, <2>2, <3>2 DEF IsObject, Positions
    <3> QED
      BY <1>3, <2>1, <2>4, <3>3
  <2> QED
    BY <2>3, <2>4
<1>5. IsValid' =>
        /\ \A k \in DOMAIN logs' : logs'[k] = k
        /\ InOrder(accepted')
        /\ pc' = "single" => IsObject'
        /\ pc' = "count" => Len(logs') = Len(records')
        /\ status' # 400
  BY <1>1, <1>2, <1>4 DEF ValidInv
<1> QED
  BY <1>1, <1>5 DEF ValidInv

LEMMA ValidSingleStep ==
  ASSUME IInv, ValidInv, DecodeSingle
  PROVE  ValidInv'
<1> USE DEF body, entries
<1>1. /\ pc = "single" /\ UNCHANGED <<form, records, alone, line, counted, accepted, rejected>>
      /\ \/ IsObject /\ logs' = <<1>> /\ pc' = "count" /\ status' = status
         \/ ~IsObject /\ pc' = "done" /\ status' = 400
  BY DEF DecodeSingle
<1>2. IsValid' = IsValid
  BY <1>1 DEF Positions, IsValid, WellTyped
<1>3. IsValid => IsObject /\ status # 400 /\ InOrder(accepted)
  BY <1>1 DEF ValidInv
<1>4. IsObject => Len(records) = 1
  BY DEF IsObject
<1>5. IsObject => Len(logs') = 1 /\ \A k \in DOMAIN logs' : logs'[k] = k
  BY <1>1
<1>6. IsValid' =>
        /\ \A k \in DOMAIN logs' : logs'[k] = k
        /\ InOrder(accepted')
        /\ pc' = "count" /\ Len(logs') = Len(records')
        /\ status' # 400
  BY <1>1, <1>2, <1>3, <1>4, <1>5
<1> QED
  BY <1>1, <1>6 DEF ValidInv

LEMMA ValidCountStep ==
  ASSUME IInv, ValidInv, CountLog
  PROVE  ValidInv'
<1> USE DEF body, entries
<1> DEFINE now == logs[counted + 1]
<1>1. /\ pc = "count" /\ counted \in Nat /\ counted + 1 \in DOMAIN logs
      /\ counted' = counted + 1 /\ UNCHANGED <<form, records, alone, pc, line, logs, status>>
      /\ accepted \in Seq(Positions) /\ Len(accepted) \in Nat /\ rejected \in Nat
      /\ now \in Positions
  BY Lists DEF CountLog
<1>2. IsValid' = IsValid
  BY <1>1 DEF Positions, IsValid, WellTyped
<1>4. CASE HasMessage(records[now])
  <2>1. accepted' = Append(accepted, now) /\ rejected' = rejected
    BY <1>1, <1>4 DEF CountLog
  <2>2. /\ DOMAIN accepted = 1 .. Len(accepted) /\ DOMAIN accepted' = 1 .. Len(accepted) + 1
        /\ Len(accepted') = Len(accepted) + 1
        /\ \A m \in DOMAIN accepted : accepted'[m] = accepted[m]
        /\ accepted'[Len(accepted) + 1] = now
    BY <1>1, <2>1, Appended
  <2>3. IsValid => InOrder(accepted')
    <3> SUFFICES ASSUME IsValid, NEW m \in DOMAIN accepted', NEW n \in DOMAIN accepted', m < n
                 PROVE  accepted'[m] < accepted'[n]
      BY DEF InOrder
    <3>1. (\A k \in DOMAIN logs : logs[k] = k) /\ InOrder(accepted)
      BY DEF ValidInv
    <3>2. m \in DOMAIN accepted
      BY <1>1, <2>2
    <3>3. CASE n \in DOMAIN accepted
      BY <2>2, <3>1, <3>2, <3>3 DEF InOrder
    <3>4. CASE n = Len(accepted) + 1
      <4>1. accepted'[n] = counted + 1
        BY <1>1, <2>2, <3>1, <3>4
      <4>2. PICK k \in 1 .. counted : logs[k] = accepted[m]
        BY <3>2 DEF IInv, AcceptedFromLogs
      <4>3. k \in DOMAIN logs
        BY <1>1, Lists
      <4>4. accepted'[m] = k
        BY <2>2, <3>1, <3>2, <4>2, <4>3
      <4> QED
        BY <1>1, <4>1, <4>4
    <3> QED
      BY <2>2, <3>3, <3>4
  <2>4. \A m \in DOMAIN accepted' : HasMessage(records'[accepted'[m]])
    BY <1>1, <1>4, <2>2 DEF ValidInv
  <2> QED
    BY <1>1, <1>2, <2>3, <2>4 DEF ValidInv
<1>5. CASE ~HasMessage(records[now])
  <2>1. accepted' = accepted /\ rejected' = rejected + 1
    BY <1>1, <1>5 DEF CountLog
  <2> QED
    BY <1>1, <1>2, <2>1 DEF ValidInv
<1> QED
  BY <1>4, <1>5

LEMMA ValidAnswerStep ==
  ASSUME IInv, ValidInv, Answer \/ UNCHANGED vars
  PROVE  ValidInv'
<1> USE DEF body, entries, vars
<1>1. /\ UNCHANGED <<form, records, alone, line, logs, counted, accepted, rejected>>
      /\ \/ pc = "count" /\ pc' = "done" /\ status' = 200
         \/ pc' = pc /\ status' = status
  BY DEF Answer
<1>2. IsValid' = IsValid /\ IsArray' = IsArray /\ IsObject' = IsObject
  BY <1>1 DEF Positions, IsValid, WellTyped, IsArray, IsObject
<1> QED
  BY <1>1, <1>2 DEF ValidInv

LEMMA ValidInvariant == Spec => [](IInv /\ ValidInv)
<1>1. IInv /\ ValidInv /\ [Next]_vars => ValidInv'
  BY ValidArrayStep, ValidScanStep, ValidScanEndStep, ValidSingleStep, ValidCountStep,
    ValidAnswerStep DEF Next
<1> QED
  BY <1>1, ValidInit, BodyInvariant, PTL DEF Spec

(* A body that no decoder has a reason to complain of is read completely,   *)
(* in order and once: HandleLogs answers 200, its entries are the records   *)
(* with a message, and the rest is counted as rejected.                     *)
THEOREM ValidBodyRead == Spec => []ValidBodyComplete
<1>1. IInv /\ ValidInv => ValidBodyComplete
  <2> SUFFICES ASSUME IInv, ValidInv, pc = "done", IsValid
               PROVE  /\ status = 200
                      /\ AcceptedSet = Messages
                      /\ Len(accepted) = Cardinality(Messages)
                      /\ \A m, n \in DOMAIN accepted : m < n => accepted[m] < accepted[n]
                      /\ rejected = Len(records) - Cardinality(Messages)
    BY DEF ValidBodyComplete
  <2>1. status = 200 /\ counted = Len(logs) /\ Len(logs) = Len(records)
        /\ (\A k \in DOMAIN logs : logs[k] = k) /\ InOrder(accepted)
        /\ rejected + Len(accepted) = counted
    BY DEF IInv, TypeOK, Stages, ValidInv
  <2>2. /\ DOMAIN logs = Positions /\ DOMAIN accepted = 1 .. Len(accepted)
        /\ Len(accepted) \in Nat /\ accepted \in Seq(Positions) /\ rejected \in Nat
        /\ Len(records) \in Nat
    BY <2>1, Lists DEF Positions
  <2>3. AcceptedSet = Messages
    <3>1. ASSUME NEW m \in DOMAIN accepted PROVE accepted[m] \in Messages
      <4>1. accepted[m] \in Positions /\ \E k \in 1 .. counted : logs[k] = accepted[m]
        BY <2>2 DEF IInv, AcceptedFromLogs
      <4> QED
        BY <4>1 DEF Messages, ValidInv
    <3>2. ASSUME NEW i \in Messages PROVE \E m \in DOMAIN accepted : accepted[m] = i
      <4>1. i \in 1 .. counted /\ logs[i] = i /\ HasMessage(records[i])
        BY <2>1, <2>2 DEF Messages, Positions
      <4> QED
        BY <4>1 DEF IInv, AcceptedFromLogs
    <3> QED
      BY <3>1, <3>2 DEF AcceptedSet
  <2>4. Len(accepted) = Cardinality(Messages)
    <3>1. accepted \in [1 .. Len(accepted) -> Messages]
      BY <2>2, <2>3 DEF AcceptedSet
    <3>2. \A m, n \in 1 .. Len(accepted) : accepted[m] = accepted[n] => m = n
      <4> SUFFICES ASSUME NEW m \in 1 .. Len(accepted), NEW n \in 1 .. Len(accepted), m # n
                   PROVE  accepted[m] # accepted[n]
        OBVIOUS
      <4>1. accepted[m] \in Nat /\ accepted[n] \in Nat
        BY <2>2 DEF Positions
      <4>2. m < n \/ n < m
        BY <2>2
      <4> QED
        BY <2>1, <2>2, <4>1, <4>2 DEF InOrder
    <3>3. \A i \in Messages : \E m \in 1 .. Len(accepted) : accepted[m] = i
      BY <2>2, <2>3 DEF AcceptedSet
    <3>4. accepted \in Bijection(1 .. Len(accepted), Messages)
      BY <3>1, <3>2, <3>3 DEF Bijection, Injection, Surjection, IsInjective
    <3>5. ExistsBijection(1 .. Len(accepted), Messages)
      BY <3>4 DEF ExistsBijection
    <3> QED
      BY <2>2, <3>5, FS_CountingElements
  <2> QED
    BY <2>1, <2>2, <2>3, <2>4 DEF InOrder
<1> QED
  BY <1>1, ValidInvariant, PTL

=============================================================================
