------------------------------ MODULE LogBody -------------------------------
(***************************************************************************)
(* How HandleLogs turns the body of a post into log records: the whole     *)
(* body as a JSON array; if that reports an error, line by line, keeping   *)
(* what the array left behind; if there is still nothing, the whole body   *)
(* as one object.                                                          *)
(*                                                                         *)
(* A record is reduced to what the three decoders tell apart: is it JSON,  *)
(* does a field have the wrong type, has it a message, and is its line     *)
(* longer than the 64 KB that bufio.Scanner takes.                         *)
(***************************************************************************)
EXTENDS Naturals, Sequences, FiniteSets

CONSTANT MaxRecords   \* bound: the records of a body

ASSUME BodyAssumption == MaxRecords \in Nat \ {0}

(* "mistyped": a field other than the message has the wrong type;           *)
(* "mistypedMessage": the message itself has, so that none is decoded.      *)
Texts == {"plain", "silent", "mistyped", "mistypedMessage", "malformed"}
Records == [text : Texts, long : BOOLEAN]

HasMessage(rec) == rec.text \in {"plain", "mistyped"}
WellTyped(rec) == rec.text \in {"plain", "silent"}
Malformed(rec) == rec.text = "malformed"

(* "lines" is NDJSON, "object" one object spread over several lines, none   *)
(* of which is an object by itself.                                         *)
Forms == {"array", "lines", "object"}

RecordSeqs == UNION {[1 .. n -> Records] : n \in 0 .. MaxRecords}

VARIABLES
  form,      \* of the body
  records,   \* the records the body was made of
  alone,     \* which of them have a line of their own
  pc,
  line,      \* the record whose line the scanner reads next
  logs,      \* the slice of decoded logs: positions in records
  counted,   \* how many of them were looked at
  accepted,  \* the logs that become entries
  rejected,  \* how many do not
  status     \* of the reply, 0 while undecided

body == <<form, records, alone>>
entries == <<counted, accepted, rejected>>
vars == <<body, pc, line, logs, entries, status>>

Positions == 1 .. Len(records)

(* The layouts.  Commas and brackets of an array stand on lines of their    *)
(* own, before or after a record, or with the record beside them: in an     *)
(* array any records can stand alone, from none, as Fluent Bit sends it, to *)
(* all.  An empty body is refused before it is decoded.                     *)
IsBody ==
  /\ alone \subseteq Positions
  /\ form = "lines" => Len(records) > 0 /\ alone = Positions
  /\ form = "object" => Len(records) = 1 /\ alone = {}

(* Types; and every log looked at became an entry or was counted as         *)
(* rejected, never both.                                                    *)
TypeOK ==
  /\ form \in Forms
  /\ records \in Seq(Records)
  /\ alone \subseteq Positions
  /\ pc \in {"array", "scan", "single", "count", "done"}
  /\ line \in 1 .. Len(records) + 1
  /\ logs \in Seq(Positions)
  /\ counted \in 0 .. Len(logs)
  /\ accepted \in Seq(Positions)
  /\ rejected \in Nat
  /\ counted = Len(accepted) + rejected
  /\ status \in {0, 200, 400}

Init ==
  /\ form \in Forms /\ records \in RecordSeqs
  /\ alone \in SUBSET Positions
  /\ IsBody
  /\ pc = "array" /\ line = 1
  /\ logs = <<>> /\ status = 0
  /\ counted = 0 /\ accepted = <<>> /\ rejected = 0

-----------------------------------------------------------------------------
(* json.Unmarshal(body, &logs) reports a syntax error before it decodes     *)
(* anything, and a wrong type after it has decoded everything else.         *)
IsArray == form = "array"
ArrayParses == IsArray /\ \A i \in Positions : ~Malformed(records[i])
ArraySucceeds == ArrayParses /\ \A i \in Positions : WellTyped(records[i])

(* Mutant: the lines are scanned whether the array failed or not. *)
DecodeArrayThenScan ==
  /\ pc = "array"
  /\ logs' = IF ArrayParses THEN [i \in Positions |-> i] ELSE <<>>
  /\ pc' = "scan"
  /\ UNCHANGED <<body, line, entries, status>>

DecodeArray ==
  /\ pc = "array"
  /\ logs' = IF ArrayParses THEN [i \in Positions |-> i] ELSE <<>>
  /\ pc' = IF ArraySucceeds THEN "count" ELSE "scan"
  /\ UNCHANGED <<body, line, entries, status>>

(* The line is short enough for the scanner. *)
Scans(i) == ~records[i].long

(* json.Unmarshal(line, &log) takes the line. *)
LineDecodes(i) == i \in alone /\ WellTyped(records[i])

(* Mutant: a line that does not decode ends the loop. *)
ScanLineOrStop ==
  /\ pc = "scan" /\ line <= Len(records) /\ Scans(line)
  /\ IF LineDecodes(line)
     THEN logs' = Append(logs, line) /\ line' = line + 1
     ELSE line' = Len(records) + 1 /\ UNCHANGED logs
  /\ UNCHANGED <<body, pc, entries, status>>

ScanLine ==
  /\ pc = "scan" /\ line <= Len(records) /\ Scans(line)
  /\ logs' = IF LineDecodes(line)
             THEN Append(logs, line) ELSE logs
  /\ line' = line + 1
  /\ UNCHANGED <<body, pc, entries, status>>

(* Mutant: the single object is tried whatever the lines have brought. *)
ScanEndSingle ==
  /\ pc = "scan"
  /\ line <= Len(records) => ~Scans(line)
  /\ pc' = "single"
  /\ UNCHANGED <<body, line, logs, entries, status>>

(* The scanner is at the end, or at a line it does not take.  Its error is  *)
(* not looked at.                                                           *)
ScanEnd ==
  /\ pc = "scan"
  /\ line <= Len(records) => ~Scans(line)
  /\ pc' = IF logs = <<>> THEN "single" ELSE "count"
  /\ UNCHANGED <<body, line, logs, entries, status>>

IsObject == ~IsArray /\ Len(records) = 1 /\ WellTyped(records[1])

DecodeSingle ==
  /\ pc = "single"
  /\ IF IsObject THEN logs' = <<1>> /\ pc' = "count" /\ UNCHANGED status
                 ELSE status' = 400 /\ pc' = "done" /\ UNCHANGED logs
  /\ UNCHANGED <<body, line, entries>>

(* Mutant: the loop counts a log as rejected and goes on with it. *)
CountLogFallsThrough ==
  /\ pc = "count" /\ counted < Len(logs)
  /\ counted' = counted + 1
  /\ rejected' = IF HasMessage(records[logs[counted']]) THEN rejected ELSE rejected + 1
  /\ accepted' = Append(accepted, logs[counted'])
  /\ UNCHANGED <<body, pc, line, logs, status>>

(* Mutant: a log without a message becomes an entry like the others. *)
CountLogAnyway ==
  /\ pc = "count" /\ counted < Len(logs)
  /\ counted' = counted + 1
  /\ accepted' = Append(accepted, logs[counted'])
  /\ UNCHANGED <<body, pc, line, logs, rejected, status>>

(* The loop over logs: a log without a message is counted as rejected. *)
CountLog ==
  /\ pc = "count" /\ counted < Len(logs)
  /\ counted' = counted + 1
  /\ IF HasMessage(records[logs[counted']])
     THEN accepted' = Append(accepted, logs[counted']) /\ UNCHANGED rejected
     ELSE rejected' = rejected + 1 /\ UNCHANGED accepted
  /\ UNCHANGED <<body, pc, line, logs, status>>

Answer ==
  /\ pc = "count" /\ counted = Len(logs)
  /\ status' = 200
  /\ pc' = "done"
  /\ UNCHANGED <<body, line, logs, entries>>

Next ==
  \/ DecodeArray
  \/ ScanLine \/ ScanEnd
  \/ DecodeSingle
  \/ CountLog \/ Answer

Spec == Init /\ [][Next]_vars

-----------------------------------------------------------------------------
(* Properties *)

Messages == {i \in Positions : HasMessage(records[i])}
AcceptedSet == {accepted[n] : n \in DOMAIN accepted}

(* What a body should be read as: no decoder has anything to complain of. *)
IsValid ==
  /\ \A i \in Positions : WellTyped(records[i])
  /\ form = "lines" => Len(records) = 1 \/ \A i \in Positions : ~records[i].long

(* A valid body is read completely, in order, and once: the entries are its *)
(* records with a message, the rest is counted as rejected.                 *)
ValidBodyComplete ==
  pc = "done" /\ IsValid =>
    /\ status = 200
    /\ AcceptedSet = Messages
    /\ Len(accepted) = Cardinality(Messages)
    /\ \A m, n \in DOMAIN accepted : m < n => accepted[m] < accepted[n]
    /\ rejected = Len(records) - Cardinality(Messages)

(* The lines are scanned on top of what a failing array has left in logs.   *)
(* That doubles a record in one case only: a field of another one has the   *)
(* wrong type, and this one has a line of its own.                          *)
DoubledOnlyAlone ==
  \A m, n \in DOMAIN accepted :
    m # n /\ accepted[m] = accepted[n] =>
      /\ ArrayParses
      /\ LineDecodes(accepted[m])
      /\ \E i \in Positions : ~WellTyped(records[i])

(* The line of a record that decodes is behind one that is too long, or is  *)
(* too long itself.                                                         *)
Unreached(i) == \E j \in 1 .. i : records[j].long

(* A record missing from an answer 200 has two reasons: its array, if it    *)
(* was in one, has a malformed record; and it has no line of its own that   *)
(* decodes, or the scanner stopped before the end of that line.             *)
MissingExplained ==
  status = 200 => \A i \in Messages \ AcceptedSet :
    /\ IsArray => \E j \in Positions : Malformed(records[j])
    /\ LineDecodes(i) => Unreached(i)

(* A post that is refused has left no record behind that was decoded, and   *)
(* no readable line stood before the first one that is too long.            *)
RefusedMeansUnreadable ==
  status = 400 =>
    /\ logs = <<>>
    /\ \A i \in Positions : LineDecodes(i) => Unreached(i)
    /\ form = "object" => ~WellTyped(records[1])

=============================================================================
