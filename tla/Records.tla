------------------------------- MODULE Records -------------------------------
(***************************************************************************)
(* Feedback and votes, attendance, organization units and channels: the    *)
(* services that look for a row, refuse on what they find, write, and then *)
(* report what they wrote.                                                 *)
(*                                                                         *)
(* The operations differ in what they look for, in whether a unique key    *)
(* stands behind the look, and in what they report.  Looking and writing   *)
(* are two queries; between them another call may write the same row.      *)
(***************************************************************************)
EXTENDS Naturals, FiniteSets

CONSTANTS
  RecordCalls,  \* operations in progress: bounds their number
  RecordOps,    \* the operations people ask for
  LastDay,      \* days that pass: bounds the clock
  MaxRows       \* rows of one name: bounds what no unique key bounds

\* looks: what must be there ("any" if the code does not look); unique: a unique
\* key refuses a second insert; report: what follows the write, in this order.
Insert(table, looks, unique, report) ==
  [table |-> table, write |-> "insert", looks |-> looks, unique |-> unique, report |-> report]
Close(table, report) ==
  [table |-> table, write |-> "close", looks |-> "open", unique |-> FALSE, report |-> report]

submitFeedback == Insert("feedback", "any", FALSE, {"audit", "tell"})
vote == Insert("vote", "absent", TRUE, {})
decide == Close("feedback", {"audit", "tell"})
clockIn == Insert("attendance", "absent", TRUE, {"audit"})
\* It would close whatever record it finds.
clockOutAny == [Close("attendance", {"audit"}) EXCEPT !.looks = "any"]
clockOut == Close("attendance", {"audit"})
createUnit == Insert("unit", "absent", FALSE, {})
createChannel == Insert("channel", "absent", TRUE, {})

ASSUME RecordConstants ==
  /\ LastDay \in Nat \ {0} /\ MaxRows \in Nat \ {0}
  /\ RecordOps \subseteq {submitFeedback, vote, decide, clockIn, clockOut,
                          createUnit, createChannel}

VARIABLES
  today,       \* the day it is
  rowsOf,      \* rows under a key: of a day, of a feedback, a voter, a name
  closings,    \* history: how often the row of a key was closed
  recordCall,  \* progress of each operation
  reported,    \* reports made: audit rows and notifications, per key
  unreported,  \* history: reports a failure or the end of the process prevented
  contended    \* history: keys two calls looked at before either wrote

recordsVars ==
  <<today, rowsOf, closings, recordCall, reported, unreported, contended>>

\* One person's attendance has a row a day; of the rest one key is enough.
Keys == {<<"attendance", d>> : d \in 1..LastDay}
        \cup {<<table, 1>> : table \in {"feedback", "vote", "unit", "channel"}}
RecordIdle == [at |-> "idle"]
Reports == {"insert", "close"} \X {"audit", "tell"} \X Keys

RecordsTypeOK ==
  /\ today \in 1..LastDay
  /\ rowsOf \in [Keys -> Nat] /\ closings \in [Keys -> Nat]
  /\ recordCall \in [RecordCalls -> {RecordIdle} \cup
       [at : {"permit", "look", "write", "audit", "tell"}, op : RecordOps, key : Keys]]
  /\ reported \subseteq Reports /\ unreported \subseteq Reports
  /\ contended \subseteq Keys

RecordsInit ==
  /\ today = 1
  /\ rowsOf = [k \in Keys |-> 0] /\ closings = [k \in Keys |-> 0]
  /\ recordCall = [c \in RecordCalls |-> RecordIdle]
  /\ reported = {} /\ unreported = {} /\ contended = {}

-----------------------------------------------------------------------------

RecordAt(c, place) == recordCall[c].at = place
OpOf(c) == recordCall[c].op
KeyOf(c) == recordCall[c].key
RecordTo(c, place) ==
  recordCall' = [recordCall EXCEPT ![c] = IF place = "idle" THEN RecordIdle
                                          ELSE [@ EXCEPT !.at = place]]

\* The reports of a call that are still to come at a place.
StillToCome(c, place) ==
  {<<OpOf(c).write, r, KeyOf(c)>> : r \in {q \in OpOf(c).report : q = "tell" \/ q = place}}

\* audit, tell or the end, whichever the operation has next.
NextReport(op, after) ==
  IF after = "write" /\ "audit" \in op.report THEN "audit"
  ELSE IF "tell" \in op.report THEN "tell" ELSE "idle"

\* A feedback that is submitted takes an id that nobody has had.
IsFresh(k) ==
  rowsOf[k] = 0 /\ \A c \in RecordCalls : recordCall[c] # RecordIdle => KeyOf(c) # k

RecordCalled(c, op, k) ==
  /\ recordCall[c] = RecordIdle
  /\ op \in RecordOps /\ k[1] = op.table
  /\ op = submitFeedback => IsFresh(k)
  /\ recordCall' = [recordCall EXCEPT ![c] = [at |-> "permit", op |-> op, key |-> k]]
  /\ UNCHANGED <<today, rowsOf, closings, reported, unreported, contended>>

\* A check refuses the call, or a query of it fails before anything is written.
RecordRefused(c) ==
  /\ recordCall[c].at \in {"permit", "look", "write"}
  /\ RecordTo(c, "idle")
  /\ UNCHANGED <<today, rowsOf, closings, reported, unreported, contended>>

\* The mode and the permission are checked; attendance takes the day it is then.
RecordPermitted(c) ==
  /\ RecordAt(c, "permit")
  /\ recordCall' = [recordCall EXCEPT
       ![c].at = "look",
       ![c].key = IF OpOf(c).table = "attendance" THEN <<"attendance", today>> ELSE @]
  /\ UNCHANGED <<today, rowsOf, closings, reported, unreported, contended>>

Sees(looks, k) ==
  CASE looks = "absent" -> rowsOf[k] = 0
    [] looks = "open" -> rowsOf[k] > 0 /\ closings[k] = 0
    [] OTHER -> TRUE

Looked(c) ==
  /\ RecordAt(c, "look")
  /\ Sees(OpOf(c).looks, KeyOf(c))
  /\ RecordTo(c, "write")
  /\ contended' =
       IF \E d \in RecordCalls \ {c} : /\ RecordAt(d, "write") /\ KeyOf(d) = KeyOf(c)
                                       /\ OpOf(d).write = OpOf(c).write
       THEN contended \cup {KeyOf(c)} ELSE contended
  /\ UNCHANGED <<today, rowsOf, closings, reported, unreported>>

RowInserted(c) ==
  /\ RecordAt(c, "write") /\ OpOf(c).write = "insert"
  /\ rowsOf[KeyOf(c)] < (IF OpOf(c).unique THEN 1 ELSE MaxRows)
  /\ rowsOf' = [rowsOf EXCEPT ![KeyOf(c)] = @ + 1]
  /\ RecordTo(c, NextReport(OpOf(c), "write"))
  /\ UNCHANGED <<today, closings, reported, unreported, contended>>

\* The update names only the id.
RowClosed(c) ==
  /\ RecordAt(c, "write") /\ OpOf(c).write = "close"
  /\ rowsOf[KeyOf(c)] > 0
  /\ closings' = [closings EXCEPT ![KeyOf(c)] = @ + 1]
  /\ RecordTo(c, NextReport(OpOf(c), "write"))
  /\ UNCHANGED <<today, rowsOf, reported, unreported, contended>>

Report(c, made) ==
  LET r == <<OpOf(c).write, recordCall[c].at, KeyOf(c)>> IN
  IF made THEN reported' = reported \cup {r} /\ UNCHANGED unreported
  ELSE unreported' = unreported \cup {r} /\ UNCHANGED reported

\* The call would end with a failed audit insert.
AuditThrown(c, made) ==
  /\ RecordAt(c, "audit")
  /\ Report(c, made)
  /\ RecordTo(c, IF made THEN NextReport(OpOf(c), "audit") ELSE "idle")
  /\ UNCHANGED <<today, rowsOf, closings, contended>>
\* auditService.record swallows the failure of its insert.
Audited(c, made) ==
  /\ RecordAt(c, "audit")
  /\ Report(c, made)
  /\ RecordTo(c, NextReport(OpOf(c), "audit"))
  /\ UNCHANGED <<today, rowsOf, closings, contended>>

\* deciderIds may fail before a new feedback is announced; a decision is
\* announced to its reporter without a query.
Told(c, made) ==
  /\ RecordAt(c, "tell")
  /\ made \/ OpOf(c).write = "insert"
  /\ Report(c, made)
  /\ RecordTo(c, "idle")
  /\ UNCHANGED <<today, rowsOf, closings, contended>>

Midnight ==
  /\ today < LastDay
  /\ today' = today + 1
  /\ UNCHANGED <<rowsOf, closings, recordCall, reported, unreported, contended>>

RecordsProcessDies ==
  /\ \E c \in RecordCalls : recordCall[c] # RecordIdle
  /\ unreported' = unreported \cup
       UNION {StillToCome(c, recordCall[c].at) :
                c \in {d \in RecordCalls : recordCall[d].at \in {"audit", "tell"}}}
  /\ recordCall' = [c \in RecordCalls |-> RecordIdle]
  /\ UNCHANGED <<today, rowsOf, closings, reported, contended>>

RecordsNext ==
  \/ \E c \in RecordCalls :
       \/ \E op \in RecordOps, k \in Keys : RecordCalled(c, op, k)
       \/ RecordRefused(c) \/ RecordPermitted(c) \/ Looked(c)
       \/ RowInserted(c) \/ RowClosed(c)
       \/ \E made \in BOOLEAN : Audited(c, made) \/ Told(c, made)
  \/ Midnight \/ RecordsProcessDies

RecordsSpec == RecordsInit /\ [][RecordsNext]_recordsVars

-----------------------------------------------------------------------------

\* A vote counts once, a day has one clock-in, a name one unit or channel, and a
\* feedback is decided and a shift ended once, unless two calls for the same row
\* had both looked before either wrote.
OncePerKey ==
  \A k \in Keys \ contended :
    /\ closings[k] <= 1
    /\ k[1] # "feedback" => rowsOf[k] <= 1

\* Whatever was written is reported: the audit row and the notification are
\* there or on their way, or a failure or the end of the process prevented them.
ReportsFollow ==
  \A op \in RecordOps, k \in Keys : \A r \in op.report :
    LET done == IF op.write = "insert" THEN rowsOf[k] > 0 ELSE closings[k] > 0 IN
    op.table = k[1] /\ done =>
      \/ <<op.write, r, k>> \in reported \cup unreported
      \/ \E c \in RecordCalls : /\ recordCall[c].at \in {"audit", "tell"}
                                /\ <<op.write, r, k>> \in StillToCome(c, recordCall[c].at)
=============================================================================
