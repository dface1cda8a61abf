-------------------------- MODULE RequestApproval --------------------------
(***************************************************************************)
(* Requests and their approval: RequestService behind RequestController.   *)
(*                                                                         *)
(* Every operation is a chain of database queries with an await between    *)
(* them.  A query takes effect in one step; between two queries of a call  *)
(* any query of another call may run, a role may change, the query may     *)
(* fail and the process may die.  The status a decision was checked        *)
(* against is read by one query and the row is written by a later one.     *)
(***************************************************************************)
EXTENDS Naturals, FiniteSets

CONSTANTS
  Users,
  Requests,   \* requests of one workspace
  Calls,      \* operations in progress: bounds their number
  Grants,     \* what roles grant of "request.create" and "request.approve"
  None        \* no approver

ASSUME RequestConstants ==
  /\ Grants \subseteq SUBSET {"request.create", "request.approve"}
  /\ None \notin Users

VARIABLES
  grant,     \* the two permissions of a user's role; {} for a non-member
  row,       \* rows of Request
  call,      \* progress of each operation
  audit,     \* rows of AuditLog about requests
  announced, \* notification.request.* events handed to the event bus
  commits,   \* history: every status ever committed, with who did it
  lost,      \* history: commits whose process died before the call was over
  unaudited, \* history: commits whose audit row could not be written
  raced      \* history: requests two calls at once had found pending

vars == <<grant, row, call, audit, announced, commits, lost, unaudited, raced>>

Operations == {"create", "approve", "reject", "cancel"}
Decisions == {"approve", "reject"}

\* The status an operation writes.
StatusOf == [create |-> "PENDING", approve |-> "APPROVED",
             reject |-> "REJECTED", cancel |-> "CANCELLED"]
Statuses == {"PENDING", "APPROVED", "REJECTED", "CANCELLED"}

\* The permission the controller asks for.
PermissionOf(op) ==
  IF op \in Decisions THEN "request.approve" ELSE "request.create"

Absent == [by |-> None, status |-> "none", approver |-> None]
Rows == [by : Users, status : Statuses, approver : Users \cup {None}]

Idle == [at |-> "idle"]
Places == {"permit",     \* waiting for assertPermission
           "insert",     \* waiting for request.create
           "find",       \* waiting for request.findFirst
           "update",     \* waiting for request.update
           "audit",      \* waiting for auditLog.create
           "recipients"} \* waiting for approverIds
Busy == [at : Places, op : Operations, by : Users, req : Requests]

Facts == Requests \X Statuses \X Users

TypeOK ==
  /\ grant \in [Users -> Grants]
  /\ row \in [Requests -> Rows \cup {Absent}]
  /\ call \in [Calls -> Busy \cup {Idle}]
  /\ audit \subseteq Facts
  /\ announced \subseteq Facts
  /\ commits \subseteq Facts
  /\ lost \subseteq Facts
  /\ unaudited \subseteq Facts
  /\ raced \subseteq Requests

Init ==
  /\ grant \in [Users -> Grants]
  /\ row = [r \in Requests |-> Absent]
  /\ call = [c \in Calls |-> Idle]
  /\ audit = {}
  /\ announced = {}
  /\ commits = {}
  /\ lost = {}
  /\ unaudited = {}
  /\ raced = {}

-----------------------------------------------------------------------------

At(c, places) == call[c].at \in places
Goto(c, place) == call' = [call EXCEPT ![c].at = place]
Done(c) == call' = [call EXCEPT ![c] = Idle]

Exists(r) == row[r] # Absent
WorkedOn(r) == \E c \in Calls : call[c] # Idle /\ call[c].req = r

\* What a call writes, audits and announces.
FactOf(c) == <<call[c].req, StatusOf[call[c].op], call[c].by>>

History == <<commits, lost, unaudited, raced>>

\* A request id comes from the row that is created, so nobody creates it twice;
\* an operation on an id that is absent stands for one on a request of another
\* workspace.
Called(c, op, u, r) ==
  /\ call[c] = Idle
  /\ op = "create" => ~Exists(r) /\ ~WorkedOn(r)
  /\ call' = [call EXCEPT ![c] = [at |-> "permit", op |-> op, by |-> u, req |-> r]]
  /\ UNCHANGED <<grant, row, audit, announced, History>>

Denied(c) ==
  /\ At(c, {"permit"})
  /\ PermissionOf(call[c].op) \notin grant[call[c].by]
  /\ Done(c)
  /\ UNCHANGED <<grant, row, audit, announced, History>>

Permitted(c) ==
  /\ At(c, {"permit"})
  /\ PermissionOf(call[c].op) \in grant[call[c].by]
  /\ Goto(c, IF call[c].op = "create" THEN "insert" ELSE "find")
  /\ UNCHANGED <<grant, row, audit, announced, History>>

-----------------------------------------------------------------------------
(* createRequest *)

\* A withdrawal would leave no trace.
AfterWriteUnlessCancelled(c) ==
  IF call[c].op = "cancel" THEN Done(c) ELSE Goto(c, "audit")
\* Every write is followed by AuditService.record.
AfterWrite(c) == Goto(c, "audit")

Inserted(c) ==
  /\ At(c, {"insert"})
  /\ row' = [row EXCEPT ![call[c].req] =
               [by |-> call[c].by, status |-> "PENDING", approver |-> None]]
  /\ commits' = commits \cup {FactOf(c)}
  /\ AfterWrite(c)
  /\ UNCHANGED <<grant, audit, announced, lost, unaudited, raced>>

\* approverIds was read: the event is emitted and the view returned.
RecipientsListed(c) ==
  /\ At(c, {"recipients"})
  /\ announced' = announced \cup {FactOf(c)}
  /\ Done(c)
  /\ UNCHANGED <<grant, row, audit, History>>

-----------------------------------------------------------------------------
(* decideRequest and cancelRequest *)

\* Only the requester withdraws, and nobody decides a request of their own.
RightPersonAnyone(op, u, found) == op \in Decisions \/ found.by = u
RightPerson(op, u, found) ==
  IF op \in Decisions THEN found.by # u ELSE found.by = u

MayWriteAnyStatus(c, found) ==
  found # Absent /\ RightPerson(call[c].op, call[c].by, found)
\* findFirst looks in the workspace; only a pending request may be written.
MayWrite(c, found) ==
  /\ found # Absent
  /\ found.status = "PENDING"
  /\ RightPerson(call[c].op, call[c].by, found)

\* The calls that have found request r pending and have not written it yet.
Deciding(r) == {c \in Calls : At(c, {"update"}) /\ call[c].req = r}

\* Nothing keeps two calls from finding the same request pending.
Found(c) ==
  /\ At(c, {"find"})
  /\ MayWrite(c, row[call[c].req])
  /\ Goto(c, "update")
  /\ raced' = IF Deciding(call[c].req) = {} THEN raced ELSE raced \cup {call[c].req}
  /\ UNCHANGED <<grant, row, audit, announced, commits, lost, unaudited>>

Refused(c) ==
  /\ At(c, {"find"})
  /\ ~MayWrite(c, row[call[c].req])
  /\ Done(c)
  /\ UNCHANGED <<grant, row, audit, announced, History>>

\* A decision names its approver; a cancellation leaves the approver alone.
WithOutcome(old, op, u) ==
  [old EXCEPT !.status = StatusOf[op],
              !.approver = IF op \in Decisions THEN u ELSE @]

Updated(c) ==
  /\ At(c, {"update"})
  /\ row' = [row EXCEPT ![call[c].req] = WithOutcome(@, call[c].op, call[c].by)]
  /\ commits' = commits \cup {FactOf(c)}
  /\ AfterWrite(c)
  /\ UNCHANGED <<grant, audit, announced, lost, unaudited, raced>>

-----------------------------------------------------------------------------
(* AuditService.record, and what comes after it *)

\* The requester would not hear of a rejection.
AfterAuditApprovedOnly(c) ==
  /\ announced' = IF call[c].op = "approve" THEN announced \cup {FactOf(c)} ELSE announced
  /\ IF call[c].op = "create" THEN Goto(c, "recipients") ELSE Done(c)
\* A creation reads the approvers first, a decision is announced to the
\* requester at once, a cancellation is announced to nobody.
AfterAudit(c) ==
  /\ announced' = IF call[c].op \in Decisions THEN announced \cup {FactOf(c)} ELSE announced
  /\ IF call[c].op = "create" THEN Goto(c, "recipients") ELSE Done(c)

AuditWritten(c) ==
  /\ At(c, {"audit"})
  /\ audit' = audit \cup {FactOf(c)}
  /\ AfterAudit(c)
  /\ UNCHANGED <<grant, row, History>>

\* record swallows the failure of its insert: the operation goes on.
AuditSwallowed(c) ==
  /\ At(c, {"audit"})
  /\ unaudited' = unaudited \cup {FactOf(c)}
  /\ AfterAudit(c)
  /\ UNCHANGED <<grant, row, audit, commits, lost, raced>>

-----------------------------------------------------------------------------
(* What goes wrong around an operation *)

\* The failure would be swallowed as that of an audit row is.
AfterFailureGoOn(c) == IF At(c, {"update"}) THEN Goto(c, "audit") ELSE Done(c)
\* The exception leaves the operation; nothing after it runs.
AfterFailure(c) == Done(c)

QueryFailed(c) ==
  /\ At(c, {"permit", "insert", "find", "update", "recipients"})
  /\ AfterFailure(c)
  /\ UNCHANGED <<grant, row, audit, announced, History>>

\* The process dies and is started again: the database is all that is left.
Crash ==
  /\ lost' = lost \cup {FactOf(c) : c \in {d \in Calls : At(d, {"audit", "recipients"})}}
  /\ call' = [c \in Calls |-> Idle]
  /\ UNCHANGED <<grant, row, audit, announced, commits, unaudited, raced>>

\* setMemberRole, inviteMember and removeMember, while operations wait.
RoleChanged(u, g) ==
  /\ grant' = [grant EXCEPT ![u] = g]
  /\ UNCHANGED <<row, call, audit, announced, History>>

-----------------------------------------------------------------------------

Answered(c) ==
  \/ Denied(c)
  \/ Permitted(c)
  \/ Inserted(c)
  \/ RecipientsListed(c)
  \/ Found(c)
  \/ Refused(c)
  \/ Updated(c)
  \/ AuditWritten(c)
  \/ AuditSwallowed(c)
  \/ QueryFailed(c)

Next ==
  \/ \E c \in Calls, op \in Operations, u \in Users, r \in Requests : Called(c, op, u, r)
  \/ \E c \in Calls : Answered(c)
  \/ Crash
  \/ \E u \in Users, g \in Grants : RoleChanged(u, g)

Spec == Init /\ [][Next]_vars

\* Every query is answered, with a result or an error.
Fairness == \A c \in Calls : WF_vars(Answered(c))

FairSpec == Spec /\ Fairness

-----------------------------------------------------------------------------
(* Properties *)

\* Separation of duties: whoever approved or rejected a request, at any time,
\* was not its requester, and whoever cancelled it was; the approver the row
\* names is never the requester, although a cancellation keeps an approver.
SeparationOfDuties ==
  /\ \A r \in Requests : Exists(r) => row[r].approver # row[r].by
  /\ \A f \in commits :
       (f[2] \in {"APPROVED", "REJECTED"}) = (f[3] # row[f[1]].by)

\* The queries of a call are those of its operation.
RightPlaces ==
  \A c \in Calls :
    /\ At(c, {"insert", "recipients"}) => call[c].op = "create"
    /\ At(c, {"find", "update"}) => call[c].op # "create"

\* A row that is still to be inserted is not there, and is inserted once.
BeforeInsert(c) == At(c, {"permit", "insert"}) /\ call[c].op = "create"
InsertedOnce ==
  \A c \in Calls : BeforeInsert(c) =>
    /\ ~Exists(call[c].req)
    /\ \A d \in Calls : (BeforeInsert(d) /\ call[d].req = call[c].req) => d = c

\* What findFirst found of the requester still holds when the row is written.
CheckedBeforeUpdate ==
  \A c \in Calls : At(c, {"update"}) =>
    /\ Exists(call[c].req)
    /\ RightPerson(call[c].op, call[c].by, row[call[c].req])

CommitsExist == \A f \in commits : Exists(f[1])

\* The strengthening under which SeparationOfDuties is inductive.
DutiesInv ==
  /\ TypeOK
  /\ RightPlaces
  /\ InsertedOnce
  /\ CheckedBeforeUpdate
  /\ CommitsExist
  /\ SeparationOfDuties

\* The audit trail and the notifications never state what was not committed,
\* whatever fails, races or dies.
OnlyFactsReported == audit \cup announced \subseteq commits

\* What a call is about to report is committed.
Committed == \A c \in Calls : At(c, {"audit", "recipients"}) => FactOf(c) \in commits

\* The strengthening under which OnlyFactsReported is inductive.
ReportInv == DutiesInv /\ Committed /\ OnlyFactsReported

\* Calls that have committed and have not audited yet.
ToAudit == {FactOf(c) : c \in {d \in Calls : At(d, {"audit"})}}

\* No transition escapes the audit trail: a committed status has its audit row,
\* or a call still owes it, or the row failed, or the process died before it.
TrailComplete == commits \subseteq audit \cup ToAudit \cup unaudited \cup lost

\* Decisions that are committed and that the event bus has not been handed, except
\* those whose process died in between.
Unannounced == {f \in commits : f[2] \in {"APPROVED", "REJECTED"}} \ (announced \cup lost)

\* A decision, whatever races with it, reaches the event bus unless the process
\* dies first: the failure of an audit row does not keep it from its requester.
\* (What is committed, announced or lost stays so: each decision is reached.)
OutcomeAnnounced == []<>(Unannounced = {})

\* A request gets one outcome: what was decided is not decided again.
OutcomesOf(r) == {f \in commits : f[1] = r /\ f[2] # "PENDING"}
OneOutcome == \A r \in Requests : Cardinality(OutcomesOf(r)) <= 1

\* A request gets a second outcome only if two calls had both found it pending
\* before either wrote: a decision that begins after an outcome is committed is
\* refused, whatever failed, was lost or raced with another request.
OutcomeStands == \A r \in Requests \ raced : Cardinality(OutcomesOf(r)) <= 1

\* Where no two calls found it pending, one call at a time is about to write, the
\* request is still pending then, and afterwards the row keeps what was written.
OneDecides ==
  \A r \in Requests \ raced : \A c, d \in Deciding(r) : c = d
StillPending ==
  \A r \in Requests \ raced : Deciding(r) # {} => row[r].status = "PENDING"
OutcomeKept ==
  \A f \in commits : (f[1] \notin raced /\ f[2] # "PENDING") =>
    /\ row[f[1]].status = f[2]
    /\ \A g \in commits : (g[1] = f[1] /\ g[2] # "PENDING") => g = f

\* The strengthening under which OutcomeStands is inductive.
OutcomeInv == DutiesInv /\ OneDecides /\ StillPending /\ OutcomeKept

\* What a set of facts states of each request.
Stated(facts) == [r \in Requests |-> {f[2] : f \in {g \in facts : g[1] = r}}]

\* The service is the workflow of module Approval, whoever overlaps with whom: a
\* decision is taken up where findFirst found the request pending.
Workflow == INSTANCE Approval WITH
  Deciders <- Calls,
  status <- [r \in Requests |-> row[r].status],
  been <- Stated(commits),
  open <- [r \in Requests |-> Deciding(r)],
  trail <- Stated(audit),
  told <- Stated(announced)
ImplementsWorkflow == Workflow!ASpec
=============================================================================
