--------------------------- MODULE RequestProofs ---------------------------
(* Theorems about RequestApproval, for every value of its constants. *)
EXTENDS RequestApproval, FiniteSetTheorems, TLAPS

(***************************************************************************)
(* What the actions do to the progress of the calls.                       *)
(***************************************************************************)

LEMMA IdleIsNowhere == Idle.at \notin Places /\ Idle \notin Busy
  BY DEF Idle, Busy, Places

LEMMA BusyCall ==
  ASSUME TypeOK, NEW c \in Calls, call[c].at \in Places
  PROVE  /\ call[c] \in Busy
         /\ call[c].req \in Requests /\ call[c].by \in Users
         /\ call[c].op \in Operations
         /\ FactOf(c) \in Facts
<1>1. call[c] \in Busy
  BY IdleIsNowhere DEF TypeOK
<1>2. StatusOf[call[c].op] \in Statuses
  BY <1>1 DEF Busy, Operations, StatusOf, Statuses
<1> QED
  BY <1>1, <1>2 DEF Busy, FactOf, Facts

LEMMA GotoEffect ==
  ASSUME TypeOK, NEW c \in Calls, call[c] \in Busy, NEW place \in Places,
         Goto(c, place)
  PROVE  /\ call' \in [Calls -> Busy \cup {Idle}]
         /\ call'[c] \in Busy
         /\ call'[c].at = place /\ call'[c].op = call[c].op
         /\ call'[c].by = call[c].by /\ call'[c].req = call[c].req
         /\ \A d \in Calls \ {c} : call'[d] = call[d]
<1>1. call'[c] = [call[c] EXCEPT !.at = place]
  BY DEF Goto, TypeOK
<1>2. call'[c] \in Busy
  BY <1>1 DEF Busy
<1>3. \A d \in Calls \ {c} : call'[d] = call[d]
  BY DEF Goto, TypeOK
<1>4. call' \in [Calls -> Busy \cup {Idle}]
  <2>1. call' = [call EXCEPT ![c] = call'[c]]
    BY <1>1 DEF Goto
  <2> QED
    BY <1>2, <2>1 DEF TypeOK
<1> QED
  BY <1>1, <1>2, <1>3, <1>4 DEF Busy

LEMMA DoneEffect ==
  ASSUME TypeOK, NEW c \in Calls, Done(c)
  PROVE  /\ call' \in [Calls -> Busy \cup {Idle}]
         /\ call'[c] = Idle
         /\ \A d \in Calls \ {c} : call'[d] = call[d]
  BY DEF Done, TypeOK

LEMMA CalledEffect ==
  ASSUME TypeOK, NEW c \in Calls, NEW op \in Operations, NEW u \in Users,
         NEW r \in Requests, Called(c, op, u, r)
  PROVE  /\ call' \in [Calls -> Busy \cup {Idle}]
         /\ call[c] = Idle
         /\ call'[c] \in Busy
         /\ call'[c].at = "permit" /\ call'[c].op = op
         /\ call'[c].by = u /\ call'[c].req = r
         /\ \A d \in Calls \ {c} : call'[d] = call[d]
<1>1. [at |-> "permit", op |-> op, by |-> u, req |-> r] \in Busy
  BY DEF Busy, Places
<1> QED
  BY <1>1 DEF Called, TypeOK

(***************************************************************************)
(* Every answer moves one call; which way it may move is all the           *)
(* invariants below need to know of it.                                    *)
(***************************************************************************)

\* Call c went from one of the places from to the place to.
Moved(c, from, to) ==
  /\ call[c] \in Busy /\ call[c].at \in from
  /\ call'[c] \in Busy /\ call'[c].at = to
  /\ call'[c].op = call[c].op
  /\ call'[c].by = call[c].by
  /\ call'[c].req = call[c].req
  /\ \A d \in Calls \ {c} : call'[d] = call[d]

\* Call c ended in one of the places from.
Ended(c, from) ==
  /\ call[c] \in Busy /\ call[c].at \in from
  /\ call'[c] = Idle
  /\ \A d \in Calls \ {c} : call'[d] = call[d]

LEMMA MoveStep ==
  ASSUME TypeOK, NEW c \in Calls, NEW p \in Places, NEW to \in Places,
         call[c].at = p, Goto(c, to)
  PROVE  Moved(c, {p}, to) /\ call' \in [Calls -> Busy \cup {Idle}]
  BY BusyCall, GotoEffect DEF Moved

LEMMA EndStep ==
  ASSUME TypeOK, NEW c \in Calls, NEW from \in SUBSET Places,
         call[c].at \in from, Done(c)
  PROVE  Ended(c, from) /\ call' \in [Calls -> Busy \cup {Idle}]
  BY BusyCall, DoneEffect DEF Ended

LEMMA AuditStep ==
  ASSUME TypeOK, NEW c \in Calls, call[c].at = "audit", AfterAudit(c)
  PROVE  /\ \/ call[c].op = "create" /\ Moved(c, {"audit"}, "recipients")
            \/ call[c].op # "create" /\ Ended(c, {"audit"})
         /\ call' \in [Calls -> Busy \cup {Idle}]
         /\ announced' \in {announced, announced \cup {FactOf(c)}}
<1>1. "audit" \in Places /\ "recipients" \in Places /\ {"audit"} \in SUBSET Places
  BY DEF Places
<1>2. CASE call[c].op = "create"
  BY <1>1, <1>2, MoveStep DEF AfterAudit
<1>3. CASE call[c].op # "create"
  BY <1>1, <1>3, EndStep DEF AfterAudit
<1> QED
  BY <1>2, <1>3 DEF AfterAudit

\* The ways of a call that write neither a row nor the history of commits.
Walked(c) ==
  \/ Ended(c, Places)
  \/ Moved(c, {"permit"}, "insert") /\ call[c].op = "create"
  \/ Moved(c, {"permit"}, "find") /\ call[c].op # "create"
  \/ Moved(c, {"find"}, "update") /\ MayWrite(c, row[call[c].req])
  \/ Moved(c, {"audit"}, "recipients") /\ call[c].op = "create"

\* A step of one call that only walks.
Quiet(c) == Walked(c) /\ UNCHANGED <<row, commits>>

LEMMA AnswerKinds ==
  ASSUME TypeOK, NEW c \in Calls, Answered(c)
  PROVE  /\ call' \in [Calls -> Busy \cup {Idle}]
         /\ \/ Quiet(c)
            \/ Inserted(c) /\ Moved(c, {"insert"}, "audit")
            \/ Updated(c) /\ Moved(c, {"update"}, "audit")
<1>0. \A p \in {"permit", "insert", "find", "update", "audit", "recipients"} :
        p \in Places
  BY DEF Places
<1>00. /\ {"permit"} \in SUBSET Places /\ {"find"} \in SUBSET Places
       /\ {"recipients"} \in SUBSET Places /\ {"audit"} \in SUBSET Places
       /\ {"permit", "insert", "find", "update", "recipients"} \in SUBSET Places
  BY <1>0
<1> USE DEF Quiet, Walked, History
<1>1. CASE Denied(c)
  BY <1>00, <1>1, EndStep DEF Denied, At, Ended
<1>2. CASE Permitted(c)
  <2>1. call[c].at = "permit"
    BY <1>2 DEF Permitted, At
  <2>2. CASE call[c].op = "create"
    BY <1>0, <1>2, <2>1, <2>2, MoveStep DEF Permitted
  <2>3. CASE call[c].op # "create"
    BY <1>0, <1>2, <2>1, <2>3, MoveStep DEF Permitted
  <2> QED
    BY <2>2, <2>3
<1>3. CASE Inserted(c)
  BY <1>0, <1>3, MoveStep DEF Inserted, At, AfterWrite
<1>4. CASE RecipientsListed(c)
  BY <1>00, <1>4, EndStep DEF RecipientsListed, At, Ended
<1>5. CASE Found(c)
  BY <1>0, <1>5, MoveStep DEF Found, At
<1>6. CASE Refused(c)
  BY <1>00, <1>6, EndStep DEF Refused, At, Ended
<1>7. CASE Updated(c)
  BY <1>0, <1>7, MoveStep DEF Updated, At, AfterWrite
<1>8. CASE AuditWritten(c)
  BY <1>0, <1>8, AuditStep DEF AuditWritten, At, Ended
<1>9. CASE AuditSwallowed(c)
  BY <1>0, <1>9, AuditStep DEF AuditSwallowed, At, Ended
<1>10. CASE QueryFailed(c)
  BY <1>00, <1>10, EndStep DEF QueryFailed, AfterFailure, At, Ended
<1> QED
  BY <1>1, <1>2, <1>3, <1>4, <1>5, <1>6, <1>7, <1>8, <1>9, <1>10 DEF Answered

(***************************************************************************)
(* Type correctness and the separation of duties.                          *)
(***************************************************************************)

LEMMA TypeOKStep == DutiesInv /\ [Next]_vars => TypeOK'
<1> SUFFICES ASSUME DutiesInv, [Next]_vars PROVE TypeOK'
  OBVIOUS
<1> USE DEF History
<1>0. TypeOK
  BY DEF DutiesInv
<1>00. \A p \in {"audit", "recipients", "insert", "update"} : p \in Places
  BY DEF Places
<1>1. ASSUME NEW c \in Calls, NEW op \in Operations, NEW u \in Users,
             NEW r \in Requests, Called(c, op, u, r)
      PROVE TypeOK'
  BY <1>0, <1>1, CalledEffect DEF Called, TypeOK
<1>2. ASSUME NEW c \in Calls, Answered(c) PROVE TypeOK'
  <2>0. call' \in [Calls -> Busy \cup {Idle}]
    BY <1>0, <1>2, AnswerKinds
  <2>1. CASE Inserted(c)
    <3>1. call[c].req \in Requests /\ call[c].by \in Users /\ FactOf(c) \in Facts
      BY <1>0, <1>00, <2>1, BusyCall DEF Inserted, At
    <3>2. row' \in [Requests -> Rows \cup {Absent}]
      BY <1>0, <2>1, <3>1 DEF Inserted, TypeOK, Rows, Statuses
    <3> QED
      BY <1>0, <2>0, <2>1, <3>1, <3>2 DEF Inserted, TypeOK
  <2>2. CASE Updated(c)
    <3>1. call[c].req \in Requests /\ call[c].by \in Users /\ FactOf(c) \in Facts
      BY <1>0, <1>00, <2>2, BusyCall DEF Updated, At
    <3>2. call[c].op \in Operations /\ StatusOf[call[c].op] \in Statuses
      BY <1>0, <1>00, <2>2, BusyCall DEF Updated, At, Operations, StatusOf, Statuses
    <3>3. row[call[c].req] \in Rows
      BY <2>2, <3>1, <1>0 DEF DutiesInv, CheckedBeforeUpdate, Updated, Exists, TypeOK
    <3>4. WithOutcome(row[call[c].req], call[c].op, call[c].by) \in Rows
      BY <3>1, <3>2, <3>3 DEF WithOutcome, Rows
    <3>5. row' \in [Requests -> Rows \cup {Absent}]
      BY <1>0, <2>2, <3>1, <3>4 DEF Updated, TypeOK
    <3> QED
      BY <1>0, <2>0, <2>2, <3>1, <3>5 DEF Updated, TypeOK
  <2>3. CASE Denied(c) \/ Permitted(c) \/ Found(c) \/ Refused(c)
    <3>1. Found(c) => call[c].req \in Requests
      BY <1>0, BusyCall DEF Found, At, Places
    <3> QED
      BY <1>0, <2>0, <2>3, <3>1 DEF Denied, Permitted, Found, Refused, TypeOK
  <2>4. CASE AuditWritten(c) \/ AuditSwallowed(c)
    BY <1>0, <1>00, <2>0, <2>4, BusyCall, AuditStep
       DEF AuditWritten, AuditSwallowed, TypeOK, At
  <2>5. CASE RecipientsListed(c) \/ QueryFailed(c)
    BY <1>0, <1>00, <2>0, <2>5, BusyCall DEF RecipientsListed, QueryFailed, TypeOK, At
  <2> QED
    BY <1>2, <2>1, <2>2, <2>3, <2>4, <2>5 DEF Answered
<1>3. CASE Crash
  <2>1. ASSUME NEW c \in Calls, At(c, {"audit", "recipients"}) PROVE FactOf(c) \in Facts
    BY <1>0, <1>00, <2>1, BusyCall DEF At
  <2> QED
    BY <1>0, <1>3, <2>1 DEF Crash, TypeOK
<1>4. ASSUME NEW u \in Users, NEW g \in Grants, RoleChanged(u, g) PROVE TypeOK'
  BY <1>0, <1>4 DEF RoleChanged, TypeOK
<1>5. CASE UNCHANGED vars
  BY <1>0, <1>5 DEF vars, TypeOK
<1> QED
  BY <1>1, <1>2, <1>3, <1>4, <1>5 DEF Next

LEMMA AtEquals ==
  ASSUME NEW c \in Calls, NEW places
  PROVE  At(c, places) <=> call[c].at \in places
  BY DEF At

\* Rows that exist keep their requester.
LEMMA RowStep ==
  ASSUME DutiesInv, NEW c \in Calls, Answered(c), NEW r \in Requests, Exists(r)
  PROVE  row'[r] # Absent /\ row'[r].by = row[r].by
<1>0. TypeOK /\ row[r] \in Rows /\ row[r] # Absent
  BY DEF DutiesInv, TypeOK, Exists
<1>1. CASE Quiet(c)
  BY <1>1 DEF Quiet, Exists
<1>2. CASE Inserted(c) /\ Moved(c, {"insert"}, "audit")
  <2>1. call[c].op = "create" /\ call[c].req # r
    BY <1>2, <1>0 DEF DutiesInv, RightPlaces, InsertedOnce, BeforeInsert, At, Moved
  <2> QED
    BY <1>0, <1>2, <2>1 DEF Inserted, Exists, TypeOK
<1>3. CASE Updated(c) /\ Moved(c, {"update"}, "audit")
  <2>1. CASE call[c].req = r
    <3>1. row'[r] = WithOutcome(row[r], call[c].op, call[c].by)
      BY <1>0, <1>3, <2>1 DEF Updated, TypeOK
    <3>2. row'[r].by = row[r].by
      BY <1>0, <3>1 DEF WithOutcome, Rows
    <3>3. row[r].by \in Users
      BY <1>0 DEF Rows
    <3> QED
      BY <3>2, <3>3, RequestConstants DEF Exists, Absent
  <2>2. CASE call[c].req # r
    BY <1>0, <1>3, <2>2 DEF Updated, Exists, TypeOK
  <2> QED
    BY <2>1, <2>2
<1> QED
  BY <1>0, <1>1, <1>2, <1>3, AnswerKinds

LEMMA RightPlacesStep == DutiesInv /\ [Next]_vars => RightPlaces'
<1> SUFFICES ASSUME DutiesInv, [Next]_vars PROVE RightPlaces'
  OBVIOUS
<1> USE DEF RightPlaces, At
<1>0. TypeOK /\ RightPlaces
  BY DEF DutiesInv
<1>1. ASSUME NEW c \in Calls, NEW op \in Operations, NEW u \in Users,
             NEW r \in Requests, Called(c, op, u, r)
      PROVE RightPlaces'
  <2>1. call'[c].at = "permit" /\ \A d \in Calls : d # c => call'[d] = call[d]
    BY <1>0, <1>1, CalledEffect
  <2> QED
    BY <1>0, <2>1
<1>2. ASSUME NEW c \in Calls, Answered(c) PROVE RightPlaces'
  <2>1. CASE Quiet(c)
    BY <1>0, <2>1 DEF Quiet, Walked, Ended, Moved, Idle
  <2>2. CASE Moved(c, {"insert"}, "audit") \/ Moved(c, {"update"}, "audit")
    BY <1>0, <2>2 DEF Moved
  <2> QED
    BY <1>0, <1>2, <2>1, <2>2, AnswerKinds
<1>3. CASE Crash
  BY <1>3 DEF Crash, Idle
<1>4. CASE UNCHANGED call
  BY <1>0, <1>4
<1> QED
  BY <1>1, <1>2, <1>3, <1>4 DEF Next, RoleChanged, vars

LEMMA InsertedOnceStep == DutiesInv /\ [Next]_vars => InsertedOnce'
<1> SUFFICES ASSUME DutiesInv, [Next]_vars PROVE InsertedOnce'
  OBVIOUS
<1> USE DEF InsertedOnce, BeforeInsert, At
<1>0. TypeOK /\ InsertedOnce /\ RightPlaces
  BY DEF DutiesInv
<1>1. ASSUME NEW c \in Calls, NEW op \in Operations, NEW u \in Users,
             NEW r \in Requests, Called(c, op, u, r)
      PROVE InsertedOnce'
  <2>1. row' = row
    BY <1>1 DEF Called
  <2>2. \A d \in Calls : d # c => call'[d] = call[d]
    BY <1>0, <1>1, CalledEffect
  <2>3. call'[c].op = op /\ call'[c].req = r /\ call'[c].at = "permit"
    BY <1>0, <1>1, CalledEffect
  <2>4. CASE op # "create"
    BY <1>0, <2>1, <2>2, <2>3, <2>4 DEF Exists
  <2>5. CASE op = "create"
    <3>1. ~Exists(r) /\ \A d \in Calls : call[d] = Idle \/ call[d].req # r
      BY <1>1, <2>5 DEF Called, WorkedOn
    <3>2. \A d \in Calls : (call[d].at \in {"permit", "insert"}) => call[d].req # r
      BY <3>1, IdleIsNowhere DEF Places
    <3> QED
      BY <1>0, <2>1, <2>2, <2>3, <3>1, <3>2 DEF Exists
  <2> QED
    BY <2>4, <2>5
<1>2. ASSUME NEW c \in Calls, Answered(c) PROVE InsertedOnce'
  <2>1. CASE Quiet(c)
    <3>1. row' = row /\ \A d \in Calls : d # c => call'[d] = call[d]
      BY <2>1 DEF Quiet, Walked, Ended, Moved
    <3>2. BeforeInsert(c)' => BeforeInsert(c) /\ call'[c].req = call[c].req
      BY <2>1 DEF Quiet, Walked, Ended, Moved, Idle
    <3> QED
      BY <1>0, <3>1, <3>2 DEF Exists
  <2>2. CASE Inserted(c) /\ Moved(c, {"insert"}, "audit")
    <3>1. call[c].op = "create" /\ call'[c].at = "audit"
      BY <1>0, <2>2 DEF RightPlaces, Moved
    <3>2. ASSUME NEW d \in Calls, BeforeInsert(d)'
          PROVE  row'[call[d].req] = Absent /\ d # c /\ call'[d] = call[d]
      <4>1. d # c /\ call'[d] = call[d]
        BY <2>2, <3>1, <3>2 DEF Moved
      <4>2. call[d].req # call[c].req
        BY <1>0, <2>2, <3>1, <3>2, <4>1 DEF Moved
      <4>3. call[d].req \in Requests
        BY <1>0, <3>2, <4>1, BusyCall DEF Places
      <4> QED
        BY <1>0, <2>2, <3>2, <4>1, <4>2, <4>3 DEF Inserted, Exists, TypeOK
    <3> QED
      BY <1>0, <3>2 DEF Exists
  <2>3. CASE Updated(c) /\ Moved(c, {"update"}, "audit")
    <3>1. \A d \in Calls : BeforeInsert(d)' => d # c /\ call'[d] = call[d]
      BY <2>3 DEF Moved
    <3>2. ASSUME NEW d \in Calls, BeforeInsert(d)' PROVE row'[call[d].req] = Absent
      <4>1. ~Exists(call[d].req) /\ Exists(call[c].req)
        BY <1>0, <2>3, <3>1, <3>2 DEF DutiesInv, CheckedBeforeUpdate, Moved
      <4>2. call[d].req \in Requests
        BY <1>0, <3>1, <3>2, BusyCall DEF Places
      <4> QED
        BY <1>0, <2>3, <3>1, <3>2, <4>1, <4>2 DEF Updated, Exists, TypeOK
    <3> QED
      BY <1>0, <3>1, <3>2 DEF Exists
  <2> QED
    BY <1>0, <1>2, <2>1, <2>2, <2>3, AnswerKinds
<1>3. CASE Crash
  BY <1>3 DEF Crash, Idle
<1>4. CASE UNCHANGED <<call, row>>
  BY <1>0, <1>4 DEF Exists
<1> QED
  BY <1>1, <1>2, <1>3, <1>4 DEF Next, RoleChanged, vars

LEMMA CheckedStep == DutiesInv /\ [Next]_vars => CheckedBeforeUpdate'
<1> SUFFICES ASSUME DutiesInv, [Next]_vars PROVE CheckedBeforeUpdate'
  OBVIOUS
<1> USE DEF CheckedBeforeUpdate, At
<1>0. TypeOK /\ CheckedBeforeUpdate
  BY DEF DutiesInv
<1>1. ASSUME NEW c \in Calls, NEW op \in Operations, NEW u \in Users,
             NEW r \in Requests, Called(c, op, u, r)
      PROVE CheckedBeforeUpdate'
  <2>1. row' = row /\ call'[c].at = "permit" /\ \A d \in Calls : d # c => call'[d] = call[d]
    BY <1>0, <1>1, CalledEffect DEF Called
  <2> QED
    BY <1>0, <2>1 DEF Exists
<1>2. ASSUME NEW c \in Calls, Answered(c) PROVE CheckedBeforeUpdate'
  <2> SUFFICES ASSUME NEW d \in Calls, call'[d].at = "update"
               PROVE  /\ row'[call'[d].req] # Absent
                      /\ RightPerson(call'[d].op, call'[d].by, row'[call'[d].req])
    BY DEF Exists
  <2>1. /\ Exists(call[d].req) /\ RightPerson(call[d].op, call[d].by, row[call[d].req])
        /\ call'[d].op = call[d].op /\ call'[d].by = call[d].by
        /\ call'[d].req = call[d].req /\ call[d].at \in {"find", "update"}
    <3>1. CASE d = c
      <4>1. Moved(c, {"find"}, "update") /\ MayWrite(c, row[call[c].req])
        BY <1>0, <1>2, <3>1, AnswerKinds DEF Quiet, Walked, Moved, Ended, Idle
      <4> QED
        BY <3>1, <4>1 DEF Moved, MayWrite, Exists
    <3>2. CASE d # c
      <4>1. call'[d] = call[d]
        BY <1>0, <1>2, <3>2, AnswerKinds DEF Quiet, Walked, Moved, Ended
      <4> QED
        BY <1>0, <4>1
    <3> QED
      BY <3>1, <3>2
  <2>2. call[d].req \in Requests
    BY <1>0, <2>1, BusyCall DEF Places
  <2>3. \A r \in Requests : Exists(r) => row'[r] # Absent /\ row'[r].by = row[r].by
    BY <1>2, RowStep
  <2>4. row'[call[d].req] # Absent /\ row'[call[d].req].by = row[call[d].req].by
    BY <2>1, <2>2, <2>3
  <2> QED
    BY <2>1, <2>4 DEF RightPerson
<1>3. CASE Crash
  BY <1>3 DEF Crash, Idle
<1>4. CASE UNCHANGED <<call, row>>
  BY <1>0, <1>4 DEF Exists
<1> QED
  BY <1>1, <1>2, <1>3, <1>4 DEF Next, RoleChanged, vars

LEMMA CommitsExistStep == DutiesInv /\ [Next]_vars => CommitsExist'
<1> SUFFICES ASSUME DutiesInv, [Next]_vars PROVE CommitsExist'
  OBVIOUS
<1> USE DEF CommitsExist, Exists
<1>0. TypeOK /\ CommitsExist
  BY DEF DutiesInv
<1>1. ASSUME NEW c \in Calls, Answered(c) PROVE CommitsExist'
  <2>1. \A r \in Requests : row[r] # Absent => row'[r] # Absent
    BY <1>1, RowStep
  <2>2. \A f \in commits : f[1] \in Requests
    BY <1>0 DEF TypeOK, Facts
  <2>3. commits' = commits => CommitsExist'
    BY <1>0, <2>1, <2>2
  <2>4. CASE Inserted(c) /\ Moved(c, {"insert"}, "audit")
    <3>1. call[c].req \in Requests /\ call[c].by \in Users
      BY <2>4 DEF Moved, Busy
    <3>2. row'[call[c].req] # Absent
      BY <1>0, <2>4, <3>1, RequestConstants DEF Inserted, TypeOK, Absent
    <3> QED
      BY <1>0, <2>1, <2>2, <2>4, <3>2 DEF Inserted, FactOf
  <2>5. CASE Updated(c) /\ Moved(c, {"update"}, "audit")
    <3>1. call[c].req \in Requests /\ row[call[c].req] # Absent
      BY <2>5 DEF Moved, Busy, DutiesInv, CheckedBeforeUpdate, At
    <3> QED
      BY <1>0, <2>1, <2>2, <2>5, <3>1 DEF Updated, FactOf
  <2> QED
    BY <1>0, <1>1, <2>3, <2>4, <2>5, AnswerKinds DEF Quiet
<1>2. CASE UNCHANGED <<row, commits>>
  BY <1>0, <1>2
<1> QED
  BY <1>1, <1>2 DEF Next, Called, Crash, RoleChanged, History, vars

LEMMA SeparationStep == DutiesInv /\ [Next]_vars => SeparationOfDuties'
<1> SUFFICES ASSUME DutiesInv, [Next]_vars PROVE SeparationOfDuties'
  OBVIOUS
<1> USE DEF SeparationOfDuties, Exists
<1>0. TypeOK /\ SeparationOfDuties /\ CommitsExist
  BY DEF DutiesInv
<1>1. ASSUME NEW c \in Calls, Answered(c) PROVE SeparationOfDuties'
  <2>1. \A r \in Requests : row[r] # Absent => row'[r].by = row[r].by
    BY <1>1, RowStep
  <2>2. \A f \in commits : f[1] \in Requests /\ row[f[1]] # Absent
    BY <1>0 DEF TypeOK, Facts, CommitsExist
  <2>3. \A f \in commits :
          (f[2] \in {"APPROVED", "REJECTED"}) = (f[3] # row'[f[1]].by)
    BY <1>0, <2>1, <2>2
  <2>4. CASE Quiet(c)
    BY <1>0, <2>3, <2>4 DEF Quiet
  <2>5. CASE Inserted(c) /\ Moved(c, {"insert"}, "audit")
    <3>1. call[c].req \in Requests /\ call[c].by \in Users
      BY <2>5 DEF Moved, Busy
    <3>2. row' = [row EXCEPT ![call[c].req] =
                    [by |-> call[c].by, status |-> "PENDING", approver |-> None]]
      BY <2>5 DEF Inserted
    <3>3. \A r \in Requests : row'[r] # Absent => row'[r].approver # row'[r].by
      BY <1>0, <3>1, <3>2, RequestConstants DEF TypeOK
    <3>4. call[c].op = "create"
      BY <2>5 DEF Moved, DutiesInv, RightPlaces, At
    <3>5. FactOf(c) = <<call[c].req, "PENDING", call[c].by>>
      BY <3>4 DEF FactOf, StatusOf
    <3>6. row'[call[c].req].by = call[c].by
      BY <1>0, <3>1, <3>2 DEF TypeOK
    <3>7. commits' = commits \cup {FactOf(c)}
      BY <2>5 DEF Inserted
    <3> QED
      BY <2>3, <3>3, <3>5, <3>6, <3>7
  <2>6. CASE Updated(c) /\ Moved(c, {"update"}, "audit")
    <3> DEFINE q == call[c].req
    <3>1. q \in Requests /\ call[c].by \in Users /\ call[c].op \in Operations
      BY <2>6 DEF Moved, Busy
    <3>2. /\ row[q] # Absent /\ RightPerson(call[c].op, call[c].by, row[q])
          /\ call[c].op # "create"
      BY <2>6 DEF Moved, DutiesInv, CheckedBeforeUpdate, RightPlaces, At
    <3>3. row[q] \in Rows
      BY <1>0, <3>1, <3>2 DEF TypeOK
    <3>4. row'[q] = WithOutcome(row[q], call[c].op, call[c].by)
      BY <1>0, <2>6, <3>1 DEF Updated, TypeOK
    <3>5. /\ row'[q].by = row[q].by
          /\ row'[q].approver = IF call[c].op \in Decisions THEN call[c].by
                                ELSE row[q].approver
      BY <3>3, <3>4 DEF WithOutcome, Rows
    <3>6. row'[q].approver # row'[q].by
      BY <1>0, <3>1, <3>2, <3>5 DEF RightPerson
    <3>7. \A r \in Requests : r # q => row'[r] = row[r]
      BY <1>0, <2>6 DEF Updated, TypeOK
    <3>8. \A r \in Requests : row'[r] # Absent => row'[r].approver # row'[r].by
      BY <1>0, <3>6, <3>7
    <3>9. (StatusOf[call[c].op] \in {"APPROVED", "REJECTED"})
            = (call[c].by # row'[q].by)
      BY <3>1, <3>2, <3>5 DEF StatusOf, Operations, Decisions, RightPerson
    <3>10. /\ FactOf(c)[1] = q /\ FactOf(c)[2] = StatusOf[call[c].op]
           /\ FactOf(c)[3] = call[c].by
      BY DEF FactOf
    <3>11. commits' = commits \cup {FactOf(c)}
      BY <2>6 DEF Updated
    <3> HIDE DEF q
    <3> QED
      BY <2>3, <3>8, <3>9, <3>10, <3>11
  <2> QED
    BY <1>0, <1>1, <2>4, <2>5, <2>6, AnswerKinds
<1>2. CASE UNCHANGED <<row, commits>>
  BY <1>0, <1>2
<1> QED
  BY <1>1, <1>2 DEF Next, Called, Crash, RoleChanged, History, vars

LEMMA DutiesInit == Init => DutiesInv
  BY IdleIsNowhere DEF Init, DutiesInv, TypeOK, RightPlaces, InsertedOnce,
     BeforeInsert, CheckedBeforeUpdate, CommitsExist, SeparationOfDuties, Exists, At, Places

LEMMA DutiesStep == DutiesInv /\ [Next]_vars => DutiesInv'
  BY TypeOKStep, RightPlacesStep, InsertedOnceStep, CheckedStep, CommitsExistStep,
     SeparationStep DEF DutiesInv

LEMMA DutiesAlways == Spec => []DutiesInv
  BY DutiesInit, DutiesStep, PTL DEF Spec

\* Every variable keeps its type in every behaviour: no operation writes a row
\* that was never inserted, whatever is asked of it.
THEOREM TypeCorrect == Spec => []TypeOK
<1>1. DutiesInv => TypeOK
  BY DEF DutiesInv
<1> QED
  BY <1>1, DutiesAlways, PTL

\* Nobody ever decides a request of their own and nobody else withdraws it,
\* although the requester is compared by one query and the row is written by
\* another, with any number of operations in progress.
THEOREM DutiesAreSeparate == Spec => []SeparationOfDuties
<1>1. DutiesInv => SeparationOfDuties
  BY DEF DutiesInv
<1> QED
  BY <1>1, DutiesAlways, PTL

(***************************************************************************)
(* The audit trail and the notifications.                                  *)
(***************************************************************************)

LEMMA ReportStep == ReportInv /\ [Next]_vars => Committed' /\ OnlyFactsReported'
<1> SUFFICES ASSUME ReportInv, [Next]_vars PROVE Committed' /\ OnlyFactsReported'
  OBVIOUS
<1> USE DEF OnlyFactsReported
<1>0. TypeOK /\ Committed /\ OnlyFactsReported /\ DutiesInv
  BY DEF ReportInv, DutiesInv
<1>00. \A c \in Calls : call[c].at \in {"audit", "recipients"} => FactOf(c) \in commits
  BY <1>0 DEF Committed, At
<1>1. ASSUME NEW c \in Calls, NEW op \in Operations, NEW u \in Users,
             NEW r \in Requests, Called(c, op, u, r)
      PROVE Committed' /\ OnlyFactsReported'
  <2>1. call'[c].at = "permit" /\ \A d \in Calls : d # c => call'[d] = call[d]
    BY <1>0, <1>1, CalledEffect
  <2> QED
    BY <1>0, <1>00, <1>1, <2>1 DEF Called, History, Committed, FactOf, At
<1>2. ASSUME NEW c \in Calls, Answered(c) PROVE Committed' /\ OnlyFactsReported'
  <2>1. \A d \in Calls : d # c => call'[d] = call[d]
    BY <1>0, <1>2, AnswerKinds DEF Quiet, Walked, Moved, Ended
  <2>2. commits \subseteq commits'
    BY <1>0, <1>2, AnswerKinds DEF Quiet, Inserted, Updated
  <2>3. call'[c].at \in {"audit", "recipients"} => FactOf(c)' \in commits'
    <3>1. CASE Quiet(c)
      BY <1>00, <2>2, <3>1 DEF Quiet, Walked, Moved, Ended, Idle, FactOf
    <3>2. CASE Inserted(c) /\ Moved(c, {"insert"}, "audit")
      BY <3>2 DEF Inserted, Moved, FactOf
    <3>3. CASE Updated(c) /\ Moved(c, {"update"}, "audit")
      BY <3>3 DEF Updated, Moved, FactOf
    <3> QED
      BY <1>0, <1>2, <3>1, <3>2, <3>3, AnswerKinds
  <2>4. Committed'
    BY <1>00, <2>1, <2>2, <2>3 DEF Committed, FactOf, At
  <2>5. audit' \cup announced' \subseteq commits'
    <3>1. CASE audit' = audit /\ announced' = announced
      BY <1>0, <2>2, <3>1
    <3>2. CASE AuditWritten(c) \/ AuditSwallowed(c)
      BY <1>0, <1>00, <2>2, <3>2 DEF AuditWritten, AuditSwallowed, AfterAudit, At
    <3>3. CASE RecipientsListed(c)
      BY <1>0, <1>00, <2>2, <3>3 DEF RecipientsListed, At
    <3> QED
      BY <1>2, <3>1, <3>2, <3>3 DEF Answered, Denied, Permitted, Inserted, Found,
         Refused, Updated, QueryFailed
  <2> QED
    BY <2>4, <2>5
<1>3. CASE Crash
  BY <1>0, <1>3 DEF Crash, Committed, At, Idle
<1>4. CASE UNCHANGED <<call, audit, announced, commits>>
  BY <1>0, <1>4 DEF Committed, FactOf, At
<1> QED
  BY <1>1, <1>2, <1>3, <1>4 DEF Next, RoleChanged, History, vars

LEMMA ReportAlways == Spec => []ReportInv
<1>1. Init => ReportInv
  BY DutiesInit, IdleIsNowhere DEF Init, ReportInv, Committed, OnlyFactsReported, At, Places
<1>2. ReportInv /\ [Next]_vars => ReportInv'
  BY ReportStep, DutiesStep DEF ReportInv
<1> QED
  BY <1>1, <1>2, PTL DEF Spec

LEMMA CommittedAlways == Spec => []Committed
<1>1. ReportInv => Committed
  BY DEF ReportInv
<1> QED
  BY <1>1, ReportAlways, PTL

\* The audit trail and the event bus never carry what was not committed, with
\* queries failing and the process dying at any await.
THEOREM ReportsAreFacts == Spec => []OnlyFactsReported
<1>1. ReportInv => OnlyFactsReported
  BY DEF ReportInv
<1> QED
  BY <1>1, ReportAlways, PTL

LEMMA TrailStep == TypeOK /\ TrailComplete /\ [Next]_vars => TrailComplete'
<1> SUFFICES ASSUME TypeOK, TrailComplete, [Next]_vars, NEW f \in commits'
             PROVE  f \in audit' \cup ToAudit' \cup unaudited' \cup lost'
  BY DEF TrailComplete
<1>0. f \in commits => f \in audit \cup ToAudit \cup unaudited \cup lost
  BY DEF TrailComplete
<1>1. audit \subseteq audit' /\ unaudited \subseteq unaudited' /\ lost \subseteq lost'
  BY DEF Next, Called, Answered, Denied, Permitted, Inserted, RecipientsListed, Found,
     Refused, Updated, AuditWritten, AuditSwallowed, QueryFailed, Crash, RoleChanged,
     History, vars
<1>2. ASSUME NEW c \in Calls, call'[c].at = "audit" PROVE FactOf(c)' \in ToAudit'
  BY <1>2 DEF ToAudit, At
<1>3. ASSUME NEW d \in Calls, call[d].at = "audit", f = FactOf(d)
      PROVE  f \in audit' \cup ToAudit' \cup unaudited' \cup lost'
  <2>1. CASE call'[d] = call[d]
    BY <1>2, <1>3, <2>1 DEF FactOf
  <2>2. CASE Crash
    BY <1>3, <2>2 DEF Crash, At
  <2>3. ASSUME NEW c \in Calls, Answered(c), call'[d] # call[d]
        PROVE  f \in audit' \cup unaudited'
    <3>1. d = c
      BY <2>3, AnswerKinds DEF Quiet, Walked, Moved, Ended
    <3> QED
      BY <1>3, <2>3, <3>1 DEF Answered, Denied, Permitted, Inserted, RecipientsListed,
         Found, Refused, Updated, AuditWritten, AuditSwallowed, QueryFailed, At
  <2>4. ASSUME NEW c \in Calls, NEW op \in Operations, NEW u \in Users,
               NEW r \in Requests, Called(c, op, u, r), call'[d] # call[d]
        PROVE  FALSE
    BY <1>3, <2>4, CalledEffect DEF Idle
  <2> QED
    BY <2>1, <2>2, <2>3, <2>4 DEF Next, RoleChanged, vars
<1>4. CASE f \in commits
  BY <1>0, <1>1, <1>3, <1>4 DEF ToAudit, At
<1>5. CASE f \notin commits
  <2>1. PICK c \in Calls : Answered(c)
    BY <1>5 DEF Next, Called, Crash, RoleChanged, History, vars
  <2>2. CASE Inserted(c) /\ Moved(c, {"insert"}, "audit")
    <3>1. f = FactOf(c)' /\ call'[c].at = "audit"
      BY <1>5, <2>2 DEF Inserted, Moved, FactOf
    <3> QED
      BY <1>2, <3>1
  <2>3. CASE Updated(c) /\ Moved(c, {"update"}, "audit")
    <3>1. f = FactOf(c)' /\ call'[c].at = "audit"
      BY <1>5, <2>3 DEF Updated, Moved, FactOf
    <3> QED
      BY <1>2, <3>1
  <2> QED
    BY <1>5, <2>1, <2>2, <2>3, AnswerKinds DEF Quiet
<1> QED
  BY <1>4, <1>5

\* A committed transition without an audit row is one whose call still owes it,
\* whose audit insert failed or whose process died in between, and no other.
THEOREM TrailIsComplete == Spec => []TrailComplete
<1>1. Init => TrailComplete
  BY DEF Init, TrailComplete
<1>2. TypeOK /\ TrailComplete /\ [Next]_vars => TrailComplete'
  BY TrailStep
<1> QED
  BY <1>1, <1>2, TypeCorrect, PTL DEF Spec

(***************************************************************************)
(* Overlapping decisions: what an outcome is worth, and the workflow of    *)
(* Approval.                                                               *)
(***************************************************************************)

\* A call joins those that found the request pending by finding it, and leaves
\* them by any answer.
LEMMA DecidingStep ==
  ASSUME TypeOK, NEW c \in Calls, Answered(c), NEW r \in Requests
  PROVE  /\ Found(c) /\ call[c].req = r => Deciding(r)' = Deciding(r) \cup {c}
         /\ ~(Found(c) /\ call[c].req = r) => Deciding(r)' = Deciding(r) \ {c}
<1>0. \A d \in Calls : d # c => call'[d] = call[d]
  BY AnswerKinds DEF Quiet, Walked, Moved, Ended
<1>1. Found(c) => call'[c].at = "update" /\ call'[c].req = call[c].req
  <2>1. "find" \in Places /\ "update" \in Places
    BY DEF Places
  <2> QED
    BY <2>1, BusyCall, GotoEffect DEF Found, At
<1>2. ~Found(c) => call'[c].at # "update"
  <2>1. \A p \in {"permit", "insert", "find", "update", "audit", "recipients"} :
          p \in Places
    BY DEF Places
  <2>2. CASE Moved(c, {"find"}, "update")
    BY <2>2, <2>1 DEF Answered, Denied, Permitted, Inserted, RecipientsListed, Refused, Updated,
       AuditWritten, AuditSwallowed, QueryFailed, AfterFailure, Done, Idle, At, Moved, TypeOK
  <2> QED
    BY <2>2, AnswerKinds DEF Quiet, Walked, Moved, Ended, Idle
<1> QED
  BY <1>0, <1>1, <1>2 DEF Deciding, At

\* A new call has found nothing yet, and a dead process decides nothing.
LEMMA DecidingElsewhere ==
  ASSUME TypeOK, NEW r \in Requests
  PROVE  /\ \A c \in Calls, op \in Operations, u \in Users, q \in Requests :
              Called(c, op, u, q) => Deciding(r)' = Deciding(r)
         /\ Crash => Deciding(r)' = {}
<1>1. ASSUME NEW c \in Calls, NEW op \in Operations, NEW u \in Users, NEW q \in Requests,
             Called(c, op, u, q)
      PROVE  Deciding(r)' = Deciding(r)
  <2>1. call[c].at # "update" /\ call'[c].at # "update"
    BY <1>1, CalledEffect DEF Idle
  <2>2. \A d \in Calls : d # c => call'[d] = call[d]
    BY <1>1, CalledEffect
  <2> QED
    BY <2>1, <2>2 DEF Deciding, At
<1>2. Crash => Deciding(r)' = {}
  BY DEF Crash, Deciding, At, Idle
<1> QED
  BY <1>1, <1>2

LEMMA OneDecidesStep == OutcomeInv /\ [Next]_vars => OneDecides'
<1> SUFFICES ASSUME OutcomeInv, [Next]_vars, NEW r \in Requests, r \notin raced',
                    NEW c \in Deciding(r)', NEW d \in Deciding(r)'
             PROVE  c = d
  BY DEF OneDecides
<1>0. TypeOK /\ \A e, g \in Deciding(r) : r \notin raced => e = g
  BY DEF OutcomeInv, DutiesInv, OneDecides
<1>1. ASSUME NEW e \in Calls, Answered(e) PROVE c = d
  <2>1. CASE Found(e) /\ call[e].req = r
    BY <1>0, <1>1, <2>1, DecidingStep DEF Found
  <2>2. CASE ~(Found(e) /\ call[e].req = r)
    <3>1. r \notin raced
      BY <1>1 DEF Answered, Denied, Permitted, Inserted, RecipientsListed, Found, Refused,
         Updated, AuditWritten, AuditSwallowed, QueryFailed, History
    <3> QED
      BY <1>0, <1>1, <2>2, <3>1, DecidingStep
  <2> QED
    BY <2>1, <2>2
<1>2. CASE \E e \in Calls, op \in Operations, u \in Users, q \in Requests : Called(e, op, u, q)
  BY <1>0, <1>2, DecidingElsewhere DEF Called, History
<1>3. CASE Crash
  BY <1>0, <1>3, DecidingElsewhere
<1>4. CASE UNCHANGED <<call, raced>>
  BY <1>0, <1>4 DEF Deciding, At
<1> QED
  BY <1>1, <1>2, <1>3, <1>4 DEF Next, RoleChanged, History, vars

\* Rows change under one call at a time.
LEMMA RowOf ==
  ASSUME TypeOK, NEW c \in Calls, Answered(c), NEW r \in Requests, r # call[c].req
  PROVE  row'[r] = row[r]
  BY AnswerKinds DEF Quiet, Inserted, Updated, TypeOK

LEMMA RacedGrows == [Next]_vars => raced \subseteq raced'
  BY DEF Next, Called, Answered, Denied, Permitted, Inserted, RecipientsListed, Found,
     Refused, Updated, AuditWritten, AuditSwallowed, QueryFailed, Crash, RoleChanged,
     History, vars

LEMMA StillPendingStep == OutcomeInv /\ [Next]_vars => StillPending'
<1> SUFFICES ASSUME OutcomeInv, [Next]_vars, NEW r \in Requests, r \notin raced',
                    NEW e \in Deciding(r)'
             PROVE  row'[r].status = "PENDING"
  BY DEF StillPending
<1>0. TypeOK /\ DutiesInv /\ r \notin raced
  BY RacedGrows DEF OutcomeInv, DutiesInv
<1>00. e \in Deciding(r) => row[r].status = "PENDING" /\ row[r] # Absent
  BY <1>0 DEF OutcomeInv, StillPending, DutiesInv, CheckedBeforeUpdate, Deciding, Exists
<1>1. ASSUME NEW c \in Calls, Answered(c) PROVE row'[r].status = "PENDING"
  <2>1. CASE Found(c) /\ call[c].req = r
    <3>1. row' = row /\ row[r].status = "PENDING"
      BY <2>1 DEF Found, MayWrite
    <3> QED
      BY <3>1
  <2>2. CASE ~(Found(c) /\ call[c].req = r)
    <3>1. e \in Deciding(r) /\ e # c
      BY <1>0, <1>1, <2>2, DecidingStep
    <3>2. CASE Quiet(c)
      BY <1>00, <3>1, <3>2 DEF Quiet
    <3>3. CASE Inserted(c) /\ Moved(c, {"insert"}, "audit")
      <4>1. call[c].req # r
        BY <1>0, <1>00, <3>1, <3>3 DEF DutiesInv, RightPlaces, InsertedOnce, BeforeInsert, At,
           Moved, Exists
      <4> QED
        BY <1>0, <1>00, <1>1, <3>1, <4>1, RowOf
    <3>4. CASE Updated(c) /\ Moved(c, {"update"}, "audit")
      <4>1. call[c].req # r
        BY <1>0, <3>1, <3>4 DEF OutcomeInv, OneDecides, Deciding, At, Moved
      <4> QED
        BY <1>0, <1>00, <1>1, <3>1, <4>1, RowOf
    <3> QED
      BY <1>0, <1>1, <3>2, <3>3, <3>4, AnswerKinds
  <2> QED
    BY <2>1, <2>2
<1>2. CASE \E c \in Calls, op \in Operations, u \in Users, q \in Requests : Called(c, op, u, q)
  BY <1>0, <1>00, <1>2, DecidingElsewhere DEF Called
<1>3. CASE Crash
  BY <1>0, <1>3, DecidingElsewhere
<1>4. CASE UNCHANGED <<call, row>>
  BY <1>00, <1>4 DEF Deciding, At
<1> QED
  BY <1>1, <1>2, <1>3, <1>4 DEF Next, RoleChanged, vars

LEMMA OutcomeKeptStep == OutcomeInv /\ [Next]_vars => OutcomeKept'
<1> SUFFICES ASSUME OutcomeInv, [Next]_vars PROVE OutcomeKept'
  OBVIOUS
<1> USE DEF OutcomeKept
<1>0. TypeOK /\ StillPending /\ DutiesInv /\ OutcomeKept /\ CommitsExist /\ raced \subseteq raced'
  BY RacedGrows DEF OutcomeInv, DutiesInv
<1>1. ASSUME NEW c \in Calls, Answered(c) PROVE OutcomeKept'
  <2>1. CASE Quiet(c)
    BY <1>0, <2>1 DEF Quiet
  <2>2. CASE Inserted(c) /\ Moved(c, {"insert"}, "audit")
    <3>1. call[c].op = "create" /\ row[call[c].req] = Absent
      BY <2>2, <1>0 DEF Moved, DutiesInv, RightPlaces, InsertedOnce, BeforeInsert, At, Exists
    <3>2. FactOf(c)[2] = "PENDING" /\ commits' = commits \cup {FactOf(c)}
      BY <2>2, <3>1 DEF FactOf, StatusOf, Inserted
    <3>3. \A f \in commits : f[1] \in Requests /\ f[1] # call[c].req
      BY <1>0, <3>1 DEF CommitsExist, Exists, TypeOK, Facts
    <3>4. \A f \in commits : row'[f[1]] = row[f[1]]
      BY <1>0, <1>1, <3>3, RowOf
    <3> QED
      BY <1>0, <3>2, <3>4
  <2>3. CASE Updated(c) /\ Moved(c, {"update"}, "audit")
    <3> DEFINE q == call[c].req
    <3>1. q \in Requests /\ row[q] # Absent /\ (q \notin raced => row[q].status = "PENDING")
      BY <1>0, <2>3 DEF Moved, Busy, DutiesInv, CheckedBeforeUpdate, StillPending, Deciding, At, Exists
    <3>2. row[q] \in Rows
      BY <1>0, <3>1 DEF TypeOK
    <3>3. row'[q] = WithOutcome(row[q], call[c].op, call[c].by)
      BY <1>0, <2>3, <3>1 DEF Updated, TypeOK
    <3>4. row'[q].status = StatusOf[call[c].op]
      BY <3>2, <3>3 DEF WithOutcome, Rows
    <3>5. \A r \in Requests : r # q => row'[r] = row[r]
      BY <1>0, <1>1, RowOf
    <3>6. \A f \in commits : f[1] \in Requests /\ (f[1] = q /\ q \notin raced => f[2] = "PENDING")
      BY <1>0, <3>1 DEF TypeOK, Facts
    <3>7. /\ commits' = commits \cup {FactOf(c)}
          /\ FactOf(c)[1] = q /\ FactOf(c)[2] = StatusOf[call[c].op]
      BY <2>3 DEF Updated, FactOf
    <3> HIDE DEF q
    <3> QED
      BY <1>0, <3>4, <3>5, <3>6, <3>7
  <2> QED
    BY <1>0, <1>1, <2>1, <2>2, <2>3, AnswerKinds
<1>2. CASE UNCHANGED <<row, commits>>
  BY <1>0, <1>2
<1> QED
  BY <1>1, <1>2 DEF Next, Called, Crash, RoleChanged, History, vars

LEMMA OutcomeAlways == Spec => []OutcomeInv
<1>1. Init => OutcomeInv
  BY DutiesInit, IdleIsNowhere
     DEF Init, OutcomeInv, OneDecides, StillPending, Deciding, OutcomeKept, At, Places
<1>2. OutcomeInv /\ [Next]_vars => OutcomeInv'
  BY DutiesStep, OneDecidesStep, StillPendingStep, OutcomeKeptStep DEF OutcomeInv
<1> QED
  BY <1>1, <1>2, PTL DEF Spec

\* A request has more than one outcome only if two calls had both found it
\* pending before either of them wrote, with any number of people and calls and
\* whatever fails in between.
THEOREM OutcomeIsFinal == Spec => []OutcomeStands
<1>1. OutcomeInv => OutcomeStands
  <2> SUFFICES ASSUME OutcomeInv, NEW r \in Requests \ raced
               PROVE  Cardinality(OutcomesOf(r)) <= 1
    BY DEF OutcomeStands
  <2>1. CASE OutcomesOf(r) = {}
    BY <2>1, FS_EmptySet
  <2>2. ASSUME NEW f \in OutcomesOf(r) PROVE Cardinality(OutcomesOf(r)) <= 1
    <3>1. OutcomesOf(r) = {f}
      BY <2>2 DEF OutcomesOf, OutcomeInv, OutcomeKept
    <3> QED
      BY <3>1, FS_Singleton
  <2> QED
    BY <2>1, <2>2
<1> QED
  BY <1>1, OutcomeAlways, PTL

LEMMA OneMoreStated ==
  ASSUME NEW facts, NEW f, f[1] \in Requests
  PROVE  Stated(facts \cup {f}) = [Stated(facts) EXCEPT ![f[1]] = @ \cup {f[2]}]
<1>1. \A r \in Requests :
        {g[2] : g \in {h \in facts \cup {f} : h[1] = r}} =
          IF r = f[1] THEN {g[2] : g \in {h \in facts : h[1] = r}} \cup {f[2]}
          ELSE {g[2] : g \in {h \in facts : h[1] = r}}
  OBVIOUS
<1> QED
  BY <1>1 DEF Stated

\* A call that reports states what it committed.
LEMMA ReportOfCall ==
  ASSUME TypeOK, Committed, NEW c \in Calls, call[c].at \in {"audit", "recipients"},
         NEW q \in Requests, q = call[c].req, UNCHANGED <<row, commits>>,
         \A r \in Requests : Deciding(r)' = Deciding(r),
         audit' \in {audit, audit \cup {FactOf(c)}},
         announced' \in {announced, announced \cup {FactOf(c)}}
  PROVE  \E s \in Workflow!Outcomes \cup {"PENDING"} : Workflow!Report(q, s)
<1> DEFINE s == StatusOf[call[c].op]
<1>1. FactOf(c)[1] = q /\ FactOf(c)[2] = s
  BY DEF FactOf
<1>2. FactOf(c) \in commits /\ call[c].op \in Operations
  BY BusyCall DEF Committed, At, Places
<1>3. s \in Workflow!Outcomes \cup {"PENDING"}
  BY <1>2 DEF StatusOf, Operations, Workflow!Outcomes
<1>4. s \in Stated(commits)[q]
  BY <1>1, <1>2 DEF Stated
<1>5. Stated(audit)' \in {Stated(audit), [Stated(audit) EXCEPT ![q] = @ \cup {s}]}
  <2>1. Stated(audit \cup {FactOf(c)}) = [Stated(audit) EXCEPT ![q] = @ \cup {s}]
    BY <1>1, OneMoreStated
  <2> QED
    BY <2>1
<1>6. Stated(announced)' \in {Stated(announced), [Stated(announced) EXCEPT ![q] = @ \cup {s}]}
  <2>1. Stated(announced \cup {FactOf(c)}) = [Stated(announced) EXCEPT ![q] = @ \cup {s}]
    BY <1>1, OneMoreStated
  <2> QED
    BY <2>1
<1>7. Stated(commits)' = Stated(commits)
  OBVIOUS
<1>8. [r \in Requests |-> Deciding(r)]' = [r \in Requests |-> Deciding(r)]
  OBVIOUS
<1> HIDE DEF s
<1> QED
  BY <1>3, <1>4, <1>5, <1>6, <1>7, <1>8 DEF Workflow!Report

LEMMA WorkflowStep ==
  ASSUME OutcomeInv, Committed, [Next]_vars
  PROVE  [Workflow!ANext]_Workflow!avars
<1>0. TypeOK /\ DutiesInv
  BY DEF OutcomeInv, DutiesInv
<1> DEFINE st == [r \in Requests |-> row[r].status]
           op == [r \in Requests |-> Deciding(r)]
<1>1. ASSUME NEW c \in Calls, Answered(c) PROVE [Workflow!ANext]_Workflow!avars
  <2>0. \A q \in Requests :
          /\ Found(c) /\ call[c].req = q => Deciding(q)' = Deciding(q) \cup {c}
          /\ ~(Found(c) /\ call[c].req = q) => Deciding(q)' = Deciding(q) \ {c}
    BY <1>0, <1>1, DecidingStep
  <2>1. CASE Inserted(c) /\ Moved(c, {"insert"}, "audit")
    <3>0. PICK q \in Requests : q = call[c].req
      BY <2>1 DEF Moved, Busy
    <3>1. row[q] = Absent /\ call[c].op = "create"
      BY <1>0, <3>0, <2>1 DEF Moved, Busy, DutiesInv, RightPlaces, InsertedOnce, BeforeInsert, At, Exists
    <3>2. st[q] = "none"
      BY <3>1 DEF Absent
    <3>3. st' = [st EXCEPT ![q] = "PENDING"]
      BY <1>0, <2>1, <3>0 DEF Inserted, TypeOK
    <3>4. op' = op
      BY <2>0, <2>1 DEF Moved, Deciding, At, Found
    <3>5. FactOf(c)[1] = q /\ FactOf(c)[2] = "PENDING" /\ commits' = commits \cup {FactOf(c)}
      BY <2>1, <3>0, <3>1 DEF FactOf, StatusOf, Inserted
    <3>6. Stated(commits)' = [Stated(commits) EXCEPT ![q] = @ \cup {"PENDING"}]
      BY <3>5, OneMoreStated
    <3>7. Stated(audit)' = Stated(audit) /\ Stated(announced)' = Stated(announced)
      BY <2>1 DEF Inserted
    <3>8. Workflow!Create(q)
      BY <3>2, <3>3, <3>4, <3>6, <3>7 DEF Workflow!Create, Workflow!Becomes
    <3> QED
      BY <3>8 DEF Workflow!ANext
  <2>2. CASE Updated(c) /\ Moved(c, {"update"}, "audit")
    <3>0. PICK q \in Requests : q = call[c].req
      BY <2>2 DEF Moved, Busy
    <3>1. row[q] # Absent /\ call[c].op \in Operations \ {"create"}
      BY <1>0, <2>2, <3>0 DEF Moved, Busy, DutiesInv, CheckedBeforeUpdate, At, Exists, RightPlaces
    <3>2. row[q] \in Rows
      BY <1>0, <3>1 DEF TypeOK
    <3>3. row'[q] = WithOutcome(row[q], call[c].op, call[c].by)
      BY <1>0, <2>2, <3>0 DEF Updated, TypeOK
    <3>4. row'[q].status = StatusOf[call[c].op]
      BY <3>2, <3>3 DEF WithOutcome, Rows
    <3>5. \A r \in Requests : r # q => row'[r] = row[r]
      BY <1>0, <1>1, <3>0, RowOf
    <3>6. st' = [st EXCEPT ![q] = StatusOf[call[c].op]]
      BY <3>1, <3>4, <3>5
    <3>7. PICK outcome \in Workflow!Outcomes : outcome = StatusOf[call[c].op]
      BY <3>1 DEF StatusOf, Operations, Workflow!Outcomes
    <3>8. c \in op[q] /\ op' = [op EXCEPT ![q] = @ \ {c}]
      <4>1. c \in Deciding(q) /\ ~Found(c)
        BY <2>2, <3>0 DEF Deciding, At, Moved, Found
      <4>2. \A r \in Requests : r # q => c \notin Deciding(r)
        BY <3>0 DEF Deciding
      <4> QED
        BY <2>0, <4>1, <4>2
    <3>9. /\ FactOf(c)[1] = q /\ FactOf(c)[2] = outcome
          /\ commits' = commits \cup {FactOf(c)}
      BY <2>2, <3>0, <3>7 DEF FactOf, Updated
    <3>10. Stated(commits)' = [Stated(commits) EXCEPT ![q] = @ \cup {outcome}]
      BY <3>9, OneMoreStated
    <3>11. Stated(audit)' = Stated(audit) /\ Stated(announced)' = Stated(announced)
      BY <2>2 DEF Updated
    <3>12. Workflow!Decide(q, c, outcome)
      BY <3>6, <3>7, <3>8, <3>10, <3>11 DEF Workflow!Decide, Workflow!Becomes
    <3> QED
      BY <3>12 DEF Workflow!ANext
  <2>3. CASE AuditWritten(c) \/ AuditSwallowed(c) \/ RecipientsListed(c)
    <3>1. /\ call[c].at \in {"audit", "recipients"} /\ UNCHANGED <<row, commits>>
          /\ audit' \in {audit, audit \cup {FactOf(c)}}
          /\ announced' \in {announced, announced \cup {FactOf(c)}}
      BY <2>3 DEF AuditWritten, AuditSwallowed, RecipientsListed, AfterAudit, At, History
    <3>2. PICK q \in Requests : q = call[c].req
      BY <1>0, <3>1, BusyCall DEF Places
    <3>3. \A r \in Requests : Deciding(r)' = Deciding(r)
      BY <2>0, <3>1 DEF Deciding, At, Found
    <3>4. PICK s \in Workflow!Outcomes \cup {"PENDING"} : Workflow!Report(q, s)
      BY <1>0, <3>1, <3>2, <3>3, ReportOfCall
    <3> QED
      BY <3>4 DEF Workflow!ANext
  <2>4. CASE Found(c)
    <3>0. PICK q \in Requests : q = call[c].req
      BY <1>0, <2>4, BusyCall DEF Found, At, Places
    <3>1. st[q] = "PENDING"
      BY <2>4, <3>0 DEF Found, MayWrite
    <3>2. \A r \in Requests : r # q => c \notin Deciding(r)
      BY <3>0 DEF Deciding
    <3>3. op' = [op EXCEPT ![q] = @ \cup {c}]
      <4>1. \A r \in Requests : Deciding(r)' = IF r = q THEN Deciding(r) \cup {c} ELSE Deciding(r)
        BY <2>0, <2>4, <3>0, <3>2
      <4> QED
        BY <4>1
    <3>4. UNCHANGED <<row, commits, audit, announced>>
      BY <2>4 DEF Found
    <3>5. Workflow!TakeUp(q, c)
      BY <3>1, <3>3, <3>4 DEF Workflow!TakeUp
    <3> QED
      BY <3>5 DEF Workflow!ANext
  <2>5. CASE Denied(c) \/ Permitted(c) \/ Refused(c) \/ QueryFailed(c)
    <3>1. UNCHANGED <<row, commits, audit, announced>>
      BY <2>5 DEF Denied, Permitted, Refused, QueryFailed, History
    <3>2. CASE Found(c)
      BY <2>4, <3>2
    <3>3. CASE ~Found(c)
      <4>1. op' = [r \in Requests |-> op[r] \ {c}]
        BY <2>0, <3>3
      <4>2. Workflow!GiveUp({c})
        BY <3>1, <4>1 DEF Workflow!GiveUp
      <4> QED
        BY <4>2 DEF Workflow!ANext
    <3> QED
      BY <3>2, <3>3
  <2>6. CASE Quiet(c) /\ (Inserted(c) \/ Updated(c))
    <3>1. ~Found(c)
      BY <2>6 DEF Inserted, Updated, Found, At
    <3>2. op' = [r \in Requests |-> op[r] \ {c}]
      BY <2>0, <3>1
    <3>3. Workflow!GiveUp({c})
      BY <2>6, <3>2 DEF Workflow!GiveUp, Quiet, Inserted, Updated
    <3> QED
      BY <3>3 DEF Workflow!ANext
  <2> QED
    BY <1>0, <1>1, <2>1, <2>2, <2>3, <2>4, <2>5, <2>6, AnswerKinds DEF Answered
<1>2. ASSUME NEW c \in Calls, NEW o \in Operations, NEW u \in Users, NEW q \in Requests,
             Called(c, o, u, q)
      PROVE  UNCHANGED Workflow!avars
  <2>1. \A r \in Requests : Deciding(r)' = Deciding(r)
    BY <1>0, <1>2, DecidingElsewhere
  <2> QED
    BY <1>2, <2>1 DEF Workflow!avars, Called, History
<1>3. CASE Crash
  <2>1. op' = [r \in Requests |-> op[r] \ Calls]
    <3>1. \A r \in Requests : Deciding(r)' = {} /\ Deciding(r) \subseteq Calls
      BY <1>0, <1>3, DecidingElsewhere DEF Deciding
    <3> QED
      BY <3>1
  <2>2. Workflow!GiveUp(Calls)
    BY <1>3, <2>1 DEF Workflow!GiveUp, Crash
  <2> QED
    BY <2>2 DEF Workflow!ANext
<1>4. CASE UNCHANGED <<row, call, audit, announced, commits>>
  BY <1>4 DEF Workflow!avars, Deciding, At
<1> QED
  BY <1>1, <1>2, <1>3, <1>4 DEF Next, RoleChanged, History, vars

\* The service implements the workflow of module Approval, whichever operations
\* overlap: a decision is taken up only while the request is pending, an outcome
\* is final once no decision taken up before it is open, and nothing is reported
\* of a request but what it has been.
THEOREM WorkflowIsImplemented == Spec => ImplementsWorkflow
<1>1. Init => Workflow!AInit
  BY IdleIsNowhere DEF Init, Workflow!AInit, Absent, Stated, Deciding, At, Places
<1>2. OutcomeInv /\ Committed /\ [Next]_vars => [Workflow!ANext]_Workflow!avars
  BY WorkflowStep
<1> QED
  BY <1>1, <1>2, OutcomeAlways, CommittedAlways, PTL DEF Spec, ImplementsWorkflow, Workflow!ASpec
=============================================================================
