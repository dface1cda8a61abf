------------------------------ MODULE Approval ------------------------------
(***************************************************************************)
(* What the request workflow promises to the people who use it: a request  *)
(* is created pending; a decision is taken up only while it is pending,    *)
(* and once an outcome stands and no decision taken up before it is still  *)
(* open, the outcome is final; the audit trail and the notifications only  *)
(* ever state what the request has been.                                   *)
(***************************************************************************)
CONSTANTS
  Requests,
  Deciders   \* whoever takes up a decision or a withdrawal

Outcomes == {"APPROVED", "REJECTED", "CANCELLED"}

VARIABLES
  status,  \* "none" until the request is created
  been,    \* the statuses a request has had
  open,    \* who has taken up a decision on a request and not written it
  trail,   \* the statuses the audit trail states of a request
  told     \* the statuses notifications state of a request

avars == <<status, been, open, trail, told>>

AInit ==
  /\ status = [r \in Requests |-> "none"]
  /\ been = [r \in Requests |-> {}]
  /\ open = [r \in Requests |-> {}]
  /\ trail = [r \in Requests |-> {}]
  /\ told = [r \in Requests |-> {}]

Becomes(r, s) ==
  /\ status' = [status EXCEPT ![r] = s]
  /\ been' = [been EXCEPT ![r] = @ \cup {s}]
  /\ UNCHANGED <<trail, told>>

Create(r) ==
  /\ status[r] = "none"
  /\ Becomes(r, "PENDING")
  /\ UNCHANGED open

TakeUp(r, d) ==
  /\ status[r] = "PENDING"
  /\ open' = [open EXCEPT ![r] = @ \cup {d}]
  /\ UNCHANGED <<status, been, trail, told>>

Decide(r, d, outcome) ==
  /\ d \in open[r]
  /\ open' = [open EXCEPT ![r] = @ \ {d}]
  /\ Becomes(r, outcome)

\* Some of those who decide never do.
GiveUp(gone) ==
  /\ open' = [r \in Requests |-> open[r] \ gone]
  /\ UNCHANGED <<status, been, trail, told>>

\* The trail and the notification state what has been.
Report(r, s) ==
  /\ s \in been[r]
  /\ trail' \in {trail, [trail EXCEPT ![r] = @ \cup {s}]}
  /\ told' \in {told, [told EXCEPT ![r] = @ \cup {s}]}
  /\ UNCHANGED <<status, been, open>>

ANext ==
  \/ \E gone \in SUBSET Deciders : GiveUp(gone)
  \/ \E r \in Requests :
       \/ Create(r)
       \/ \E d \in Deciders : TakeUp(r, d)
       \/ \E d \in Deciders, outcome \in Outcomes : Decide(r, d, outcome)
       \/ \E s \in Outcomes \cup {"PENDING"} : Report(r, s)

ASpec == AInit /\ [][ANext]_avars
=============================================================================
