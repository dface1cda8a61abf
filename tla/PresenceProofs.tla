--------------------------- MODULE PresenceProofs ---------------------------
(***************************************************************************)
(* What the realtime gateway tells of users: who is there and who types.   *)
(*                                                                         *)
(* For any number of users, sockets, workspaces and calls: rooms, tracking *)
(* and what the clients were told agree, and who is shown as gone is gone. *)
(* For any number of users and channels, however commands are delayed,     *)
(* lost or refused: who is shown typing does type.                         *)
(***************************************************************************)
EXTENDS Presence, Typing, FiniteSetTheorems, TLAPS

(***************************************************************************)
(* What the actions do to the progress of the handlers.                    *)
(***************************************************************************)

LEMMA AnsweredEffect ==
  ASSUME TypeOK, NEW answered \in SUBSET Calls, MembershipAnswered(answered),
         NEW c \in Calls
  PROVE  \/ call'[c] = call[c]
         \/ /\ call[c] \in Busy /\ call'[c] \in Busy
            /\ call[c].at = "asked"
            /\ call'[c].at \in {"member", "stranger"}
            /\ call'[c].sock = call[c].sock
            /\ call'[c].ws = call[c].ws
<1>1. CASE c \in answered
  <2>1. call[c] \in Busy /\ call[c].at = "asked"
    BY <1>1 DEF MembershipAnswered, TypeOK, Idle, At
  <2> DEFINE place == IF <<Owner[call[c].sock], call[c].ws>> \in member
                      THEN "member" ELSE "stranger"
  <2>2. call'[c] = [call[c] EXCEPT !.at = place]
    BY <1>1 DEF MembershipAnswered
  <2>3. place \in {"member", "stranger"}
    OBVIOUS
  <2>4. call'[c] = [at |-> place, sock |-> call[c].sock, ws |-> call[c].ws]
    BY <2>1, <2>2 DEF Busy
  <2> HIDE DEF place
  <2> QED
    BY <2>1, <2>3, <2>4 DEF Busy
<1>2. CASE c \notin answered
  BY <1>2 DEF MembershipAnswered
<1> QED
  BY <1>1, <1>2

LEMMA EnterEffect ==
  ASSUME TypeOK, NEW c \in Calls, JoinEnter(c)
  PROVE  /\ call[c] \in Busy /\ call'[c] \in Busy
         /\ call[c].at = "member" /\ call'[c].at = "entering"
         /\ call'[c].sock = call[c].sock
         /\ call'[c].ws = call[c].ws
         /\ \A d \in Calls \ {c} : call'[d] = call[d]
<1>1. call[c] \in Busy
  BY DEF JoinEnter, TypeOK, Idle, At
<1> QED
  BY <1>1 DEF JoinEnter, TypeOK, Busy, At

(***************************************************************************)
(* Type correctness.                                                       *)
(***************************************************************************)

LEMMA TypeOKStep == TypeOK /\ [Next]_vars => TypeOK'
<1> SUFFICES ASSUME TypeOK, [Next]_vars PROVE TypeOK'
  OBVIOUS
<1> USE PresenceConstants DEF TypeOK, Idle, Busy, At, history, Sent
<1>1. ASSUME NEW s \in Sockets, HandleConnection(s) PROVE TypeOK'
  BY <1>1 DEF HandleConnection
<1>2. ASSUME NEW s \in Sockets, HandleDisconnect(s) PROVE TypeOK'
  BY <1>2 DEF HandleDisconnect
<1>3. ASSUME NEW s \in Sockets, NEW w \in Workspaces, BroadcastOffline(s, w)
      PROVE TypeOK'
  BY <1>3 DEF BroadcastOffline, RemovePresence, EmitPresence, OnlineIn
<1>4. ASSUME NEW s \in Sockets, NEW w \in Workspaces, LeaveIgnored(s, w)
      PROVE TypeOK'
  BY <1>4 DEF LeaveIgnored
<1>5. ASSUME NEW s \in Sockets, NEW w \in Workspaces, NEW c \in Calls,
             JoinReceived(s, w, c)
      PROVE TypeOK'
  BY <1>5 DEF JoinReceived
<1>6. ASSUME NEW s \in Sockets, NEW w \in Workspaces, NEW c \in Calls,
             LeaveExit(s, w, c)
      PROVE TypeOK'
  <2>1. rooms' \in [Workspaces -> SUBSET Sockets]
    BY <1>6 DEF LeaveExit
  <2>2. call' \in [Calls -> Busy \cup {Idle}]
    BY <1>6 DEF LeaveExit
  <2> QED
    BY <1>6, <2>1, <2>2 DEF LeaveExit
<1>7. ASSUME NEW answered \in SUBSET Calls, MembershipAnswered(answered)
      PROVE TypeOK'
  <2>1. ASSUME NEW c \in Calls PROVE call'[c] \in Busy \cup {Idle}
    <3> HIDE DEF TypeOK, Busy, Idle, At
    <3>1. call[c] \in Busy \cup {Idle}
      BY DEF TypeOK
    <3> QED
      BY <1>7, <3>1, AnsweredEffect
  <2>2. call' \in [Calls -> Busy \cup {Idle}]
    BY <1>7, <2>1 DEF MembershipAnswered
  <2> QED
    BY <1>7, <2>2 DEF MembershipAnswered
<1>8. ASSUME NEW c \in Calls, JoinForbidden(c) \/ MembershipFailed(c) PROVE TypeOK'
  BY <1>8 DEF JoinForbidden, MembershipFailed, WithoutEffect
<1>9. ASSUME NEW c \in Calls, JoinRepeated(c) PROVE TypeOK'
  BY <1>9 DEF JoinRepeated
<1>10. ASSUME NEW c \in Calls, JoinEnter(c) PROVE TypeOK'
  <2>1. call[c] \in Busy
    BY <1>10 DEF JoinEnter
  <2>2. call' \in [Calls -> Busy \cup {Idle}]
    BY <1>10, <2>1 DEF JoinEnter
  <2>3. rooms' \in [Workspaces -> SUBSET Sockets]
    BY <1>10, <2>1 DEF JoinEnter, RoomsAfterJoin
  <2> QED
    BY <1>10, <2>2, <2>3 DEF JoinEnter
<1>11. ASSUME NEW c \in Calls, JoinFinish(c) PROVE TypeOK'
  BY <1>11 DEF JoinFinish, TrackJoin, AddPresence, EmitPresence, OnlineIn
<1>12. ASSUME NEW c \in Calls, LeaveFinish(c) PROVE TypeOK'
  BY <1>12 DEF LeaveFinish, TrackLeave, RemovePresence, EmitPresence, OnlineIn
<1>13. ASSUME NEW u \in Users, NEW w \in Workspaces, MembershipChanged(u, w)
       PROVE TypeOK'
  BY <1>13 DEF MembershipChanged, MemberInvited,
     MemberRemoved
<1>14. CASE UNCHANGED vars
  BY <1>14 DEF vars, history, history
<1> QED
  BY <1>1, <1>2, <1>3, <1>4, <1>5, <1>6, <1>7, <1>8, <1>9, <1>10, <1>11,
     <1>12, <1>13, <1>14 DEF Next, Resume

\* Every variable keeps its type in every behaviour: in particular the count
\* of a user never goes below zero, whatever joins and leaves are in progress.
THEOREM TypeCorrect == Spec => []TypeOK
<1>1. Init => TypeOK
  BY PresenceConstants DEF Init, TypeOK
<1> QED
  BY <1>1, TypeOKStep, PTL DEF Spec

(***************************************************************************)
(* The rooms of socket.io and joinedWorkspaces agree.                      *)
(***************************************************************************)

LEMMA RoomInvStep == RoomInv /\ [Next]_vars => RoomInv'
<1> SUFFICES ASSUME RoomInv, [Next]_vars PROVE RoomInv'
  OBVIOUS
<1>0. TypeOK'
  BY TypeOKStep DEF RoomInv
<1> USE DEF RoomInv
<1>1. TurnsDoNotMix'
  <2>1. ASSUME NEW s \in Sockets, NEW w \in Workspaces, NEW c \in Calls,
               JoinReceived(s, w, c)
        PROVE TurnsDoNotMix'
    BY <2>1 DEF TypeOK, TurnsDoNotMix, JoinReceived, At
  <2>2. ASSUME NEW s \in Sockets, NEW w \in Workspaces, NEW c \in Calls,
               LeaveExit(s, w, c)
        PROVE TurnsDoNotMix'
    BY <2>2 DEF TypeOK, TurnsDoNotMix, LeaveExit, PacketTurn, At
  <2>3. ASSUME NEW answered \in SUBSET Calls, MembershipAnswered(answered)
        PROVE TurnsDoNotMix'
    <3>1. \A c \in Calls : call[c].at \in {"idle", "asked"}
      BY <2>3 DEF MembershipAnswered, Drained, At
    <3>2. \A c \in Calls : call'[c].at # "leaving"
      BY <2>3, <3>1, AnsweredEffect
    <3> QED
      BY <3>2 DEF TurnsDoNotMix, At
  <2>4. ASSUME NEW c \in Calls, JoinEnter(c) PROVE TurnsDoNotMix'
    BY <2>4, EnterEffect DEF TurnsDoNotMix, At
  <2>5. ASSUME NEW c \in Calls, call' = [call EXCEPT ![c] = Idle]
        PROVE TurnsDoNotMix'
    BY <2>5 DEF TypeOK, TurnsDoNotMix, Idle, At
  <2>6. CASE UNCHANGED call
    BY <2>6 DEF TurnsDoNotMix, At
  <2> QED
    BY <2>1, <2>2, <2>3, <2>4, <2>5, <2>6 DEF Next, vars, history, HandleConnection,
       HandleDisconnect, BroadcastOffline, LeaveIgnored, MembershipChanged, MemberInvited,
     MemberRemoved,
       Resume, JoinForbidden, MembershipFailed, WithoutEffect, JoinRepeated, JoinFinish, LeaveFinish
<1>2. NewIsBlank'
  <2> SUFFICES ASSUME NEW t \in Sockets, phase'[t] = "new" PROVE Blank(t)'
    BY DEF NewIsBlank
  <2>0. phase[t] = "new" => Blank(t)
    BY DEF NewIsBlank
  <2> USE DEF TypeOK, Blank, InFlight
  <2>1. ASSUME NEW s \in Sockets, HandleConnection(s) \/ HandleDisconnect(s)
        PROVE Blank(t)'
    <3>1. t # s /\ Blank(t) /\ UNCHANGED call
      BY <2>1, <2>0 DEF HandleConnection, HandleDisconnect
    <3>2. joined'[t] = {} /\ sweep'[t] = {}
      BY <2>1, <3>1 DEF HandleConnection, HandleDisconnect
    <3>3. \A w \in Workspaces : t \notin rooms'[w]
      BY <2>1, <3>1 DEF HandleConnection, HandleDisconnect
    <3> QED
      BY <3>1, <3>2, <3>3
  <2>2. ASSUME NEW s \in Sockets, NEW w \in Workspaces, BroadcastOffline(s, w)
        PROVE Blank(t)'
    BY <2>2, <2>0 DEF BroadcastOffline
  <2>3. ASSUME NEW s \in Sockets, NEW w \in Workspaces, NEW c \in Calls,
               JoinReceived(s, w, c) \/ LeaveExit(s, w, c)
        PROVE Blank(t)'
    <3>1. t # s /\ Blank(t)
      BY <2>3, <2>0 DEF JoinReceived, LeaveExit, Sent
    <3>2. call'[c].sock = s /\ \A d \in Calls \ {c} : call'[d] = call[d]
      BY <2>3 DEF JoinReceived, LeaveExit
    <3>3. \A w2 \in Workspaces : t \notin rooms'[w2]
      BY <2>3, <3>1 DEF JoinReceived, LeaveExit
    <3>4. joined'[t] = {} /\ sweep'[t] = {}
      BY <2>3, <3>1 DEF JoinReceived, LeaveExit
    <3> QED
      BY <3>1, <3>2, <3>3, <3>4
  <2>4. ASSUME NEW answered \in SUBSET Calls, MembershipAnswered(answered)
        PROVE Blank(t)'
    <3>1. Blank(t)
      BY <2>4, <2>0 DEF MembershipAnswered
    <3>2. ASSUME NEW c \in Calls PROVE call'[c] # Idle => call'[c].sock # t
      <4> HIDE DEF TypeOK
      <4>1. call[c] \in Busy => call[c] # Idle
        BY DEF Busy, Idle
      <4> QED
        BY <2>4, <3>1, <4>1, AnsweredEffect
    <3> QED
      BY <2>4, <3>1, <3>2 DEF MembershipAnswered
  <2>5. ASSUME NEW c \in Calls, JoinEnter(c) PROVE Blank(t)'
    <3>1. Blank(t)
      BY <2>5, <2>0 DEF JoinEnter
    <3>2. /\ call[c] # Idle /\ call'[c].sock = call[c].sock
          /\ call[c].sock # t
          /\ \A d \in Calls \ {c} : call'[d] = call[d]
      <4> HIDE DEF TypeOK
      <4>1. call[c] \in Busy => call[c] # Idle
        BY DEF Busy, Idle
      <4> QED
        BY <2>5, <3>1, <4>1, EnterEffect
    <3>3. \A w \in Workspaces : t \notin rooms'[w]
      BY <2>5, <3>1, <3>2 DEF JoinEnter, RoomsAfterJoin
    <3> QED
      BY <2>5, <3>1, <3>2, <3>3 DEF JoinEnter
  <2>6. ASSUME NEW c \in Calls,
               JoinForbidden(c) \/ MembershipFailed(c) \/ JoinRepeated(c) \/ JoinFinish(c) \/ LeaveFinish(c)
        PROVE Blank(t)'
    <3>1. Blank(t)
      BY <2>6, <2>0 DEF JoinForbidden, MembershipFailed, WithoutEffect, JoinRepeated, JoinFinish, LeaveFinish
    <3>2. call[c] # Idle /\ call' = [call EXCEPT ![c] = Idle]
      BY <2>6 DEF JoinForbidden, MembershipFailed, WithoutEffect, JoinRepeated, JoinFinish, LeaveFinish, At, Idle
    <3>3. joined'[t] = {}
      BY <2>6, <3>1, <3>2 DEF JoinForbidden, MembershipFailed, WithoutEffect, JoinRepeated, JoinFinish,
         LeaveFinish, TrackJoin, TrackLeave
    <3> QED
      BY <2>6, <3>1, <3>2, <3>3 DEF JoinForbidden, MembershipFailed, WithoutEffect, JoinRepeated, JoinFinish,
         LeaveFinish
  <2>7. ASSUME NEW s \in Sockets, NEW w \in Workspaces, LeaveIgnored(s, w)
        PROVE Blank(t)'
    BY <2>7, <2>0 DEF LeaveIgnored
  <2>8. ASSUME NEW u \in Users, NEW w \in Workspaces, MembershipChanged(u, w)
        PROVE Blank(t)'
    BY <2>8, <2>0 DEF MembershipChanged, MemberInvited,
     MemberRemoved
  <2>9. CASE UNCHANGED vars
    BY <2>9, <2>0 DEF vars, history, history
  <2> QED
    BY <2>1, <2>2, <2>3, <2>4, <2>5, <2>6, <2>7, <2>8, <2>9 DEF Next, Resume
<1>3. RoomMatchesTracking'
  <2> SUFFICES ASSUME NEW t \in Sockets, NEW v \in Workspaces,
                      phase'[t] = "open"
               PROVE  InStep(t, v)'
    BY DEF RoomMatchesTracking
  <2>0. phase[t] = "open" => InStep(t, v)
    BY DEF RoomMatchesTracking
  <2> USE DEF TypeOK, InStep, Pending, At
  <2>1. ASSUME NEW s \in Sockets, HandleConnection(s)
        PROVE InStep(t, v)'
    <3>1. CASE t = s
      <4>1. Blank(s)
        BY <2>1 DEF HandleConnection, NewIsBlank
      <4>2. \A d \in Calls : call[d].at # "idle" => call[d].sock # s
        BY <4>1 DEF Blank, InFlight, Idle
      <4> QED
        BY <2>1, <3>1, <4>1, <4>2 DEF HandleConnection, Blank, At
    <3>2. CASE t # s
      BY <2>1, <3>2, <2>0 DEF HandleConnection
    <3> QED
      BY <3>1, <3>2
  <2>2. ASSUME NEW s \in Sockets, HandleDisconnect(s)
        PROVE InStep(t, v)'
    BY <2>2, <2>0 DEF HandleDisconnect
  <2>3. ASSUME NEW s \in Sockets, NEW w \in Workspaces, NEW c \in Calls,
               JoinReceived(s, w, c)
        PROVE InStep(t, v)'
    <3>1. phase[t] = "open" /\ call[c].at = "idle" /\ call'[c].at = "asked"
      BY <2>3 DEF JoinReceived, Idle
    <3>2. \A d \in Calls \ {c} : call'[d] = call[d]
      BY <2>3 DEF JoinReceived
    <3> QED
      BY <2>3, <3>1, <3>2, <2>0 DEF JoinReceived, At
  <2>4. ASSUME NEW s \in Sockets, NEW w \in Workspaces, NEW c \in Calls,
               LeaveExit(s, w, c)
        PROVE InStep(t, v)'
    <3>1. phase[t] = "open" /\ call[c].at = "idle" /\ call'[c].at = "leaving"
          /\ call'[c].sock = s /\ call'[c].ws = w
      BY <2>4 DEF LeaveExit, Idle
    <3>2. \A d \in Calls \ {c} : call'[d] = call[d]
      BY <2>4 DEF LeaveExit
    <3>3. \A d \in Calls : call[d].at # "entering"
      BY <2>4 DEF LeaveExit, PacketTurn, At
    <3>4. joined' = joined /\ rooms' = [rooms EXCEPT ![w] = @ \ {s}]
      BY <2>4 DEF LeaveExit
    <3>5. CASE t = s /\ v = w
      BY <3>1, <3>2, <3>3, <3>4, <3>5 DEF At
    <3>6. CASE ~(t = s /\ v = w)
      <4>1. t \in rooms'[v] <=> t \in rooms[v]
        BY <3>4, <3>6
      <4>2. Pending("leaving", t, v)' <=> Pending("leaving", t, v)
        BY <3>1, <3>2, <3>6 DEF At
      <4> QED
        BY <3>1, <3>2, <3>3, <3>4, <4>1, <4>2, <2>0 DEF At
    <3> QED
      BY <3>5, <3>6
  <2>5. ASSUME NEW answered \in SUBSET Calls, MembershipAnswered(answered)
        PROVE InStep(t, v)'
    <3>1. \A d \in Calls : call'[d] = call[d]
            \/ (call[d].at = "asked" /\ call'[d].at \in {"member", "stranger"})
      BY <2>5, AnsweredEffect
    <3> QED
      BY <2>5, <3>1, <2>0 DEF MembershipAnswered, At
  <2>6. ASSUME NEW c \in Calls, JoinForbidden(c) \/ MembershipFailed(c) \/ JoinRepeated(c)
        PROVE InStep(t, v)'
    <3>1. /\ call[c].at \in {"asked", "stranger", "member"} /\ call'[c].at = "idle"
          /\ \A d \in Calls \ {c} : call'[d] = call[d]
      BY <2>6 DEF JoinForbidden, MembershipFailed, WithoutEffect, JoinRepeated, Idle
    <3>2. UNCHANGED <<phase, rooms, joined>>
      BY <2>6 DEF JoinForbidden, MembershipFailed, WithoutEffect, JoinRepeated
    <3> QED
      BY <3>1, <3>2, <2>0
  <2>7. ASSUME NEW c \in Calls, JoinEnter(c) PROVE InStep(t, v)'
    <3> DEFINE s == call[c].sock
               w == call[c].ws
    <3>1. /\ call[c] \in Busy
          /\ call[c].at = "member" /\ call'[c].at = "entering"
          /\ call'[c].sock = s /\ call'[c].ws = w
          /\ \A d \in Calls \ {c} : call'[d] = call[d]
      BY <2>7, EnterEffect
    <3>2. \A d \in Calls : call[d].at # "leaving"
      BY <3>1 DEF TurnsDoNotMix
    <3>3. phase' = phase /\ joined' = joined /\ rooms' = RoomsAfterJoin(s, w)
      BY <2>7 DEF JoinEnter
    <3>4. CASE t = s /\ v = w
      <4>1. t \in rooms'[v]
        BY <3>1, <3>3, <3>4 DEF RoomsAfterJoin, Busy
      <4> QED
        BY <3>1, <3>2, <3>3, <3>4, <4>1
    <3>5. CASE ~(t = s /\ v = w)
      <4>1. t \in rooms'[v] <=> t \in rooms[v]
        BY <3>1, <3>3, <3>5 DEF RoomsAfterJoin, Busy
      <4>2. Pending("entering", t, v)' <=> Pending("entering", t, v)
        BY <3>1, <3>5
      <4> QED
        BY <3>1, <3>2, <3>3, <4>1, <4>2, <2>0
    <3> QED
      BY <3>4, <3>5
  <2>8. ASSUME NEW c \in Calls, JoinFinish(c) PROVE InStep(t, v)'
    <3> DEFINE s == call[c].sock
               w == call[c].ws
    <3>1. /\ phase' = phase /\ rooms' = rooms
          /\ call[c].at = "entering" /\ call'[c].at = "idle"
          /\ \A d \in Calls \ {c} : call'[d] = call[d]
      BY <2>8 DEF JoinFinish, Idle
    <3>2. \A d \in Calls : call[d].at # "leaving"
      BY <3>1 DEF TurnsDoNotMix
    <3>3. call[c] \in Busy
      BY <3>1 DEF Idle
    <3>4. CASE t = s /\ v = w
      <4>1. v \in joined'[t]
        BY <2>8, <3>3, <3>4 DEF JoinFinish, TrackJoin, Busy
      <4>2. t \in rooms[v]
        BY <2>0, <3>1, <3>4
      <4> QED
        BY <3>1, <3>2, <4>1, <4>2
    <3>5. CASE ~(t = s /\ v = w)
      <4>1. v \in joined'[t] <=> v \in joined[t]
        BY <2>8, <3>3, <3>5 DEF JoinFinish, TrackJoin, Busy
      <4>2. Pending("entering", t, v)' <=> Pending("entering", t, v)
        BY <3>1, <3>5
      <4> QED
        BY <3>1, <3>2, <4>1, <4>2, <2>0
    <3> QED
      BY <3>4, <3>5
  <2>9. ASSUME NEW c \in Calls, LeaveFinish(c) PROVE InStep(t, v)'
    <3> DEFINE s == call[c].sock
               w == call[c].ws
    <3>1. /\ phase' = phase /\ rooms' = rooms
          /\ call[c].at = "leaving" /\ call'[c].at = "idle"
          /\ \A d \in Calls \ {c} : call'[d] = call[d]
      BY <2>9 DEF LeaveFinish, Idle
    <3>2. \A d \in Calls : call[d].at # "entering"
      BY <3>1 DEF TurnsDoNotMix
    <3>3. call[c] \in Busy
      BY <3>1 DEF Idle
    <3>4. CASE t = s /\ v = w
      <4>1. v \notin joined'[t]
        BY <2>9, <3>3, <3>4 DEF LeaveFinish, TrackLeave, Busy
      <4>2. t \notin rooms[v]
        BY <2>0, <3>1, <3>4
      <4> QED
        BY <3>1, <3>2, <4>1, <4>2
    <3>5. CASE ~(t = s /\ v = w)
      <4>1. v \in joined'[t] <=> v \in joined[t]
        BY <2>9, <3>3, <3>5 DEF LeaveFinish, TrackLeave, Busy
      <4>2. Pending("leaving", t, v)' <=> Pending("leaving", t, v)
        BY <3>1, <3>5
      <4> QED
        BY <3>1, <3>2, <4>1, <4>2, <2>0
    <3> QED
      BY <3>4, <3>5
  <2>10. ASSUME NEW s \in Sockets, NEW w \in Workspaces,
                BroadcastOffline(s, w) \/ LeaveIgnored(s, w)
         PROVE InStep(t, v)'
    BY <2>10, <2>0 DEF BroadcastOffline, LeaveIgnored
  <2>11. ASSUME NEW u \in Users, NEW w \in Workspaces, MembershipChanged(u, w)
        PROVE InStep(t, v)'
    BY <2>11, <2>0 DEF MembershipChanged, MemberInvited,
     MemberRemoved
  <2>12. CASE UNCHANGED vars
    BY <2>12, <2>0 DEF vars, history, history
  <2> QED
    BY <2>1, <2>2, <2>3, <2>4, <2>5, <2>6, <2>7, <2>8, <2>9, <2>10, <2>11,
       <2>12 DEF Next, Resume
<1> QED
  BY <1>0, <1>1, <1>2, <1>3

\* However many joins and leaves of one socket are in progress at once, the
\* room of socket.io and joinedWorkspaces agree on every open socket, up to the
\* handler that is between the two updates.
THEOREM RoomsAreTracked == Spec => []RoomMatchesTracking
<1>1. Init => RoomInv
  BY PresenceConstants DEF Init, RoomInv, TypeOK, TurnsDoNotMix, NewIsBlank,
     Blank, InFlight, RoomMatchesTracking, At, Idle
<1>2. RoomInv => RoomMatchesTracking
  BY DEF RoomInv
<1> QED
  BY <1>1, <1>2, RoomInvStep, PTL DEF Spec

(***************************************************************************)
(* What the clients were told is what the server counts.                   *)
(***************************************************************************)

LEMMA EmitIsFresh ==
  ASSUME TypeOK, NEW v \in Workspaces, NEW w \in Workspaces, NEW t \in rooms[w],
         EmitPresence(v), rooms' = rooms,
         OnlineIn(presence[w]) = seen[t][w] \/ v = w,
         v # w => presence'[w] = presence[w]
  PROVE  seen'[t][w] = OnlineIn(presence'[w])
<1> t \in Sockets
  BY DEF TypeOK
<1>1. CASE v = w
  BY <1>1 DEF EmitPresence, TypeOK
<1>2. CASE v # w
  BY <1>2 DEF EmitPresence, TypeOK
<1> QED
  BY <1>1, <1>2

LEMMA RoomViewStep == TypeOK /\ RoomViewFresh /\ [Next]_vars => RoomViewFresh'
<1> SUFFICES ASSUME TypeOK, RoomViewFresh, [Next]_vars,
                    NEW w \in Workspaces, NEW t \in rooms'[w], w \in joined'[t]
             PROVE  seen'[t][w] = OnlineIn(presence'[w])
  BY DEF RoomViewFresh, OnlineUsers
<1>0. t \in rooms[w] /\ w \in joined[t] => seen[t][w] = OnlineIn(presence[w])
  BY DEF RoomViewFresh, OnlineUsers
<1>1. ASSUME NEW s \in Sockets, HandleConnection(s)
      PROVE seen'[t][w] = OnlineIn(presence'[w])
  BY <1>0, <1>1 DEF HandleConnection
<1>2. ASSUME NEW s \in Sockets, HandleDisconnect(s)
      PROVE seen'[t][w] = OnlineIn(presence'[w])
  <2>1. t \in rooms[w] /\ t # s /\ t \in Sockets
    BY <1>2 DEF HandleDisconnect, TypeOK
  <2>2. w \in joined[t]
    BY <1>2, <2>1 DEF HandleDisconnect, TypeOK
  <2> QED
    BY <1>0, <1>2, <2>1, <2>2 DEF HandleDisconnect
<1>3. ASSUME NEW s \in Sockets, NEW v \in Workspaces, BroadcastOffline(s, v)
      PROVE seen'[t][w] = OnlineIn(presence'[w])
  <2>1. t \in rooms[w] /\ w \in joined[t] /\ rooms' = rooms /\ EmitPresence(v)
    BY <1>3 DEF BroadcastOffline
  <2>2. v # w => presence'[w] = presence[w]
    BY <1>3 DEF BroadcastOffline, RemovePresence, TypeOK
  <2> QED
    BY <1>0, <2>1, <2>2, EmitIsFresh
<1>4. ASSUME NEW s \in Sockets, NEW v \in Workspaces, LeaveIgnored(s, v)
      PROVE seen'[t][w] = OnlineIn(presence'[w])
  BY <1>0, <1>4 DEF LeaveIgnored
<1>5. ASSUME NEW s \in Sockets, NEW v \in Workspaces, NEW c \in Calls,
             JoinReceived(s, v, c)
      PROVE seen'[t][w] = OnlineIn(presence'[w])
  BY <1>0, <1>5 DEF JoinReceived
<1>6. ASSUME NEW s \in Sockets, NEW v \in Workspaces, NEW c \in Calls,
             LeaveExit(s, v, c)
      PROVE seen'[t][w] = OnlineIn(presence'[w])
  <2>1. t \in rooms[w]
    BY <1>6 DEF LeaveExit, TypeOK
  <2> QED
    BY <1>0, <1>6, <2>1 DEF LeaveExit
<1>7. ASSUME NEW answered \in SUBSET Calls, MembershipAnswered(answered)
      PROVE seen'[t][w] = OnlineIn(presence'[w])
  BY <1>0, <1>7 DEF MembershipAnswered
<1>8. ASSUME NEW c \in Calls, JoinForbidden(c) \/ MembershipFailed(c) \/ JoinRepeated(c)
      PROVE seen'[t][w] = OnlineIn(presence'[w])
  BY <1>0, <1>8 DEF JoinForbidden, MembershipFailed, WithoutEffect, JoinRepeated
<1>9. ASSUME NEW c \in Calls, JoinEnter(c)
      PROVE seen'[t][w] = OnlineIn(presence'[w])
  <2> DEFINE s == call[c].sock
             v == call[c].ws
  <2>1. v \notin joined[s] /\ joined' = joined /\ rooms' = RoomsAfterJoin(s, v)
    BY <1>9 DEF JoinEnter, AlreadyJoined
  <2>2. t \in rooms[w]
    BY <2>1 DEF RoomsAfterJoin, TypeOK
  <2> QED
    BY <1>0, <1>9, <2>1, <2>2 DEF JoinEnter
<1>10. ASSUME NEW c \in Calls, JoinFinish(c)
       PROVE seen'[t][w] = OnlineIn(presence'[w])
  <2> DEFINE s == call[c].sock
             v == call[c].ws
  <2>1. call[c] \in Busy /\ s \in Sockets /\ v \in Workspaces
    BY <1>10 DEF JoinFinish, TypeOK, Busy, Idle, At
  <2>2. t \in rooms[w] /\ rooms' = rooms /\ EmitPresence(v)
    BY <1>10 DEF JoinFinish
  <2>3. v # w => presence'[w] = presence[w]
    BY <1>10, <2>1 DEF JoinFinish, AddPresence, TypeOK
  <2>4. v # w => w \in joined[t]
    BY <1>10, <2>1, <2>2 DEF JoinFinish, TrackJoin, TypeOK
  <2> QED
    BY <1>0, <2>1, <2>2, <2>3, <2>4, EmitIsFresh
<1>11. ASSUME NEW c \in Calls, LeaveFinish(c)
       PROVE seen'[t][w] = OnlineIn(presence'[w])
  <2> DEFINE s == call[c].sock
             v == call[c].ws
  <2>1. call[c] \in Busy /\ s \in Sockets /\ v \in Workspaces
    BY <1>11 DEF LeaveFinish, TypeOK, Busy, Idle, At
  <2>2. t \in rooms[w] /\ rooms' = rooms /\ EmitPresence(v)
    BY <1>11 DEF LeaveFinish
  <2>3. v # w => presence'[w] = presence[w]
    BY <1>11, <2>1 DEF LeaveFinish, RemovePresence, TypeOK
  <2>4. w \in joined[t]
    BY <1>11, <2>1, <2>2 DEF LeaveFinish, TrackLeave, TypeOK
  <2> QED
    BY <1>0, <2>1, <2>2, <2>3, <2>4, EmitIsFresh
<1>12. ASSUME NEW u \in Users, NEW v \in Workspaces, MembershipChanged(u, v)
       PROVE seen'[t][w] = OnlineIn(presence'[w])
  BY <1>0, <1>12 DEF MembershipChanged, MemberInvited,
     MemberRemoved
<1>13. CASE UNCHANGED vars
  BY <1>0, <1>13 DEF vars, history, history
<1> QED
  BY <1>1, <1>2, <1>3, <1>4, <1>5, <1>6, <1>7, <1>8, <1>9, <1>10, <1>11,
     <1>12, <1>13 DEF Next, Resume

\* A tracked socket in a room has always been told, by the last
\* presence.updated sent to it, exactly the users that have a count.
THEOREM RoomViewsAreFresh == Spec => []RoomViewFresh
<1>1. Init => RoomViewFresh
  BY DEF Init, RoomViewFresh
<1> QED
  BY <1>1, RoomViewStep, TypeCorrect, PTL DEF Spec

(***************************************************************************)
(* Counting sockets.                                                       *)
(***************************************************************************)

LEMMA SocketSetsAreFinite ==
  ASSUME NEW S \in SUBSET Sockets
  PROVE  /\ IsFiniteSet(S)
         /\ Cardinality(S) \in Nat
         /\ \A s \in S : Cardinality(S \ {s}) = Cardinality(S) - 1
         /\ \A s \in Sockets \ S : Cardinality(S \cup {s}) = Cardinality(S) + 1
         /\ S # {} => Cardinality(S) > 0
<1>1. IsFiniteSet(S) /\ Cardinality(S) \in Nat
  BY PresenceConstants, FS_Subset, FS_CardinalityType
<1>2. S # {} => Cardinality(S) # 0
  BY <1>1, FS_EmptySet
<1>3. \A s \in S : Cardinality(S \ {s}) = Cardinality(S) - 1
  BY <1>1, FS_RemoveElement
<1>4. \A s \in Sockets \ S : Cardinality(S \cup {s}) = Cardinality(S) + 1
  BY <1>1, FS_AddElement
<1> QED
  BY <1>1, <1>2, <1>3, <1>4

LEMMA GapsAgreeStep ==
  ASSUME TypeOK, TurnsDoNotMix, GapsAgree, [Next]_vars
  PROVE  GapsAgree'
<1> SUFFICES ASSUME NEW d \in Calls PROVE EntersAlone(d)' /\ LeavesAlone(d)'
  BY DEF GapsAgree
<1>0. EntersAlone(d) /\ LeavesAlone(d)
  BY DEF GapsAgree
<1>a. \A c \in Calls : call[c] \in Busy \/ call[c] = Idle
  BY DEF TypeOK
\* No handler comes into a gap, and what is tracked stays.
<1>1. ASSUME UNCHANGED <<joined, joinedTwice, leftTwice>>,
             \A c \in Calls : call'[c] = call[c] \/ call'[c].at \notin {"entering", "leaving"}
      PROVE  EntersAlone(d)' /\ LeavesAlone(d)'
  BY <1>0, <1>1 DEF EntersAlone, LeavesAlone, Meets, At
<1>2. ASSUME NEW s \in Sockets, HandleDisconnect(s)
      PROVE  EntersAlone(d)' /\ LeavesAlone(d)'
  BY <1>2 DEF HandleDisconnect, Drained, At, EntersAlone, LeavesAlone
<1>3. ASSUME NEW s \in Sockets, NEW w \in Workspaces, NEW c \in Calls,
             JoinReceived(s, w, c)
      PROVE  EntersAlone(d)' /\ LeavesAlone(d)'
  BY <1>1, <1>3 DEF JoinReceived, TypeOK
<1>4. ASSUME NEW answered \in SUBSET Calls, MembershipAnswered(answered)
      PROVE  EntersAlone(d)' /\ LeavesAlone(d)'
  <2>1. UNCHANGED <<joined, joinedTwice, leftTwice>>
    BY <1>4 DEF MembershipAnswered, history
  <2> QED
    BY <1>1, <1>4, <2>1, AnsweredEffect
<1>5. ASSUME NEW c \in Calls, JoinForbidden(c) \/ MembershipFailed(c) \/ JoinRepeated(c)
      PROVE  EntersAlone(d)' /\ LeavesAlone(d)'
  BY <1>1, <1>5 DEF JoinForbidden, MembershipFailed, WithoutEffect, JoinRepeated, TypeOK,
     Idle, history
<1>6. ASSUME NEW c \in Calls, JoinEnter(c)
      PROVE  EntersAlone(d)' /\ LeavesAlone(d)'
  <2>1. /\ call[c] \in Busy /\ call[c].at = "member" /\ call'[c].at = "entering"
        /\ call'[c].sock = call[c].sock /\ call'[c].ws = call[c].ws
        /\ \A e \in Calls \ {c} : call'[e] = call[e]
    BY <1>6, EnterEffect
  <2>2. \A e \in Calls : call'[e].at # "leaving"
    BY <2>1 DEF TurnsDoNotMix, At
  <2>3. /\ joined' = joined /\ call[c].ws \notin joined[call[c].sock]
        /\ joinedTwice \subseteq joinedTwice'
        /\ Meets(c, "entering") => <<call[c].ws, Owner[call[c].sock]>> \in joinedTwice'
    BY <1>6 DEF JoinEnter, AlreadyJoined
  <2>4. EntersAlone(d)'
    <3>1. CASE d = c
      BY <2>1, <2>3, <3>1 DEF EntersAlone, Meets, At
    <3>2. CASE d # c /\ call[d].at = "entering" /\ call[d].sock = call[c].sock
               /\ call[d].ws = call[c].ws
      <4>1. Meets(c, "entering")
        BY <3>2 DEF Meets, At
      <4> QED
        BY <2>1, <2>3, <3>2, <4>1 DEF EntersAlone
    <3>3. CASE d # c /\ ~(call[d].at = "entering" /\ call[d].sock = call[c].sock
                          /\ call[d].ws = call[c].ws)
      BY <1>0, <2>1, <2>3, <3>3 DEF EntersAlone, Meets, At
    <3> QED
      BY <3>1, <3>2, <3>3
  <2> QED
    BY <2>2, <2>4 DEF LeavesAlone, At
<1>7. ASSUME NEW s \in Sockets, NEW w \in Workspaces, NEW c \in Calls,
             LeaveExit(s, w, c)
      PROVE  EntersAlone(d)' /\ LeavesAlone(d)'
  <2>1. /\ call[c] = Idle /\ call'[c].at = "leaving"
        /\ call'[c].sock = s /\ call'[c].ws = w
        /\ \A e \in Calls \ {c} : call'[e] = call[e]
    BY <1>7 DEF LeaveExit, TypeOK
  <2>2. \A e \in Calls : call'[e].at # "entering"
    BY <1>7, <2>1 DEF LeaveExit, PacketTurn, At
  <2>3. /\ joined' = joined /\ w \in joined[s]
        /\ leftTwice \subseteq leftTwice'
        /\ Pending("leaving", s, w) => <<w, Owner[s]>> \in leftTwice'
    BY <1>7 DEF LeaveExit, AlreadyJoined
  <2>4. LeavesAlone(d)'
    <3>1. CASE d = c
      BY <2>1, <2>3, <3>1 DEF LeavesAlone, Meets, At, Pending
    <3>2. CASE d # c /\ call[d].at = "leaving" /\ call[d].sock = s /\ call[d].ws = w
      <4>1. Pending("leaving", s, w)
        BY <3>2 DEF Pending, At
      <4> QED
        BY <2>1, <2>3, <3>2, <4>1 DEF LeavesAlone
    <3>3. CASE d # c /\ ~(call[d].at = "leaving" /\ call[d].sock = s /\ call[d].ws = w)
      BY <1>0, <2>1, <2>3, <3>3 DEF LeavesAlone, Meets, At
    <3> QED
      BY <3>1, <3>2, <3>3
  <2> QED
    BY <2>2, <2>4 DEF EntersAlone, At
<1>8. ASSUME NEW c \in Calls, JoinFinish(c) \/ LeaveFinish(c)
      PROVE  EntersAlone(d)' /\ LeavesAlone(d)'
  <2>1. /\ call'[c] = Idle /\ \A e \in Calls \ {c} : call'[e] = call[e]
        /\ UNCHANGED <<joinedTwice, leftTwice>>
    BY <1>8 DEF JoinFinish, LeaveFinish, TypeOK, history
  <2>2. /\ call[c] \in Busy
        /\ call[c].at \in {"entering", "leaving"}
        /\ JoinFinish(c) => call[c].at = "entering"
        /\ LeaveFinish(c) => call[c].at = "leaving"
    BY <1>8, <1>a DEF JoinFinish, LeaveFinish, At, Idle
  <2>3. \A e \in Calls : call[e].at \in {"entering", "leaving"} => call[e].at = call[c].at
    BY <2>2 DEF TurnsDoNotMix, At
  <2>4. \/ joined' = [joined EXCEPT ![call[c].sock] = @ \cup {call[c].ws}]
        \/ joined' = [joined EXCEPT ![call[c].sock] = @ \ {call[c].ws}]
    BY <1>8 DEF JoinFinish, LeaveFinish, TrackJoin, TrackLeave
  <2>5. CASE d = c
    BY <2>1, <2>5 DEF EntersAlone, LeavesAlone, At, Idle
  <2>6. CASE d # c /\ call[d].at \notin {"entering", "leaving"}
    BY <2>1, <2>6 DEF EntersAlone, LeavesAlone, At
  <2>7. CASE d # c /\ call[d].at \in {"entering", "leaving"}
    <3>1. /\ call'[d] = call[d] /\ call[d].at = call[c].at /\ call[d] \in Busy
      BY <1>a, <2>1, <2>3, <2>7 DEF Idle
    <3>2. \A place : Meets(d, place)' => Meets(d, place) \/ place = "idle"
      BY <2>1, <3>1 DEF Meets, At, Idle
    <3>3. CASE call[d].sock = call[c].sock /\ call[d].ws = call[c].ws
      <4>1. Meets(d, call[d].at)
        BY <2>7, <3>1, <3>3 DEF Meets, At
      <4> QED
        BY <1>0, <2>1, <3>1, <4>1 DEF EntersAlone, LeavesAlone, At
    <3>4. CASE ~(call[d].sock = call[c].sock /\ call[d].ws = call[c].ws)
      <4>1. call[d].ws \in joined'[call[d].sock] <=> call[d].ws \in joined[call[d].sock]
        BY <2>2, <2>4, <3>1, <3>4 DEF TypeOK, Busy
      <4> QED
        BY <1>0, <2>1, <3>1, <3>2, <4>1 DEF EntersAlone, LeavesAlone, At
    <3> QED
      BY <3>3, <3>4
  <2> QED
    BY <2>5, <2>6, <2>7
<1>9. CASE UNCHANGED <<call, joined, joinedTwice, leftTwice>>
  BY <1>1, <1>9
<1> QED
  BY <1>1, <1>2, <1>3, <1>4, <1>5, <1>6, <1>7, <1>8, <1>9 DEF Next, Resume,
     vars, history, HandleConnection, BroadcastOffline, LeaveIgnored, MembershipChanged,
     MemberInvited, MemberRemoved

LEMMA SweepIsLastStep ==
  ASSUME TypeOK, SweepIsLast, [Next]_vars
  PROVE  SweepIsLast'
<1> USE DEF TypeOK, SweepIsLast
<1>1. ASSUME NEW s \in Sockets,
             HandleConnection(s) \/ HandleDisconnect(s)
      PROVE SweepIsLast'
  BY <1>1 DEF HandleConnection, HandleDisconnect
<1>2. ASSUME NEW s \in Sockets, NEW w \in Workspaces, BroadcastOffline(s, w)
      PROVE SweepIsLast'
  BY <1>2 DEF BroadcastOffline
<1>3. CASE UNCHANGED <<phase, sweep>>
  BY <1>3
<1> QED
  BY <1>1, <1>2, <1>3 DEF Next, Resume, vars, history, LeaveIgnored, JoinReceived,
     LeaveExit, MembershipAnswered, JoinForbidden, MembershipFailed, WithoutEffect, JoinRepeated, JoinEnter,
     JoinFinish, LeaveFinish, MembershipChanged, MemberInvited,
     MemberRemoved

LEMMA PresenceCountStep ==
  ASSUME CountInv, [Next]_vars
  PROVE  PresenceCount'
<1> USE DEF CountInv
<1> SUFFICES ASSUME NEW w \in Workspaces, NEW u \in Users
             PROVE  /\ <<w, u>> \notin joinedTwice' => presence'[w][u] <= Expected(w, u)'
                    /\ <<w, u>> \notin leftTwice' => presence'[w][u] >= Expected(w, u)'
  BY DEF PresenceCount
<1> DEFINE H == Holders(w, u)
           S == Sweeping(w, u)
           High == <<w, u>> \in joinedTwice
           Low == <<w, u>> \in leftTwice
           Goal == /\ ~High' => presence'[w][u] <= Cardinality(H') + Cardinality(S')
                   /\ ~Low' => presence'[w][u] >= Cardinality(H') + Cardinality(S')
<1>z. SUFFICES Goal
  BY DEF Expected
<1>a. /\ H \in SUBSET Sockets /\ S \in SUBSET Sockets
      /\ Cardinality(H) \in Nat /\ Cardinality(S) \in Nat
      /\ presence[w][u] \in Nat
      /\ ~High => presence[w][u] <= Cardinality(H) + Cardinality(S)
      /\ ~Low => presence[w][u] >= Cardinality(H) + Cardinality(S)
  BY SocketSetsAreFinite DEF PresenceCount, Expected, Holders, Sweeping, TypeOK
<1>h. (High => High') /\ (Low => Low')
  BY DEF Next, Resume, vars, history, HandleConnection, HandleDisconnect, BroadcastOffline,
     LeaveIgnored, JoinReceived, LeaveExit, MembershipAnswered, MembershipFailed, WithoutEffect,
     JoinForbidden, JoinRepeated, JoinEnter, JoinFinish, LeaveFinish, MembershipChanged,
     MemberInvited, MemberRemoved
<1>b. ASSUME presence'[w][u] = presence[w][u], H' = H, S' = S
      PROVE  Goal
  <2> HIDE DEF H, S, High, Low
  <2> QED
    BY <1>a, <1>b, <1>h
<1>1. ASSUME NEW s \in Sockets, HandleDisconnect(s)
      PROVE Goal
  <2>1. sweep[s] = {} /\ presence' = presence
    BY <1>1 DEF HandleDisconnect, SweepIsLast
  <2>2. /\ joined' = [joined EXCEPT ![s] = {}]
        /\ sweep' = [sweep EXCEPT ![s] = joined[s]]
    BY <1>1 DEF HandleDisconnect
  <2>3. CASE Owner[s] = u /\ w \in joined[s]
    <3>1. s \in H /\ H' = H \ {s}
      BY <2>2, <2>3 DEF Holders, TypeOK
    <3>2. s \notin S /\ S' = S \cup {s}
      BY <2>1, <2>2, <2>3 DEF Sweeping, TypeOK
    <3>3. Cardinality(H') = Cardinality(H) - 1
      BY <1>a, <3>1, SocketSetsAreFinite
    <3>4. Cardinality(S') = Cardinality(S) + 1
      BY <1>a, <3>2, SocketSetsAreFinite
    <3> HIDE DEF H, S, High, Low
    <3> QED
      BY <1>a, <1>h, <2>1, <3>3, <3>4
  <2>4. CASE ~(Owner[s] = u /\ w \in joined[s])
    <3>1. H' = H
      BY <2>2, <2>4 DEF Holders, TypeOK
    <3>2. S' = S
      BY <2>1, <2>2, <2>4 DEF Sweeping, TypeOK
    <3> QED
      BY <1>b, <2>1, <3>1, <3>2
  <2> QED
    BY <2>3, <2>4
<1>2. ASSUME NEW s \in Sockets, NEW v \in Workspaces, BroadcastOffline(s, v)
      PROVE Goal
  <2>1. /\ v \in sweep[s] /\ sweep' = [sweep EXCEPT ![s] = @ \ {v}]
        /\ RemovePresence(v, Owner[s]) /\ joined' = joined
    BY <1>2 DEF BroadcastOffline
  <2>2. H' = H
    BY <2>1 DEF Holders
  <2>3. CASE Owner[s] = u /\ v = w
    <3>1. s \in S /\ S' = S \ {s}
      BY <2>1, <2>3 DEF Sweeping, TypeOK
    <3>2. Cardinality(S') = Cardinality(S) - 1 /\ Cardinality(S) > 0
      BY <1>a, <3>1, SocketSetsAreFinite
    <3>3. presence'[w][u] = IF presence[w][u] > 0 THEN presence[w][u] - 1 ELSE 0
      BY <2>1, <2>3 DEF RemovePresence, TypeOK
    <3> HIDE DEF H, S, High, Low
    <3> QED
      BY <1>a, <1>h, <2>2, <3>2, <3>3
  <2>4. CASE ~(Owner[s] = u /\ v = w)
    <3>1. S' = S
      BY <2>1, <2>4 DEF Sweeping, TypeOK
    <3>2. presence'[w][u] = presence[w][u]
      BY <2>1, <2>4, PresenceConstants DEF RemovePresence, TypeOK
    <3> QED
      BY <1>b, <2>2, <3>1, <3>2
  <2> QED
    BY <2>3, <2>4
<1>3. ASSUME NEW c \in Calls, JoinFinish(c)
      PROVE Goal
  <2> DEFINE s == call[c].sock
             v == call[c].ws
  <2>1. s \in Sockets /\ v \in Workspaces
    BY <1>3 DEF JoinFinish, TypeOK, Busy, Idle, At
  <2>2. <<v, Owner[s]>> \notin joinedTwice => v \notin joined[s]
    BY <1>3 DEF JoinFinish, GapsAgree, EntersAlone
  <2>3. /\ joined' = [joined EXCEPT ![s] = @ \cup {v}]
        /\ AddPresence(v, Owner[s]) /\ sweep' = sweep /\ UNCHANGED history
    BY <1>3 DEF JoinFinish, TrackJoin
  <2>4. S' = S
    BY <2>3 DEF Sweeping
  <2> HIDE DEF s, v
  <2>5. CASE Owner[s] = u /\ v = w
    <3>1. H' = H \cup {s} /\ (~High => s \notin H)
      BY <2>1, <2>2, <2>3, <2>5 DEF Holders, TypeOK
    <3>2. s \notin H => Cardinality(H') = Cardinality(H) + 1
      BY <1>a, <2>1, <3>1, SocketSetsAreFinite
    <3>3. s \in H => H' = H
      BY <3>1
    <3>4. presence'[w][u] = presence[w][u] + 1
      BY <2>3, <2>5 DEF AddPresence, TypeOK
    <3>5. High \/ s \notin H
      BY <3>1
    <3> HIDE DEF H, S, High, Low
    <3>6. CASE s \notin H
      BY <1>a, <1>h, <2>4, <3>2, <3>4, <3>6
    <3>7. CASE High /\ s \in H
      BY <1>a, <1>h, <2>4, <3>3, <3>4, <3>7
    <3> QED
      BY <3>5, <3>6, <3>7
  <2>6. CASE ~(Owner[s] = u /\ v = w)
    <3>1. H' = H
      BY <2>1, <2>3, <2>6 DEF Holders, TypeOK
    <3>2. presence'[w][u] = presence[w][u]
      BY <2>1, <2>3, <2>6, PresenceConstants DEF AddPresence, TypeOK
    <3> QED
      BY <1>b, <2>4, <3>1, <3>2
  <2> QED
    BY <2>5, <2>6
<1>4. ASSUME NEW c \in Calls, LeaveFinish(c)
      PROVE Goal
  <2> DEFINE s == call[c].sock
             v == call[c].ws
  <2>1. s \in Sockets /\ v \in Workspaces
    BY <1>4 DEF LeaveFinish, TypeOK, Busy, Idle, At
  <2>2. <<v, Owner[s]>> \notin leftTwice => v \in joined[s]
    BY <1>4 DEF LeaveFinish, GapsAgree, LeavesAlone
  <2>3. /\ joined' = [joined EXCEPT ![s] = @ \ {v}]
        /\ RemovePresence(v, Owner[s]) /\ sweep' = sweep
    BY <1>4 DEF LeaveFinish, TrackLeave
  <2>4. S' = S
    BY <2>3 DEF Sweeping
  <2> HIDE DEF s, v
  <2>5. CASE Owner[s] = u /\ v = w
    <3>1. H' = H \ {s} /\ (~Low => s \in H)
      BY <2>1, <2>2, <2>3, <2>5 DEF Holders, TypeOK
    <3>2. s \in H => Cardinality(H') = Cardinality(H) - 1 /\ Cardinality(H) > 0
      BY <1>a, <2>1, <3>1, SocketSetsAreFinite
    <3>3. s \notin H => H' = H
      BY <3>1
    <3>4. presence'[w][u] = IF presence[w][u] > 0 THEN presence[w][u] - 1 ELSE 0
      BY <2>3, <2>5 DEF RemovePresence, TypeOK
    <3>5. Low \/ s \in H
      BY <3>1
    <3> HIDE DEF H, S, High, Low
    <3>6. CASE s \in H
      BY <1>a, <1>h, <2>4, <3>2, <3>4, <3>6
    <3>7. CASE Low /\ s \notin H
      BY <1>a, <1>h, <2>4, <3>3, <3>4, <3>7
    <3> QED
      BY <3>5, <3>6, <3>7
  <2>6. CASE ~(Owner[s] = u /\ v = w)
    <3>1. H' = H
      BY <2>1, <2>3, <2>6 DEF Holders, TypeOK
    <3>2. presence'[w][u] = presence[w][u]
      BY <2>1, <2>3, <2>6, PresenceConstants DEF RemovePresence, TypeOK
    <3> QED
      BY <1>b, <2>4, <3>1, <3>2
  <2> QED
    BY <2>5, <2>6
<1>5. CASE UNCHANGED <<presence, joined, sweep>>
  BY <1>b, <1>5 DEF Holders, Sweeping
<1> QED
  BY <1>1, <1>2, <1>3, <1>4, <1>5 DEF Next, Resume, vars, HandleConnection,
     LeaveIgnored, JoinReceived, LeaveExit, MembershipAnswered, JoinForbidden,
     MembershipFailed, WithoutEffect, JoinRepeated, JoinEnter, MembershipChanged,
     MemberInvited, MemberRemoved

LEMMA TurnsStep == RoomInv /\ [Next]_vars => TurnsDoNotMix'
BY RoomInvStep DEF RoomInv

LEMMA CountAlways == Spec => [](RoomInv /\ CountInv)
<1>1. Init => RoomInv /\ CountInv
  <2> SUFFICES ASSUME Init PROVE RoomInv /\ CountInv
    OBVIOUS
  <2>1. TypeOK /\ RoomInv
    BY PresenceConstants DEF Init, RoomInv, TypeOK, TurnsDoNotMix, NewIsBlank,
       Blank, InFlight, RoomMatchesTracking, At, Idle
  <2>2. TurnsDoNotMix /\ GapsAgree /\ SweepIsLast
    BY DEF Init, TurnsDoNotMix, GapsAgree, EntersAlone, LeavesAlone, SweepIsLast, Idle, At
  <2>3. \A w \in Workspaces, u \in Users : Holders(w, u) = {} /\ Sweeping(w, u) = {}
    BY DEF Init, Holders, Sweeping
  <2>4. Cardinality({}) = 0
    BY FS_EmptySet
  <2>5. \A w \in Workspaces, u \in Users : presence[w][u] = 0
    BY DEF Init
  <2>6. PresenceCount
    BY <2>3, <2>4, <2>5 DEF PresenceCount, Expected
  <2> QED
    BY <2>1, <2>2, <2>6 DEF CountInv
<1>2. RoomInv /\ CountInv /\ [Next]_vars => RoomInv' /\ CountInv'
  <2> SUFFICES ASSUME RoomInv, CountInv, [Next]_vars PROVE RoomInv' /\ CountInv'
    OBVIOUS
  <2>1. TypeOK' /\ GapsAgree' /\ SweepIsLast'
    BY TypeOKStep, GapsAgreeStep, SweepIsLastStep DEF CountInv
  <2> QED
    BY <2>1, PresenceCountStep, TurnsStep, RoomInvStep DEF CountInv
<1> QED
  BY <1>1, <1>2, PTL DEF Spec

\* However many commands its sockets have sent without waiting, a user is counted
\* more often than it has tracked sockets only after two joins of one of them were
\* past the check at once, and less often only after two leaves were.
THEOREM PresenceIsCounted == Spec => []PresenceCount
<1>1. CountInv => PresenceCount
  BY DEF CountInv
<1> QED
  BY <1>1, CountAlways, PTL

LEMMA CountedIsOnline == TypeOK /\ PresenceCount => NoFalseOffline
<1> SUFFICES ASSUME TypeOK, PresenceCount, NEW w \in Workspaces,
                    NEW s \in rooms[w], w \in joined[s], <<w, Owner[s]>> \notin leftTwice
             PROVE  Owner[s] \in OnlineUsers(w)
  BY DEF NoFalseOffline
<1> DEFINE u == Owner[s]
           H == Holders(w, u)
           S == Sweeping(w, u)
<1>1. s \in Sockets /\ u \in Users
  BY PresenceConstants DEF TypeOK
<1>2. H \in SUBSET Sockets /\ S \in SUBSET Sockets /\ H # {}
  BY <1>1 DEF Holders, Sweeping
<1>3. presence[w][u] >= Cardinality(H) + Cardinality(S) /\ presence[w][u] \in Nat
  BY <1>1 DEF PresenceCount, Expected, TypeOK
<1> HIDE DEF u, H, S
<1>4. Cardinality(H) \in Nat /\ Cardinality(S) \in Nat /\ Cardinality(H) > 0
  BY <1>2, SocketSetsAreFinite
<1>5. presence[w][u] > 0
  BY <1>3, <1>4
<1> QED
  BY <1>1, <1>5 DEF OnlineUsers, OnlineIn, u

\* A user with a tracked socket in the room is shown online, whatever its other
\* devices do and however their commands overlap, short of two leaves in one gap.
THEOREM NobodyIsFalselyOffline == Spec => []NoFalseOffline
<1>1. CountInv => TypeOK /\ PresenceCount
  BY DEF CountInv
<1> QED
  BY <1>1, CountAlways, CountedIsOnline, PTL

(***************************************************************************)
(* Commands in order.                                                      *)
(***************************************************************************)

\* Of the commands that crossed no other one at most one is in progress, and where
\* there is none the socket is where it wants to be.
HeldOrUnderWay(s, w) ==
  /\ \A c, d \in Calls : About(c, s, w) /\ About(d, s, w) => c = d
  /\ \A c \in Calls : About(c, s, w) => (<<s, w>> \in wants <=> call[c].at # "leaving")
  /\ UnderWay(s, w) \/ (w \in joined[s] <=> <<s, w>> \in wants)

CommandsStand ==
  \A s \in Sockets, w \in Workspaces :
    (phase[s] # "closed" /\ <<s, w>> \notin crossed) => HeldOrUnderWay(s, w)

LEMMA CommandsStandStep ==
  ASSUME TypeOK, CommandsStand, [Next]_vars
  PROVE  CommandsStand'
<1> SUFFICES ASSUME NEW s \in Sockets, NEW w \in Workspaces, phase'[s] # "closed",
                    <<s, w>> \notin crossed'
             PROVE  HeldOrUnderWay(s, w)'
  BY DEF CommandsStand
<1>0. ASSUME phase[s] # "closed", <<s, w>> \notin crossed PROVE HeldOrUnderWay(s, w)
  BY <1>0 DEF CommandsStand
<1>1. ASSUME NEW t \in Sockets, HandleConnection(t) \/ HandleDisconnect(t)
      PROVE  HeldOrUnderWay(s, w)'
  <2>1. /\ phase[s] # "closed" /\ joined'[s] = joined[s] /\ call' = call
        /\ wants' = wants /\ crossed' = crossed
    BY <1>1 DEF HandleConnection, HandleDisconnect, TypeOK, history
  <2> QED BY <1>0, <2>1 DEF HeldOrUnderWay, About, UnderWay
<1>2. ASSUME UNCHANGED <<phase, joined, wants, crossed>>,
             \A c \in Calls : \/ call'[c] = call[c]
                              \/ /\ call[c] \in Busy /\ call'[c] \in Busy
                                 /\ call[c].at # "leaving" /\ call'[c].at # "leaving"
                                 /\ call'[c].sock = call[c].sock /\ call'[c].ws = call[c].ws
      PROVE  HeldOrUnderWay(s, w)'
  <2>1. HeldOrUnderWay(s, w)
    BY <1>0, <1>2
  <2>2. \A c \in Calls : /\ About(c, s, w)' <=> About(c, s, w)
                         /\ call'[c].at = "leaving" <=> call[c].at = "leaving"
    BY <1>2 DEF About, Busy, Idle
  <2> QED BY <1>2, <2>1, <2>2 DEF HeldOrUnderWay, UnderWay
<1>3. ASSUME NEW t \in Sockets, NEW v \in Workspaces, LeaveIgnored(t, v)
      PROVE  HeldOrUnderWay(s, w)'
  <2>1. /\ UNCHANGED <<phase, joined, call>> /\ v \notin joined[t]
        /\ wants' = wants \ {<<t, v>>}
        /\ crossed' = IF UnderWay(t, v) THEN crossed \cup {<<t, v>>} ELSE crossed \ {<<t, v>>}
    BY <1>3 DEF LeaveIgnored, AlreadyJoined, Sent
  <2>2. CASE s = t /\ w = v
    <3>1. ~UnderWay(s, w)
      BY <2>1, <2>2
    <3> QED BY <2>1, <2>2, <3>1 DEF HeldOrUnderWay, UnderWay, About
  <2>3. CASE s # t \/ w # v
    <3>1. HeldOrUnderWay(s, w)
      BY <1>0, <2>1, <2>3
    <3> QED BY <2>1, <2>3, <3>1 DEF HeldOrUnderWay, UnderWay, About
  <2> QED BY <2>2, <2>3
<1>4. ASSUME NEW t \in Sockets, NEW v \in Workspaces, NEW c \in Calls,
             JoinReceived(t, v, c) \/ LeaveExit(t, v, c)
      PROVE  HeldOrUnderWay(s, w)'
  <2>1. /\ UNCHANGED <<phase, joined>>
        /\ crossed' = IF UnderWay(t, v) THEN crossed \cup {<<t, v>>} ELSE crossed \ {<<t, v>>}
    BY <1>4 DEF JoinReceived, LeaveExit, Sent
  <2>2. /\ call[c] = Idle /\ call'[c] # Idle /\ call'[c].sock = t /\ call'[c].ws = v
        /\ \A d \in Calls \ {c} : call'[d] = call[d]
        /\ wants' = IF call'[c].at = "leaving" THEN wants \ {<<t, v>>} ELSE wants \cup {<<t, v>>}
    BY <1>4 DEF JoinReceived, LeaveExit, TypeOK, Idle
  <2>4. CASE s = t /\ w = v
    <3>1. \A d \in Calls : About(d, s, w)' <=> d = c
      BY <2>1, <2>2, <2>4 DEF About, UnderWay
    <3> QED BY <2>2, <2>4, <3>1 DEF HeldOrUnderWay, UnderWay
  <2>5. CASE s # t \/ w # v
    <3>0. HeldOrUnderWay(s, w)
      BY <1>0, <2>1, <2>5
    <3>1. \A d \in Calls : About(d, s, w) <=> About(d, s, w)'
      BY <2>2, <2>5 DEF About
    <3>2. \A d \in Calls : About(d, s, w) => call'[d] = call[d]
      BY <2>2 DEF About
    <3>3. <<s, w>> \in wants' <=> <<s, w>> \in wants
      BY <2>2, <2>5
    <3> QED BY <2>1, <3>0, <3>1, <3>2, <3>3 DEF HeldOrUnderWay, UnderWay
  <2> QED BY <2>4, <2>5
<1>5. ASSUME NEW c \in Calls,
             \/ JoinForbidden(c) \/ MembershipFailed(c) \/ JoinRepeated(c)
             \/ JoinFinish(c) \/ LeaveFinish(c)
      PROVE  HeldOrUnderWay(s, w)'
  <2>1. HeldOrUnderWay(s, w)
    BY <1>0, <1>5 DEF JoinForbidden, MembershipFailed, WithoutEffect, JoinRepeated, JoinFinish,
       LeaveFinish, history
  <2>2. call[c] \in Busy /\ call[c] # Idle /\ call'[c] = Idle
    BY <1>5 DEF JoinForbidden, MembershipFailed, WithoutEffect, JoinRepeated, JoinFinish,
       LeaveFinish, TypeOK, At, Idle, Busy
  <2>3. \A d \in Calls \ {c} : call'[d] = call[d]
    BY <1>5 DEF JoinForbidden, MembershipFailed, WithoutEffect, JoinRepeated, JoinFinish,
       LeaveFinish, TypeOK
  <2> DEFINE t == call[c].sock
             v == call[c].ws
  <2>4. t \in Sockets /\ v \in Workspaces /\ About(c, t, v)
    BY <2>2 DEF Busy, About
  <2>6. CASE s = t /\ w = v
    <3>1. \A d \in Calls : ~About(d, s, w)'
      BY <2>1, <2>2, <2>3, <2>4, <2>6 DEF About, HeldOrUnderWay
    <3>2. <<s, w>> \in wants <=> call[c].at # "leaving"
      BY <2>1, <2>2, <2>6 DEF HeldOrUnderWay, About
    <3>3. w \in joined'[s] <=> <<s, w>> \in wants'
      <4>1. CASE JoinForbidden(c) \/ MembershipFailed(c)
        BY <2>4, <2>6, <3>2, <4>1
           DEF JoinForbidden, MembershipFailed, WithoutEffect, AlreadyJoined, At
      <4>2. CASE JoinRepeated(c)
        BY <2>4, <2>6, <3>2, <4>2 DEF JoinRepeated, AlreadyJoined, At, history
      <4>3. CASE JoinFinish(c)
        BY <2>4, <2>6, <3>2, <4>3 DEF JoinFinish, TrackJoin, At, TypeOK, history
      <4>4. CASE LeaveFinish(c)
        BY <2>4, <2>6, <3>2, <4>4 DEF LeaveFinish, TrackLeave, At, TypeOK, history
      <4> QED BY <1>5, <4>1, <4>2, <4>3, <4>4
    <3> QED BY <3>1, <3>3 DEF HeldOrUnderWay, UnderWay
  <2>7. CASE s # t \/ w # v
    <3>1. ~About(c, s, w) /\ \A d \in Calls : About(d, s, w)' <=> About(d, s, w)
      BY <2>2, <2>3, <2>7 DEF About
    <3>2. w \in joined'[s] <=> w \in joined[s]
      BY <1>5, <2>4, <2>7
         DEF JoinForbidden, MembershipFailed, WithoutEffect, JoinRepeated, JoinFinish,
             LeaveFinish, TrackJoin, TrackLeave, TypeOK
    <3>3. <<s, w>> \in wants' <=> <<s, w>> \in wants
      BY <1>5, <2>7 DEF JoinForbidden, MembershipFailed, WithoutEffect, JoinRepeated, JoinFinish,
         LeaveFinish, history
    <3> QED BY <2>1, <2>3, <3>1, <3>2, <3>3 DEF HeldOrUnderWay, UnderWay
  <2> QED BY <2>6, <2>7
<1>6. ASSUME NEW answered \in SUBSET Calls, MembershipAnswered(answered)
      PROVE  HeldOrUnderWay(s, w)'
  <2>1. UNCHANGED <<phase, joined, wants, crossed>>
    BY <1>6 DEF MembershipAnswered, history
  <2> QED BY <1>2, <1>6, <2>1, AnsweredEffect
<1>7. ASSUME NEW c \in Calls, JoinEnter(c) PROVE HeldOrUnderWay(s, w)'
  <2>1. UNCHANGED <<phase, joined, wants, crossed>>
    BY <1>7 DEF JoinEnter
  <2> QED BY <1>2, <1>7, <2>1, EnterEffect
<1>8. CASE UNCHANGED <<phase, joined, wants, crossed, call>>
  BY <1>2, <1>8
<1> QED
  BY <1>1, <1>3, <1>4, <1>5, <1>6, <1>7, <1>8 DEF Next, Resume, vars, history, BroadcastOffline,
     MembershipChanged, MemberInvited, MemberRemoved

\* An open socket is in the workspaces it asked for last and in no other, as soon as
\* nothing about them is in progress, if the last command crossed none before it,
\* whatever other sockets, queries that fail, disconnects and changes of membership
\* come between the two halves of a command.
THEOREM LastCommandAlwaysWins == Spec => []LastCommandWins
<1> DEFINE Inv == TypeOK /\ CommandsStand
<1>1. Init => Inv
  <2>1. Init => TypeOK
    BY PresenceConstants DEF Init, TypeOK
  <2>2. Init => CommandsStand
    BY DEF Init, CommandsStand, HeldOrUnderWay, About, UnderWay
  <2> QED BY <2>1, <2>2
<1>2. Inv /\ [Next]_vars => Inv'
  BY TypeOKStep, CommandsStandStep
<1>3. Inv => LastCommandWins
  BY DEF LastCommandWins, CommandsStand, HeldOrUnderWay
<1> QED
  BY <1>1, <1>2, <1>3, PTL DEF Spec

-----------------------------------------------------------------------------
(***************************************************************************)
(* The typing indicator.                                                   *)
(***************************************************************************)

Commands == [what : {"start", "stop"}, room : Rooms]

\* What is known of who types where, when no end of it went unannounced.
TypingShape ==
  /\ timer \in [Typists -> Rooms \cup {NoRoom}] /\ sending \in [Typists -> Rooms \cup {NoRoom}]
  /\ room \in [Typists -> Rooms]
  /\ waiting \in [Typists -> Seq(Commands)]
  /\ typing \subseteq Typists \X Rooms /\ misled \subseteq Typists \X Rooms
  /\ shown \in [Rooms -> SUBSET Typists] /\ keys \in 0..MaxKeys

\* The list told last is that of the map.
ShownIsTold ==
  \A ch \in Rooms, u \in Typists : u \in shown[ch] <=> <<u, ch>> \in typing

Waits(s, ch) == \E j \in 1..Len(s) : s[j].room = ch
IsLast(s, j, ch) ==
  j \in 1..Len(s) /\ s[j].room = ch /\ \A k \in 1..Len(s) : k > j => s[k].room # ch

\* The last command of the queue s about channel ch says what the typist's timer t
\* says, and without one the map does.
Told(s, t, map, u, ch) ==
  /\ \A j \in 1..Len(s) : IsLast(s, j, ch) => (s[j].what = "start" <=> t = ch)
  /\ ~Waits(s, ch) => (<<u, ch>> \in map <=> t = ch)

LastToldIsTrue ==
  \A u \in Typists, ch \in Rooms :
    <<u, ch>> \notin misled => Told(waiting[u], timer[u], typing, u, ch)

TypingInv == TypingShape /\ ShownIsTold /\ LastToldIsTrue

\* A queue without its element i.
LEMMA Removed ==
  ASSUME NEW S, NEW s \in Seq(S), NEW i \in 1..Len(s)
  PROVE  /\ RemoveAt(s, i) \in Seq(S) /\ Len(RemoveAt(s, i)) = Len(s) - 1
         /\ \A j \in 1..(Len(s) - 1) : RemoveAt(s, i)[j] = s[IF j < i THEN j ELSE j + 1]
<1> DEFINE a == SubSeq(s, 1, i - 1)
           b == SubSeq(s, i + 1, Len(s))
<1>1. a \in Seq(S) /\ Len(a) = i - 1 /\ \A j \in 1..(i - 1) : a[j] = s[j]
  OBVIOUS
<1>2. b \in Seq(S) /\ Len(b) = Len(s) - i /\ \A j \in 1..(Len(s) - i) : b[j] = s[j + i]
  OBVIOUS
<1>3. RemoveAt(s, i) = a \o b
  BY DEF RemoveAt
<1> HIDE DEF a, b
<1>4. a \o b \in Seq(S) /\ Len(a \o b) = Len(s) - 1
  <2>1. a \o b \in Seq(S) /\ Len(a \o b) = Len(a) + Len(b)
    <3>1. a \in Seq(S) /\ b \in Seq(S)
      BY <1>1, <1>2
    <3> QED BY <3>1
  <2>2. Len(s) \in Nat
    OBVIOUS
  <2> QED BY <1>1, <1>2, <2>1, <2>2
<1>5. ASSUME NEW j \in 1..(Len(s) - 1)
      PROVE  (a \o b)[j] = s[IF j < i THEN j ELSE j + 1]
  <2>1. CASE j < i
    <3>1. (a \o b)[j] = a[j]
      BY <1>1, <1>2, <2>1
    <3> QED BY <1>1, <2>1, <3>1
  <2>2. CASE ~(j < i)
    <3>1. (a \o b)[j] = b[j - (i - 1)]
      BY <1>1, <1>2, <2>2
    <3>2. j - (i - 1) \in 1..(Len(s) - i) /\ j - (i - 1) + i = j + 1
      BY <2>2
    <3> QED BY <1>2, <2>2, <3>1, <3>2
  <2> QED BY <2>1, <2>2
<1> QED BY <1>3, <1>4, <1>5

\* Every element but the one removed has a place in what is left.
LEMMA LeftOver ==
  ASSUME NEW S, NEW s \in Seq(S), NEW i \in 1..Len(s), NEW m \in 1..Len(s), m # i
  PROVE  LET j == IF m < i THEN m ELSE m - 1
         IN  j \in 1..(Len(s) - 1) /\ RemoveAt(s, i)[j] = s[m]
<1>1. CASE m < i
  <2>1. m \in 1..(Len(s) - 1)
    BY <1>1
  <2>2. RemoveAt(s, i)[m] = s[IF m < i THEN m ELSE m + 1]
    BY <2>1, Removed
  <2> QED BY <1>1, <2>1, <2>2
<1>2. CASE ~(m < i)
  <2>1. m - 1 \in 1..(Len(s) - 1) /\ ~(m - 1 < i) /\ m - 1 + 1 = m
    BY <1>2
  <2>2. RemoveAt(s, i)[m - 1] = s[IF m - 1 < i THEN m - 1 ELSE m - 1 + 1]
    BY <2>1, Removed
  <2> QED BY <1>2, <2>1, <2>2
<1> QED BY <1>1, <1>2

\* A command more, about this channel or another one.
LEMMA Appended ==
  ASSUME NEW u, NEW ch, NEW s \in Seq(Commands), NEW c \in Commands, NEW t, NEW map
  PROVE  /\ c.room = ch /\ (c.what = "start" <=> t = ch) => Told(Append(s, c), t, map, u, ch)
         /\ \A old : c.room # ch /\ (old = ch <=> t = ch) /\ Told(s, old, map, u, ch)
                       => Told(Append(s, c), t, map, u, ch)
<1> DEFINE more == Append(s, c)
<1>1. /\ Len(more) = Len(s) + 1 /\ more[Len(s) + 1] = c /\ Len(s) \in Nat
      /\ \A j \in 1..Len(s) : more[j] = s[j]
  OBVIOUS
<1> HIDE DEF more
<1>2. ASSUME c.room = ch, c.what = "start" <=> t = ch
      PROVE  Told(more, t, map, u, ch)
  <2>1. Waits(more, ch)
    BY <1>1, <1>2 DEF Waits
  <2>2. \A j \in 1..Len(more) : IsLast(more, j, ch) => j = Len(s) + 1
    BY <1>1, <1>2 DEF IsLast
  <2> QED BY <1>1, <1>2, <2>1, <2>2 DEF Told
<1>3. ASSUME NEW old, c.room # ch, old = ch <=> t = ch, Told(s, old, map, u, ch)
      PROVE  Told(more, t, map, u, ch)
  <2>1. ASSUME NEW j \in 1..Len(more), IsLast(more, j, ch)
        PROVE  j \in 1..Len(s) /\ IsLast(s, j, ch)
    BY <1>1, <1>3, <2>1 DEF IsLast
  <2>2. Waits(s, ch) => Waits(more, ch)
    BY <1>1 DEF Waits
  <2>3. \A j \in 1..Len(more) : IsLast(more, j, ch) => (more[j].what = "start" <=> t = ch)
    BY <1>1, <1>3, <2>1 DEF Told
  <2> QED BY <1>3, <2>2, <2>3 DEF Told
<1> QED BY <1>2, <1>3 DEF more

\* A command less, about another channel; the first one of several about this
\* channel; the only one.
LEMMA RemovedTold ==
  ASSUME NEW u, NEW ch, NEW s \in Seq(Commands), NEW i \in 1..Len(s), NEW t, NEW map, NEW next
  PROVE  /\ s[i].room # ch /\ (<<u, ch>> \in map <=> <<u, ch>> \in next)
              /\ Told(s, t, map, u, ch)
              => Told(RemoveAt(s, i), t, next, u, ch)
         /\ (\E j \in 1..Len(s) : j > i /\ s[j].room = ch) /\ Told(s, t, map, u, ch)
              => Told(RemoveAt(s, i), t, next, u, ch)
         /\ (\A j \in 1..Len(s) : j # i => s[j].room # ch) /\ (<<u, ch>> \in next <=> t = ch)
              => Told(RemoveAt(s, i), t, next, u, ch)
<1> DEFINE r == RemoveAt(s, i)
           From(j) == IF j < i THEN j ELSE j + 1
           Place(m) == IF m < i THEN m ELSE m - 1
<1>1. Len(s) \in Nat /\ Len(r) = Len(s) - 1
  BY Removed
<1>2. \A j \in 1..Len(r) : From(j) \in 1..Len(s) \ {i} /\ r[j] = s[From(j)]
  <2>1. \A j \in 1..(Len(s) - 1) : r[j] = s[From(j)]
    BY Removed
  <2>2. \A j \in 1..(Len(s) - 1) : From(j) \in 1..Len(s) \ {i}
    BY <1>1
  <2> QED BY <1>1, <2>1, <2>2
<1>3. \A m \in 1..Len(s) : m # i => Place(m) \in 1..Len(r) /\ r[Place(m)] = s[m]
  BY <1>1, LeftOver
<1>4. \A j \in 1..Len(r), m \in 1..Len(s) : m # i /\ m > From(j) => Place(m) > j
  BY <1>1
<1> HIDE DEF r, From, Place
<1>5. ASSUME NEW j \in 1..Len(r), IsLast(r, j, ch), s[i].room # ch \/ i < From(j)
      PROVE  IsLast(s, From(j), ch)
  <2>1. s[From(j)].room = ch
    BY <1>2, <1>5 DEF IsLast
  <2>2. \A m \in 1..Len(s) : m # i /\ m > From(j) => s[m].room # ch
    BY <1>3, <1>4, <1>5 DEF IsLast
  <2>3. i > From(j) => s[i].room # ch
    BY <1>1, <1>2, <1>5
  <2> QED BY <1>2, <2>1, <2>2, <2>3 DEF IsLast
<1>6. ASSUME s[i].room # ch, <<u, ch>> \in map <=> <<u, ch>> \in next, Told(s, t, map, u, ch)
      PROVE  Told(r, t, next, u, ch)
  <2>1. \A j \in 1..Len(r) : IsLast(r, j, ch) => (r[j].what = "start" <=> t = ch)
    BY <1>2, <1>5, <1>6 DEF Told
  <2>2. Waits(s, ch) => Waits(r, ch)
    BY <1>3, <1>6 DEF Waits
  <2> QED BY <1>6, <2>1, <2>2 DEF Told
<1>7. ASSUME NEW m \in 1..Len(s), m > i, s[m].room = ch, Told(s, t, map, u, ch)
      PROVE  Told(r, t, next, u, ch)
  <2>1. m # i /\ Place(m) \in 1..Len(r) /\ r[Place(m)].room = ch
    BY <1>1, <1>3, <1>7
  <2>2. ASSUME NEW j \in 1..Len(r), IsLast(r, j, ch)
        PROVE  i < From(j)
    <3>1. ~(Place(m) > j)
      BY <2>1, <2>2 DEF IsLast
    <3>2. ~(m > From(j))
      BY <1>4, <2>1, <3>1
    <3> QED BY <1>1, <1>2, <1>7, <3>2
  <2>3. \A j \in 1..Len(r) : IsLast(r, j, ch) => (r[j].what = "start" <=> t = ch)
    BY <1>2, <1>5, <1>7, <2>2 DEF Told
  <2>4. Waits(r, ch)
    BY <2>1 DEF Waits
  <2> QED BY <2>3, <2>4 DEF Told
<1>8. ASSUME \A j \in 1..Len(s) : j # i => s[j].room # ch, <<u, ch>> \in next <=> t = ch
      PROVE  Told(r, t, next, u, ch)
  <2>1. \A j \in 1..Len(r) : r[j].room # ch
    BY <1>2, <1>8
  <2> QED BY <1>8, <2>1 DEF Told, IsLast, Waits
<1> QED BY <1>6, <1>7, <1>8 DEF r

-----------------------------------------------------------------------------
\* A notice for channel ch: the end that is not announced any more misleads.
LEMMA NoticeKeeps ==
  ASSUME TypingInv, NEW u \in Typists, NEW ch \in Rooms, NEW isTyping \in BOOLEAN,
         notifyTyping(u, ch, isTyping), typing' = typing
  PROVE  /\ waiting' \in [Typists -> Seq(Commands)]
         /\ timer' \in [Typists -> Rooms \cup {NoRoom}]
         /\ misled' \subseteq Typists \X Rooms
         /\ LastToldIsTrue'
<1> DEFINE c == Command(IF isTyping THEN "start" ELSE "stop", ch)
           t == TimerAfter(u, ch, isTyping)
<1>1. /\ c \in Commands /\ c.room = ch /\ (c.what = "start" <=> t = ch)
      /\ t \in {ch, NoRoom}
  BY TypingConstants DEF Command, Commands, TimerAfter
<1>2. TypingShape /\ waiting[u] \in Seq(Commands)
  BY DEF TypingInv, TypingShape
<1> HIDE DEF c, t
<1>3. waiting' = [waiting EXCEPT ![u] = Append(@, c)] /\ timer' = [timer EXCEPT ![u] = t]
  BY DEF notifyTyping, c, t
<1>4. \A v \in Typists, r \in Rooms :
        <<v, r>> \notin misled' => <<v, r>> \notin misled /\ (v = u /\ timer[u] = r => r = ch)
  BY DEF notifyTyping
<1>5. waiting'[u] = Append(waiting[u], c) /\ timer'[u] = t
  BY <1>2, <1>3 DEF TypingShape
<1>6. ASSUME NEW v \in Typists, NEW r \in Rooms, <<v, r>> \notin misled'
      PROVE  Told(waiting'[v], timer'[v], typing', v, r)
  <2>1. Told(waiting[v], timer[v], typing, v, r)
    BY <1>4, <1>6 DEF TypingInv, LastToldIsTrue
  <2>2. CASE v # u
    <3>1. waiting'[v] = waiting[v] /\ timer'[v] = timer[v]
      BY <1>2, <1>3, <2>2 DEF TypingShape
    <3> QED BY <2>1, <3>1
  <2>3. CASE v = u /\ r = ch
    <3>1. Told(Append(waiting[u], c), t, typing, u, ch)
      BY <1>1, <1>2, Appended
    <3> QED BY <1>5, <2>3, <3>1
  <2>4. CASE v = u /\ r # ch
    <3>1. c.room # r /\ (timer[u] = r <=> t = r)
      <4>1. r # NoRoom
        BY TypingConstants
      <4> QED BY <1>1, <1>4, <1>6, <2>4, <4>1
    <3>2. Told(waiting[u], timer[u], typing, u, r)
      BY <2>1, <2>4
    <3>3. Told(Append(waiting[u], c), t, typing, u, r)
      BY <1>1, <1>2, <3>1, <3>2, Appended
    <3> QED BY <1>5, <2>4, <3>3
  <2> QED BY <2>2, <2>3, <2>4
<1>7. waiting' \in [Typists -> Seq(Commands)]
  <2>1. Append(waiting[u], c) \in Seq(Commands)
    BY <1>1, <1>2
  <2> QED BY <1>2, <1>3, <2>1 DEF TypingShape
<1>8. timer' \in [Typists -> Rooms \cup {NoRoom}]
  BY <1>1, <1>2, <1>3 DEF TypingShape
<1>9. misled' \subseteq Typists \X Rooms
  BY <1>2 DEF notifyTyping, TypingShape
<1>10. LastToldIsTrue'
  BY <1>6 DEF LastToldIsTrue
<1> QED BY <1>7, <1>8, <1>9, <1>10

LEMMA TypistKeeps ==
  ASSUME TypingInv, NEW u \in Typists,
         \/ Key(u) \/ Submit(u) \/ Submitted(u) \/ SubmitFailed(u)
         \/ \E ch \in Rooms : GoTo(u, ch)
  PROVE  TypingInv'
<1>0. TypingShape /\ ShownIsTold /\ LastToldIsTrue
  BY DEF TypingInv
<1>1. CASE Key(u)
  <2>1. room[u] \in Rooms /\ notifyTyping(u, room[u], TRUE) /\ typing' = typing
    BY <1>0, <1>1 DEF Key, TypingShape
  <2>2. /\ waiting' \in [Typists -> Seq(Commands)]
        /\ timer' \in [Typists -> Rooms \cup {NoRoom}]
        /\ misled' \subseteq Typists \X Rooms
        /\ LastToldIsTrue'
    BY <2>1, NoticeKeeps
  <2>3. keys' \in 0..MaxKeys
    BY <1>0, <1>1, TypingConstants DEF Key, TypingShape
  <2>4. TypingShape' /\ ShownIsTold'
    BY <1>0, <1>1, <2>2, <2>3 DEF Key, TypingShape, ShownIsTold
  <2> QED BY <2>2, <2>4 DEF TypingInv
<1>2. CASE Submitted(u)
  <2>1. sending[u] \in Rooms /\ notifyTyping(u, sending[u], FALSE) /\ typing' = typing
    BY <1>0, <1>2 DEF Submitted, TypingShape
  <2>2. /\ waiting' \in [Typists -> Seq(Commands)]
        /\ timer' \in [Typists -> Rooms \cup {NoRoom}]
        /\ misled' \subseteq Typists \X Rooms
        /\ LastToldIsTrue'
    BY <2>1, NoticeKeeps
  <2>3. TypingShape' /\ ShownIsTold'
    BY <1>0, <1>2, <2>2 DEF Submitted, TypingShape, ShownIsTold
  <2> QED BY <2>2, <2>3 DEF TypingInv
<1>3. CASE Submit(u) \/ SubmitFailed(u) \/ \E ch \in Rooms : GoTo(u, ch)
  <2>1. UNCHANGED <<timer, waiting, typing, shown, misled>>
    BY <1>3 DEF Submit, SubmitFailed, GoTo
  <2>2. keys' \in 0..MaxKeys
    BY <1>0, <1>3, TypingConstants DEF Submit, SubmitFailed, GoTo, TypingShape
  <2>3. /\ sending' \in [Typists -> Rooms \cup {NoRoom}] /\ room' \in [Typists -> Rooms]
    BY <1>0, <1>3 DEF Submit, SubmitFailed, GoTo, TypingShape
  <2> QED BY <1>0, <2>1, <2>2, <2>3 DEF TypingInv, TypingShape, ShownIsTold, LastToldIsTrue
<1> QED BY <1>1, <1>2, <1>3

\* Four seconds without a key: the stop is for the channel the timer ran for.
LEMMA TimerKeeps ==
  ASSUME TypingInv, NEW u \in Typists, TimerFires(u)
  PROVE  TypingInv'
<1> DEFINE c == Command("stop", timer[u])
<1>1. /\ c \in Commands /\ c.room = timer[u] /\ c.what = "stop" /\ timer[u] \in Rooms
  BY DEF Command, Commands, TimerFires, TypingInv, TypingShape
<1>2. TypingShape /\ waiting[u] \in Seq(Commands)
  BY DEF TypingInv, TypingShape
<1> HIDE DEF c
<1>3. waiting' = [waiting EXCEPT ![u] = Append(@, c)] /\ timer' = [timer EXCEPT ![u] = NoRoom]
  BY DEF TimerFires, c
<1>4. waiting'[u] = Append(waiting[u], c) /\ timer'[u] = NoRoom
  BY <1>2, <1>3 DEF TypingShape
<1>5. UNCHANGED <<room, sending, typing, shown, keys, misled>>
  BY DEF TimerFires
<1>6. ASSUME NEW v \in Typists, NEW r \in Rooms, <<v, r>> \notin misled
      PROVE  Told(waiting'[v], timer'[v], typing, v, r)
  <2>0. r # NoRoom
    BY TypingConstants
  <2>1. Told(waiting[v], timer[v], typing, v, r)
    BY <1>6 DEF TypingInv, LastToldIsTrue
  <2>2. CASE v # u
    <3>1. waiting'[v] = waiting[v] /\ timer'[v] = timer[v]
      BY <1>2, <1>3, <2>2 DEF TypingShape
    <3> QED BY <2>1, <3>1
  <2>3. CASE v = u /\ r = timer[u]
    <3>1. c.room = r /\ (c.what = "start" <=> NoRoom = r)
      BY <1>1, <2>0, <2>3
    <3>2. Told(Append(waiting[u], c), NoRoom, typing, u, r)
      BY <1>1, <1>2, <3>1, Appended
    <3> QED BY <1>4, <2>3, <3>2
  <2>4. CASE v = u /\ r # timer[u]
    <3>1. c.room # r /\ (timer[u] = r <=> NoRoom = r)
      BY <1>1, <2>0, <2>4
    <3>2. Told(waiting[u], timer[u], typing, u, r)
      BY <2>1, <2>4
    <3>3. Told(Append(waiting[u], c), NoRoom, typing, u, r)
      BY <1>1, <1>2, <3>1, <3>2, Appended
    <3> QED BY <1>4, <2>4, <3>3
  <2> QED BY <2>2, <2>3, <2>4
<1>7. waiting' \in [Typists -> Seq(Commands)]
  <2>1. Append(waiting[u], c) \in Seq(Commands)
    BY <1>1, <1>2
  <2> QED BY <1>2, <1>3, <2>1 DEF TypingShape
<1>8. LastToldIsTrue'
  BY <1>5, <1>6 DEF LastToldIsTrue
<1>9. TypingShape' /\ ShownIsTold'
  BY <1>2, <1>3, <1>5, <1>7 DEF TypingInv, TypingShape, ShownIsTold
<1> QED BY <1>8, <1>9 DEF TypingInv

\* What is told of a typist nothing of whom is carried out depends on the entry alone.
LEMMA ToldOfEntry ==
  ASSUME NEW s, NEW t, NEW map, NEW next, NEW v, NEW r, Told(s, t, map, v, r),
         Waits(s, r) \/ (<<v, r>> \in map <=> <<v, r>> \in next)
  PROVE  Told(s, t, next, v, r)
BY DEF Told

LEMMA LostKeeps ==
  ASSUME TypingInv, NEW u \in Typists, ConnectionLost(u)
  PROVE  TypingInv'
<1>1. TypingShape /\ ShownIsTold /\ LastToldIsTrue
  BY DEF TypingInv
<1>2. waiting' = [waiting EXCEPT ![u] = <<>>]
  BY DEF ConnectionLost
<1>3. UNCHANGED <<room, timer, sending, typing, shown, keys>>
  BY DEF ConnectionLost
<1>4. waiting[u] \in Seq(Commands) /\ DOMAIN waiting[u] = 1..Len(waiting[u])
  BY <1>1 DEF TypingShape
<1>5. \A j \in DOMAIN waiting[u] : waiting[u][j].room \in Rooms
  <2>1. \A j \in DOMAIN waiting[u] : waiting[u][j] \in Commands
    BY <1>4
  <2> QED BY <2>1 DEF Commands
<1>6. misled' = misled \cup {<<u, waiting[u][j].room>> : j \in DOMAIN waiting[u]}
  BY DEF ConnectionLost
<1>7. misled' \subseteq Typists \X Rooms
  BY <1>1, <1>5, <1>6 DEF TypingShape
<1>8. waiting' \in [Typists -> Seq(Commands)]
  BY <1>1, <1>2 DEF TypingShape
<1>9. ASSUME NEW v \in Typists, NEW r \in Rooms, <<v, r>> \notin misled'
      PROVE  Told(waiting'[v], timer[v], typing, v, r)
  <2>1. <<v, r>> \notin misled /\ Told(waiting[v], timer[v], typing, v, r)
    BY <1>1, <1>6, <1>9 DEF LastToldIsTrue
  <2>2. CASE v # u
    <3>1. waiting'[v] = waiting[v]
      BY <1>1, <1>2, <2>2 DEF TypingShape
    <3> QED BY <2>1, <3>1
  <2>3. CASE v = u
    <3>1. waiting'[v] = <<>>
      BY <1>1, <1>2, <2>3 DEF TypingShape
    <3>2. \A j \in 1..Len(waiting[u]) : waiting[u][j].room # r
      BY <1>4, <1>6, <1>9, <2>3
    <3>3. ~Waits(waiting[v], r)
      BY <2>3, <3>2 DEF Waits
    <3>4. 1..Len(<<>>) = {}
      OBVIOUS
    <3> QED BY <2>1, <3>1, <3>3, <3>4 DEF Told
  <2> QED BY <2>2, <2>3
<1>10. LastToldIsTrue'
  BY <1>3, <1>9 DEF LastToldIsTrue
<1> QED BY <1>1, <1>3, <1>7, <1>8, <1>10 DEF TypingInv, TypingShape, ShownIsTold

LEMMA RefusedKeeps ==
  ASSUME TypingInv, NEW u \in Typists, NEW i \in DOMAIN waiting[u], TypingRefused(u, i)
  PROVE  TypingInv'
<1>1. TypingShape /\ ShownIsTold /\ LastToldIsTrue
  BY DEF TypingInv
<1>2. /\ waiting' = [waiting EXCEPT ![u] = RemoveAt(@, i)]
      /\ misled' = misled \cup {<<u, waiting[u][i].room>>}
      /\ UNCHANGED <<room, timer, sending, typing, shown, keys>>
  BY DEF TypingRefused
<1>3. waiting[u] \in Seq(Commands) /\ i \in 1..Len(waiting[u])
  BY <1>1 DEF TypingShape
<1>4. waiting[u][i].room \in Rooms
  <2>1. waiting[u][i] \in Commands
    BY <1>3
  <2> QED BY <2>1 DEF Commands
<1>5. waiting'[u] = RemoveAt(waiting[u], i) /\ waiting'[u] \in Seq(Commands)
  <2>1. RemoveAt(waiting[u], i) \in Seq(Commands)
    BY <1>3, Removed
  <2> QED BY <1>1, <1>2, <2>1 DEF TypingShape
<1>6. waiting' \in [Typists -> Seq(Commands)] /\ misled' \subseteq Typists \X Rooms
  BY <1>1, <1>2, <1>4, <1>5 DEF TypingShape
<1>7. ASSUME NEW v \in Typists, NEW r \in Rooms, <<v, r>> \notin misled'
      PROVE  Told(waiting'[v], timer[v], typing, v, r)
  <2>1. Told(waiting[v], timer[v], typing, v, r)
    BY <1>1, <1>2, <1>7 DEF LastToldIsTrue
  <2>2. CASE v # u
    <3>1. waiting'[v] = waiting[v]
      BY <1>1, <1>2, <2>2 DEF TypingShape
    <3> QED BY <2>1, <3>1
  <2>3. CASE v = u
    <3>1. waiting[u][i].room # r
      BY <1>2, <1>7, <2>3
    <3>2. Told(RemoveAt(waiting[u], i), timer[u], typing, u, r)
      BY <1>3, <2>1, <2>3, <3>1, RemovedTold
    <3> QED BY <1>5, <2>3, <3>2
  <2> QED BY <2>2, <2>3
<1>8. LastToldIsTrue'
  BY <1>2, <1>7 DEF LastToldIsTrue
<1> QED BY <1>1, <1>2, <1>6, <1>8 DEF TypingInv, TypingShape, ShownIsTold

\* A command carried out: the last one of a typist about a channel settles what is
\* told of him, those before it are made good by it.
LEMMA HandledKeeps ==
  ASSUME TypingInv, NEW u \in Typists, NEW i \in DOMAIN waiting[u], handleTyping(u, i)
  PROVE  TypingInv'
<1> DEFINE command == waiting[u][i]
           ch == command.room
           entered == IF command.what = "start" THEN typing \cup {<<u, ch>>}
                      ELSE typing \ {<<u, ch>>}
<1>1. TypingShape /\ ShownIsTold /\ LastToldIsTrue
  BY DEF TypingInv
<1>2. waiting[u] \in Seq(Commands) /\ DOMAIN waiting[u] = 1..Len(waiting[u])
  BY <1>1 DEF TypingShape
<1>3. command \in Commands /\ ch \in Rooms
  <2>1. command \in Commands
    BY <1>2
  <2> QED BY <2>1 DEF Commands
<1>4. PICK late \in SUBSET {entry \in typing : entry[2] = ch /\ entry[1] # u
                                                /\ timer[entry[1]] # ch} :
        /\ typing' = entered \ late
        /\ shown' = [shown EXCEPT ![ch] = {v \in Typists : <<v, ch>> \in entered \ late}]
  BY DEF handleTyping
<1>5. /\ waiting' = [waiting EXCEPT ![u] = RemoveAt(@, i)]
      /\ UNCHANGED <<room, timer, sending, keys>>
  BY DEF handleTyping
<1>6. misled' = IF \E j \in Others(u, i) : j < i THEN misled \cup {<<u, ch>>}
                ELSE IF command.what = "stop" /\ Others(u, i) = {} /\ timer[u] # ch
                THEN misled \ {<<u, ch>>}
                ELSE misled
  BY DEF handleTyping
<1>7. \A v \in Typists, r \in Rooms : <<v, r>> \in late =>
        r = ch /\ v # u /\ timer[v] # ch
  BY <1>4
<1>8. \A v \in Typists, r \in Rooms : v # u \/ r # ch =>
        (<<v, r>> \in entered <=> <<v, r>> \in typing)
  OBVIOUS
<1>9. entered \subseteq Typists \X Rooms /\ (<<u, ch>> \in entered <=> command.what = "start")
  BY <1>1, <1>3 DEF TypingShape
<1>10. Others(u, i) = {j \in 1..Len(waiting[u]) : j # i /\ waiting[u][j].room = ch}
  BY <1>2 DEF Others
<1> HIDE DEF entered, command, ch
<1>11. waiting'[u] = RemoveAt(waiting[u], i) /\ waiting'[u] \in Seq(Commands)
  <2>1. RemoveAt(waiting[u], i) \in Seq(Commands)
    BY <1>2, Removed
  <2> QED BY <1>1, <1>5, <2>1 DEF TypingShape
<1>12. /\ waiting' \in [Typists -> Seq(Commands)] /\ misled' \subseteq Typists \X Rooms
       /\ typing' \subseteq Typists \X Rooms
  BY <1>1, <1>3, <1>4, <1>5, <1>6, <1>9, <1>11 DEF TypingShape
<1>13. \A v \in Typists, r \in Rooms :
         v # u \/ r # ch => (<<v, r>> \in typing' <=> <<v, r>> \in typing /\ <<v, r>> \notin late)
  BY <1>4, <1>8
<1>14. <<u, ch>> \in typing' <=> command.what = "start"
  BY <1>3, <1>4, <1>7, <1>9
<1>15. \A v \in Typists, r \in Rooms :
         v # u \/ r # ch => (<<v, r>> \in misled' <=> <<v, r>> \in misled)
  BY <1>6
<1>16. ASSUME NEW v \in Typists, NEW r \in Rooms, <<v, r>> \notin misled'
       PROVE  Told(waiting'[v], timer[v], typing', v, r)
  <2>1. CASE v # u
    <3>1. waiting'[v] = waiting[v] /\ Told(waiting[v], timer[v], typing, v, r)
      BY <1>1, <1>5, <1>15, <1>16, <2>1 DEF TypingShape, LastToldIsTrue
    <3>2. ~Waits(waiting[v], r) => (<<v, r>> \in typing <=> <<v, r>> \in typing')
      <4> SUFFICES ASSUME ~Waits(waiting[v], r)
                   PROVE  <<v, r>> \in typing <=> <<v, r>> \in typing'
        OBVIOUS
      <4>1. <<v, r>> \in typing <=> timer[v] = r
        BY <3>1 DEF Told
      <4> QED BY <1>7, <1>13, <2>1, <4>1
    <3> QED BY <3>1, <3>2, ToldOfEntry
  <2>2. CASE v = u /\ r # ch
    <3>1. Told(waiting[u], timer[u], typing, u, r)
      BY <1>1, <1>15, <1>16, <2>2 DEF LastToldIsTrue
    <3>2. <<u, r>> \in typing <=> <<u, r>> \in typing'
      BY <1>7, <1>13, <2>2
    <3>3. waiting[u][i].room # r
      BY <2>2 DEF ch, command
    <3>4. Told(RemoveAt(waiting[u], i), timer[u], typing', u, r)
      BY <1>2, <3>1, <3>2, <3>3, RemovedTold
    <3> QED BY <1>11, <2>2, <3>4
  <2>3. CASE v = u /\ r = ch /\ Others(u, i) # {}
    <3>1. ~\E j \in Others(u, i) : j < i
      BY <1>6, <1>16, <2>3
    <3>2. misled' = misled
      BY <1>6, <2>3, <3>1
    <3>3. Told(waiting[u], timer[u], typing, u, ch)
      BY <1>1, <1>16, <2>3, <3>2 DEF LastToldIsTrue
    <3>4. \E j \in 1..Len(waiting[u]) : j > i /\ waiting[u][j].room = ch
      BY <1>2, <1>10, <2>3, <3>1
    <3>5. Told(RemoveAt(waiting[u], i), timer[u], typing', u, ch)
      BY <1>2, <3>3, <3>4, RemovedTold
    <3> QED BY <1>11, <2>3, <3>5
  <2>4. CASE v = u /\ r = ch /\ Others(u, i) = {}
    <3>1. \A j \in 1..Len(waiting[u]) : j # i => waiting[u][j].room # ch
      BY <1>10, <2>4
    <3>2. command.what = "start" <=> timer[u] = ch
      <4>1. CASE command.what = "stop" /\ timer[u] # ch
        BY <4>1
      <4>2. CASE ~(command.what = "stop" /\ timer[u] # ch)
        <5>1. misled' = misled
          BY <1>6, <2>4, <4>2
        <5>2. Told(waiting[u], timer[u], typing, u, ch)
          BY <1>1, <1>16, <2>4, <5>1 DEF LastToldIsTrue
        <5>3. IsLast(waiting[u], i, ch)
          BY <1>2, <3>1 DEF IsLast, ch, command
        <5>4. waiting[u][i].what = "start" <=> timer[u] = ch
          BY <1>2, <5>2, <5>3 DEF Told
        <5> QED BY <5>4 DEF command
      <4> QED BY <4>1, <4>2
    <3>3. <<u, ch>> \in typing' <=> timer[u] = ch
      BY <1>14, <3>2
    <3>4. Told(RemoveAt(waiting[u], i), timer[u], typing', u, ch)
      BY <1>2, <3>1, <3>3, RemovedTold
    <3> QED BY <1>11, <2>4, <3>4
  <2> QED BY <2>1, <2>2, <2>3, <2>4
<1>17. LastToldIsTrue'
  BY <1>5, <1>16 DEF LastToldIsTrue
<1>18. ShownIsTold'
  <2>1. ASSUME NEW r \in Rooms, NEW v \in Typists
        PROVE  v \in shown'[r] <=> <<v, r>> \in typing'
    <3>1. CASE r = ch
      BY <1>1, <1>4, <3>1 DEF TypingShape
    <3>2. CASE r # ch
      <4>1. shown'[r] = shown[r]
        BY <1>1, <1>4, <3>2 DEF TypingShape
      <4>2. <<v, r>> \notin late
        BY <1>7, <3>2
      <4> QED BY <1>1, <1>13, <3>2, <4>1, <4>2 DEF ShownIsTold
    <3> QED BY <3>1, <3>2
  <2> QED BY <2>1 DEF ShownIsTold
<1>19. shown' \in [Rooms -> SUBSET Typists]
  BY <1>1, <1>4 DEF TypingShape
<1> QED BY <1>1, <1>5, <1>12, <1>17, <1>18, <1>19 DEF TypingInv, TypingShape

LEMMA TypingInvHolds == TypingSpec => []TypingInv
<1>1. TypingInit => TypingInv
  <2> SUFFICES ASSUME TypingInit PROVE TypingInv
    OBVIOUS
  <2>1. \A u \in Typists : waiting[u] = <<>> /\ timer[u] = NoRoom
    BY DEF TypingInit
  <2>2. <<>> \in Seq(Commands) /\ Len(<<>>) = 0
    OBVIOUS
  <2>3. TypingShape
    BY <2>2, TypingConstants DEF TypingInit, TypingShape
  <2>4. ShownIsTold
    BY DEF TypingInit, ShownIsTold
  <2>5. LastToldIsTrue
    BY <2>1, <2>2, TypingConstants DEF TypingInit, LastToldIsTrue, Told
  <2> QED BY <2>3, <2>4, <2>5 DEF TypingInv
<1>2. TypingInv /\ [TypingNext]_typingVars => TypingInv'
  <2>1. ASSUME TypingInv, UNCHANGED typingVars
        PROVE  TypingInv'
    BY <2>1 DEF TypingInv, TypingShape, ShownIsTold, LastToldIsTrue, typingVars
  <2> QED BY <2>1, TypistKeeps, TimerKeeps, LostKeeps, RefusedKeeps, HandledKeeps
             DEF TypingNext
<1> QED
  BY <1>1, <1>2, PTL DEF TypingSpec

\* However many users type in however many channels, and however their commands are
\* delayed, lost or refused: once those of a typist are carried out, the others read
\* the truth about him, but where a lost or overtaken end is on record.
THEOREM TypingAlwaysTrue == TypingSpec => []TypingTrue
<1>1. TypingInv => TypingTrue
  <2>1. ASSUME TypingInv, NEW u \in Typists, waiting[u] = <<>>, NEW ch \in Rooms,
               <<u, ch>> \notin misled
        PROVE  u \in shown[ch] <=> timer[u] = ch
    <3>1. Told(waiting[u], timer[u], typing, u, ch)
      BY <2>1 DEF TypingInv, LastToldIsTrue
    <3>2. ~Waits(waiting[u], ch)
      BY <2>1 DEF Waits
    <3> QED BY <2>1, <3>1, <3>2 DEF Told, TypingInv, ShownIsTold
  <2> QED BY <2>1 DEF TypingTrue
<1> QED
  BY <1>1, TypingInvHolds, PTL
=============================================================================
