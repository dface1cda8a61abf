------------------------------ MODULE Presence ------------------------------
(***************************************************************************)
(* Workspace presence of the realtime gateway.                             *)
(*                                                                         *)
(* RealtimeGateway keeps, for every socket, the workspaces it joined       *)
(* (joinedWorkspaces) and RealtimeService keeps, for every workspace, how  *)
(* many sockets of each user are in it (presence).  Both are plain Maps of *)
(* one Node.js process: no step is interrupted, but a handler that awaits  *)
(* gives the event loop away.  Two kinds of await matter here:             *)
(*                                                                         *)
(*  - a database query (getMembership) lasts many turns of the event loop: *)
(*    packets, disconnects and the answers to other queries happen in it;  *)
(*  - client.join and client.leave of the in-memory adapter are done when  *)
(*    they return, so awaiting them costs one microtask.  Only handlers    *)
(*    already running in this turn can run in that gap; a disconnect or a  *)
(*    database answer starts a turn of its own, after the gap.             *)
(*                                                                         *)
(* A socket is one connection: a client that reconnects uses a new one.    *)
(* Clients do not wait for the acknowledgement of a command before they    *)
(* send the next one: any number of a socket's commands may be in progress.*)
(***************************************************************************)
EXTENDS Naturals, FiniteSets

CONSTANTS
  Users,
  Sockets,
  Workspaces,
  Calls,        \* handler invocations in progress: bounds their number
  Owner,        \* Owner[s]: the user whose session socket s presented
  MaxCount      \* bound on the count of a user, joins in progress included

ASSUME PresenceConstants ==
  /\ IsFiniteSet(Sockets)
  /\ MaxCount \in Nat
  /\ Owner \in [Sockets -> Users]

VARIABLES
  member,    \* rows of WorkspaceMember, as pairs <<user, workspace>>
  phase,     \* life of a socket
  rooms,     \* sockets in the socket.io room ws:<workspace>
  joined,    \* joinedWorkspaces of the gateway
  presence,  \* presence of RealtimeService; 0 stands for an absent entry
  call,      \* progress of each handler invocation
  sweep,     \* workspaces handleDisconnect has still to take a socket out of
  seen,      \* onlineUserIds of the last presence.updated sent to a socket
  wants,     \* history: <<s, w>> when the last command of s about w that did not
             \* fail is a join
  crossed,   \* history: <<s, w>> when the last command of s about w was sent while
             \* one before it was in progress
  joinedTwice,  \* history: <<w, u>> when two joins of one socket of u stood between
                \* the check and the tracking at once
  leftTwice     \* history: the same of two leaves

history == <<wants, crossed, joinedTwice, leftTwice>>
vars == <<member, phase, rooms, joined, presence, call, sweep, seen, history>>

Idle == [at |-> "idle"]

Busy == [at   : {"asked",     \* join: waiting for getMembership
                 "member",    \* join: getMembership found a row
                 "stranger",  \* join: getMembership found none
                 "entering",  \* join: after client.join, before trackJoin
                 "leaving"},  \* leave: after client.leave, before trackLeave
         sock : Sockets,
         ws   : Workspaces]

TypeOK ==
  /\ member \in SUBSET (Users \X Workspaces)
  /\ phase \in [Sockets -> {"new", "open", "closed"}]
  /\ rooms \in [Workspaces -> SUBSET Sockets]
  /\ joined \in [Sockets -> SUBSET Workspaces]
  /\ presence \in [Workspaces -> [Users -> Nat]]
  /\ call \in [Calls -> Busy \cup {Idle}]
  /\ sweep \in [Sockets -> SUBSET Workspaces]
  /\ seen \in [Sockets -> [Workspaces -> SUBSET Users]]
  /\ wants \in SUBSET (Sockets \X Workspaces)
  /\ crossed \in SUBSET (Sockets \X Workspaces)
  /\ joinedTwice \in SUBSET (Workspaces \X Users)
  /\ leftTwice \in SUBSET (Workspaces \X Users)

Init ==
  /\ member \in SUBSET (Users \X Workspaces)
  /\ phase = [s \in Sockets |-> "new"]
  /\ rooms = [w \in Workspaces |-> {}]
  /\ joined = [s \in Sockets |-> {}]
  /\ presence = [w \in Workspaces |-> [u \in Users |-> 0]]
  /\ call = [c \in Calls |-> Idle]
  /\ sweep = [s \in Sockets |-> {}]
  /\ seen = [s \in Sockets |-> [w \in Workspaces |-> {}]]
  /\ wants = {}
  /\ crossed = {}
  /\ joinedTwice = {}
  /\ leftTwice = {}

-----------------------------------------------------------------------------
(* The event loop *)

At(c, places) == call[c].at \in places

\* Some invocation of place p works for socket s on workspace w.
Pending(p, s, w) ==
  \E c \in Calls : At(c, {p}) /\ call[c].sock = s /\ call[c].ws = w

\* The microtasks of the previous turn have all run: the next turn may start.
Drained ==
  /\ \A c \in Calls : At(c, {"idle", "asked"})
  /\ \A s \in Sockets : sweep[s] = {}

\* Packets that arrive together are dispatched in one turn, so the gap of one
\* workspace.leave does not keep the next packet from being handled.
PacketTurn ==
  /\ \A c \in Calls : At(c, {"idle", "asked", "leaving"})
  /\ \A s \in Sockets : sweep[s] = {}

InFlight(s) == \E c \in Calls : call[c] # Idle /\ call[c].sock = s

\* The command of call c is about socket s and workspace w.
About(c, s, w) == call[c] # Idle /\ call[c].sock = s /\ call[c].ws = w
UnderWay(s, w) == \E c \in Calls : About(c, s, w)

\* A command is sent, whatever the socket has in progress.
Sent(s, w) ==
  /\ phase[s] = "open"
  /\ crossed' = IF UnderWay(s, w) THEN crossed \cup {<<s, w>>} ELSE crossed \ {<<s, w>>}

\* Another handler of the same socket and workspace is in the same gap.
Meets(c, place) ==
  \E d \in Calls \ {c} : At(d, {place}) /\ call[d].sock = call[c].sock /\ call[d].ws = call[c].ws

-----------------------------------------------------------------------------
(* RealtimeService.  The definitions named after a mistake (AddPresenceOnce, *)
(* ...) are variants of the one that follows; no action uses them.          *)

\* onlineUsers: the users that have an entry.
OnlineIn(counts) == {u \in Users : counts[u] > 0}
OnlineUsers(w) == OnlineIn(presence[w])

\* A second socket of a user starts the count again.
AddPresenceOnce(w, u) == presence' = [presence EXCEPT ![w][u] = 1]
AddPresence(w, u) == presence' = [presence EXCEPT ![w][u] = @ + 1]

\* One socket takes the user offline on every device.
RemovePresenceAnyDevice(w, u) == presence' = [presence EXCEPT ![w][u] = 0]
\* A count that reaches zero removes the entry; so does one already there.
RemovePresence(w, u) ==
  presence' = [presence EXCEPT ![w][u] = IF @ > 0 THEN @ - 1 ELSE 0]

\* The list is taken before the change it announces.
EmitPresenceStale(w) ==
  seen' = [s \in Sockets |->
             IF s \in rooms[w]
             THEN [seen[s] EXCEPT ![w] = OnlineUsers(w)]
             ELSE seen[s]]
\* presence.updated goes to the sockets in the room and carries the whole list.
EmitPresence(w) ==
  seen' = [s \in Sockets |->
             IF s \in rooms[w]
             THEN [seen[s] EXCEPT ![w] = OnlineIn(presence'[w])]
             ELSE seen[s]]

(* Tracking: joinedWorkspaces *)

TrackJoinForgotten(s, w) == UNCHANGED joined
TrackJoin(s, w) == joined' = [joined EXCEPT ![s] = @ \cup {w}]

TrackLeaveForgotten(s, w) == UNCHANGED joined
TrackLeave(s, w) == joined' = [joined EXCEPT ![s] = @ \ {w}]

-----------------------------------------------------------------------------
(* Life of a connection *)

\* The handshake validated the session and the connection is accepted.
HandleConnection(s) ==
  /\ Drained
  /\ phase[s] = "new"
  /\ phase' = [phase EXCEPT ![s] = "open"]
  /\ UNCHANGED <<member, rooms, joined, presence, call, sweep, seen, history>>

\* socket.io empties the rooms of a socket before handleDisconnect, which takes
\* the tracked workspaces away from the socket and then goes through them.
HandleDisconnect(s) ==
  /\ Drained
  /\ phase[s] = "open"
  /\ phase' = [phase EXCEPT ![s] = "closed"]
  /\ rooms' = [w \in Workspaces |-> rooms[w] \ {s}]
  /\ joined' = [joined EXCEPT ![s] = {}]
  /\ sweep' = [sweep EXCEPT ![s] = joined[s]]
  /\ UNCHANGED <<member, presence, call, seen, history>>

\* One round of the loop of handleDisconnect: broadcastPresence(w, u, offline).
BroadcastOffline(s, w) ==
  /\ w \in sweep[s]
  /\ sweep' = [sweep EXCEPT ![s] = @ \ {w}]
  /\ RemovePresence(w, Owner[s])
  /\ EmitPresence(w)
  /\ UNCHANGED <<member, phase, rooms, joined, call, history>>

-----------------------------------------------------------------------------
(* workspace.join *)

\* The idempotence check of handleWorkspaceJoin.
AlreadyJoined(s, w) == w \in joined[s]

\* Joins of user u in progress for workspace w.
JoinsOf(w, u) ==
  {c \in Calls : /\ At(c, {"asked", "member", "stranger", "entering"})
                 /\ call[c].ws = w
                 /\ Owner[call[c].sock] = u}

JoinReceived(s, w, c) ==
  /\ PacketTurn
  /\ Sent(s, w)
  /\ call[c] = Idle
  /\ presence[w][Owner[s]] + Cardinality(JoinsOf(w, Owner[s])) < MaxCount
  /\ call' = [call EXCEPT ![c] = [at |-> "asked", sock |-> s, ws |-> w]]
  /\ wants' = wants \cup {<<s, w>>}
  /\ UNCHANGED <<member, phase, rooms, joined, presence, sweep, seen, joinedTwice, leftTwice>>

\* Prisma batches the queries made in one tick: one turn answers them all.
MembershipAnswered(answered) ==
  /\ Drained
  /\ answered # {}
  /\ \A c \in answered : At(c, {"asked"})
  /\ call' = [c \in Calls |->
       IF c \in answered
       THEN [call[c] EXCEPT !.at =
               IF <<Owner[call[c].sock], call[c].ws>> \in member
               THEN "member" ELSE "stranger"]
       ELSE call[c]]
  /\ UNCHANGED <<member, phase, rooms, joined, presence, sweep, seen, history>>

\* The join ends and changes nothing: the socket is where the command found it.
WithoutEffect(c) ==
  /\ call' = [call EXCEPT ![c] = Idle]
  /\ wants' = IF AlreadyJoined(call[c].sock, call[c].ws) THEN wants
              ELSE wants \ {<<call[c].sock, call[c].ws>>}
  /\ UNCHANGED <<member, phase, rooms, joined, presence, sweep, seen, crossed,
                 joinedTwice, leftTwice>>

\* The query is rejected: the exception leaves the handler, no acknowledgement is sent.
MembershipFailed(c) ==
  /\ Drained
  /\ At(c, {"asked"})
  /\ WithoutEffect(c)

JoinForbidden(c) ==
  /\ At(c, {"stranger"})
  /\ WithoutEffect(c)

JoinRepeated(c) ==
  /\ At(c, {"member"})
  /\ AlreadyJoined(call[c].sock, call[c].ws)
  /\ call' = [call EXCEPT ![c] = Idle]
  /\ UNCHANGED <<member, phase, rooms, joined, presence, sweep, seen, history>>

\* client.join of a socket that is already closed does nothing.
RoomsAfterJoin(s, w) ==
  IF phase[s] = "open" THEN [rooms EXCEPT ![w] = @ \cup {s}] ELSE rooms

JoinEnter(c) ==
  /\ At(c, {"member"})
  /\ ~AlreadyJoined(call[c].sock, call[c].ws)
  /\ rooms' = RoomsAfterJoin(call[c].sock, call[c].ws)
  /\ call' = [call EXCEPT ![c].at = "entering"]
  /\ joinedTwice' = IF Meets(c, "entering")
                    THEN joinedTwice \cup {<<call[c].ws, Owner[call[c].sock]>>} ELSE joinedTwice
  /\ UNCHANGED <<member, phase, joined, presence, sweep, seen, wants, crossed, leftTwice>>

JoinFinish(c) ==
  /\ At(c, {"entering"})
  /\ LET s == call[c].sock
         w == call[c].ws
     IN  /\ TrackJoin(s, w)
         /\ AddPresence(w, Owner[s])
         /\ EmitPresence(w)
  /\ call' = [call EXCEPT ![c] = Idle]
  /\ UNCHANGED <<member, phase, rooms, sweep, history>>

-----------------------------------------------------------------------------
(* workspace.leave *)

\* Nothing to leave: the handler answers OK at once.
LeaveIgnored(s, w) ==
  /\ PacketTurn
  /\ Sent(s, w)
  /\ ~AlreadyJoined(s, w)
  /\ wants' = wants \ {<<s, w>>}
  /\ UNCHANGED <<member, phase, rooms, joined, presence, call, sweep, seen,
                 joinedTwice, leftTwice>>

LeaveExit(s, w, c) ==
  /\ PacketTurn
  /\ Sent(s, w)
  /\ AlreadyJoined(s, w)
  /\ call[c] = Idle
  /\ rooms' = [rooms EXCEPT ![w] = @ \ {s}]
  /\ call' = [call EXCEPT ![c] = [at |-> "leaving", sock |-> s, ws |-> w]]
  /\ wants' = wants \ {<<s, w>>}
  /\ leftTwice' = IF Pending("leaving", s, w) THEN leftTwice \cup {<<w, Owner[s]>>} ELSE leftTwice
  /\ UNCHANGED <<member, phase, joined, presence, sweep, seen, joinedTwice>>

LeaveFinish(c) ==
  /\ At(c, {"leaving"})
  /\ LET s == call[c].sock
         w == call[c].ws
     IN  /\ TrackLeave(s, w)
         /\ RemovePresence(w, Owner[s])
         /\ EmitPresence(w)
  /\ call' = [call EXCEPT ![c] = Idle]
  /\ UNCHANGED <<member, phase, rooms, sweep, history>>

-----------------------------------------------------------------------------
(* WorkspaceService, while handlers wait.  Of inviteMember and removeMember  *)
(* only the row they commit is visible here.                                 *)

MemberInvited(u, w) ==
  /\ Drained
  /\ <<u, w>> \notin member
  /\ member' = member \cup {<<u, w>>}
  /\ UNCHANGED <<phase, rooms, joined, presence, call, sweep, seen, history>>

MemberRemoved(u, w) ==
  /\ Drained
  /\ <<u, w>> \in member
  /\ member' = member \ {<<u, w>>}
  /\ UNCHANGED <<phase, rooms, joined, presence, call, sweep, seen, history>>

MembershipChanged(u, w) == MemberInvited(u, w) \/ MemberRemoved(u, w)

-----------------------------------------------------------------------------

\* What the process does on its own, once a packet or a disconnect is there.
Resume(c) ==
  \/ JoinForbidden(c)
  \/ JoinRepeated(c)
  \/ JoinEnter(c)
  \/ JoinFinish(c)
  \/ LeaveFinish(c)

Next ==
  \/ \E s \in Sockets : HandleConnection(s) \/ HandleDisconnect(s)
  \/ \E s \in Sockets, w \in Workspaces :
       \/ BroadcastOffline(s, w)
       \/ LeaveIgnored(s, w)
       \/ \E c \in Calls : JoinReceived(s, w, c) \/ LeaveExit(s, w, c)
  \/ \E answered \in SUBSET Calls : MembershipAnswered(answered)
  \/ \E c \in Calls : MembershipFailed(c) \/ Resume(c)
  \/ \E u \in Users, w \in Workspaces : MembershipChanged(u, w)

Spec == Init /\ [][Next]_vars

\* Node.js runs the microtasks of a turn to the end and every query is settled:
\* answered or rejected.  That a client sends something is not assumed.
Fairness ==
  /\ \A c \in Calls : WF_vars(Resume(c))
  /\ \A s \in Sockets : WF_vars(\E w \in Workspaces : BroadcastOffline(s, w))
  /\ \A c \in Calls :
       SF_vars(\/ \E answered \in SUBSET Calls : c \in answered /\ MembershipAnswered(answered)
               \/ MembershipFailed(c))

FairSpec == Spec /\ Fairness

-----------------------------------------------------------------------------
(* Properties *)

\* Room and tracking set differ by what the handler in its gap has still to do.
InStep(s, w) ==
  /\ Pending("entering", s, w) => s \in rooms[w]
  /\ Pending("leaving", s, w) => s \notin rooms[w]
  /\ (~Pending("entering", s, w) /\ ~Pending("leaving", s, w))
       => (s \in rooms[w] <=> w \in joined[s])

\* The room of socket.io and the set the gateway keeps beside it agree on every
\* open socket, and inside the gap of a handler they differ only by what that
\* handler is about to do, however many joins and leaves of one socket are in
\* progress: handleDisconnect can rely on joinedWorkspaces alone.
RoomMatchesTracking ==
  \A s \in Sockets, w \in Workspaces : phase[s] = "open" => InStep(s, w)

\* A socket that is in a room and tracked there was told, by the last
\* presence.updated it got, exactly the users the server counts as online: no
\* change of presence goes without the broadcast the client relies on.
RoomViewFresh ==
  \A w \in Workspaces : \A s \in rooms[w] :
    w \in joined[s] => seen[s][w] = OnlineUsers(w)

\* A turn of the event loop serves packets, the answer of the database or a
\* disconnect, so the gap of a leave never overlaps the second half of a join.
TurnsDoNotMix ==
  \A c, d \in Calls :
    ~(At(c, {"member", "stranger", "entering"}) /\ At(d, {"leaving"}))

\* A socket that has not connected yet has left no trace.
Blank(s) ==
  /\ joined[s] = {}
  /\ sweep[s] = {}
  /\ \A w \in Workspaces : s \notin rooms[w]
  /\ ~InFlight(s)

NewIsBlank == \A s \in Sockets : phase[s] = "new" => Blank(s)

\* The strengthening under which RoomMatchesTracking is inductive.
RoomInv == TypeOK /\ TurnsDoNotMix /\ NewIsBlank /\ RoomMatchesTracking

\* Sockets of u the gateway tracks in w, and those it is taking offline.
Holders(w, u) == {s \in Sockets : Owner[s] = u /\ w \in joined[s]}
Sweeping(w, u) == {s \in Sockets : Owner[s] = u /\ w \in sweep[s]}

\* The count of a user is the number of its sockets that are tracked, plus those
\* handleDisconnect has not come to, however many commands a socket has sent
\* without waiting.  It is too high only after two joins of one socket stood
\* between the check of joinedWorkspaces and the tracking at once, and too low
\* only after two leaves did: neither mistake ever comes from the other cause,
\* from another device, from a disconnect or from a query that fails.
Expected(w, u) == Cardinality(Holders(w, u)) + Cardinality(Sweeping(w, u))

PresenceCount ==
  \A w \in Workspaces, u \in Users :
    /\ <<w, u>> \notin joinedTwice => presence[w][u] <= Expected(w, u)
    /\ <<w, u>> \notin leftTwice => presence[w][u] >= Expected(w, u)

\* In the gap of a handler the check it made before still holds and no other
\* handler is in the gap with it, or the histories say so.
EntersAlone(c) ==
  (At(c, {"entering"}) /\ <<call[c].ws, Owner[call[c].sock]>> \notin joinedTwice)
    => call[c].ws \notin joined[call[c].sock] /\ ~Meets(c, "entering")

LeavesAlone(c) ==
  (At(c, {"leaving"}) /\ <<call[c].ws, Owner[call[c].sock]>> \notin leftTwice)
    => call[c].ws \in joined[call[c].sock] /\ ~Meets(c, "leaving")

GapsAgree == \A c \in Calls : EntersAlone(c) /\ LeavesAlone(c)

SweepIsLast == \A s \in Sockets : sweep[s] # {} => phase[s] = "closed"

\* The strengthening under which PresenceCount is inductive.
CountInv == TypeOK /\ TurnsDoNotMix /\ GapsAgree /\ SweepIsLast /\ PresenceCount

\* A user with a tracked socket in the room is online there, even while other
\* sockets of the user leave or disconnect ("multi-device aware"), unless one of
\* them once left twice in one gap.  Overlapping joins never take anybody offline.
NoFalseOffline ==
  \A w \in Workspaces : \A s \in rooms[w] :
    w \in joined[s] /\ <<w, Owner[s]>> \notin leftTwice => Owner[s] \in OnlineUsers(w)

\* An open socket of which nothing about a workspace is in progress is in it when
\* the last command about it that did not fail was a join, and only then; the
\* last command need not have waited for the ones about other workspaces, or for
\* its own acknowledgement, but it crossed none before it about the same one.
\* What was crossed earlier leaves nothing behind.
LastCommandWins ==
  \A s \in Sockets, w \in Workspaces :
    (phase[s] = "open" /\ ~UnderWay(s, w) /\ <<s, w>> \notin crossed) =>
      (w \in joined[s] <=> <<s, w>> \in wants)

\* A join ends: the socket is tracked, or the join was refused or failed, or the
\* socket has left again or is gone.
JoinSettles ==
  \A s \in Sockets, w \in Workspaces :
    (<<s, w>> \in wants) ~>
      (w \in joined[s] \/ <<s, w>> \notin wants \/ phase[s] = "closed")

\* ADR-004: a user is online in a workspace while at least one of its sockets
\* is in the room, and a disconnect makes presence offline.
OnlineMeansInRoom ==
  Drained => \A w \in Workspaces : \A u \in OnlineUsers(w) :
               \E s \in rooms[w] : Owner[s] = u

\* "A repeated join from the same socket must not double-count presence": nobody is
\* counted more often than they have sockets.
CountedOncePerSocket ==
  \A w \in Workspaces, u \in Users :
    presence[w][u] <= Cardinality({s \in Sockets : Owner[s] = u})
=============================================================================
