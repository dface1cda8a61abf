---------------------------- MODULE MessageSync ----------------------------
(***************************************************************************)
(* One channel, from the Message table to the lists the web clients show.  *)
(*                                                                         *)
(* CommunicationService writes a row and, when the answer of the database  *)
(* (and, for a deletion or a moderation, of the audit insert after it) has *)
(* come back, broadcasts an event to the workspace room.  A client gets    *)
(* the events in the order they were sent.  It also reads one page of      *)
(* history over HTTP, beside the socket: the page is read at one moment    *)
(* and merged into the list at a later one.                                *)
(*                                                                         *)
(* Overlapping names the operations that another one on the same message   *)
(* may overlap.                                                            *)
(***************************************************************************)
EXTENDS Naturals, SequencesExt

CONSTANTS
  Clients,     \* browser tabs with the workspace of the channel
  Moderators,  \* those of them whose user holds message.moderate
  Messages,    \* ids of messages
  Calls,       \* operations in progress: bounds their number
  Operations,  \* what is done to messages, among "edit", "delete", "approve", "remove"
  Review,      \* whether a new message needs review (COMMUNITY, regular member)
  Overlapping, \* operations during which another one on the same message may start
  MaxBody,     \* bound on the edits of a message
  MaxWire      \* bound on the events on their way to a client

ASSUME MessageConstants ==
  /\ Moderators \subseteq Clients
  /\ Operations \subseteq {"edit", "delete", "approve", "remove"}
  /\ Overlapping \subseteq Operations \cup {"send"}
  /\ Review \in BOOLEAN
  /\ MaxBody \in Nat /\ MaxWire \in Nat

VARIABLES
  table,    \* rows of Message
  call,     \* progress of each operation
  link,     \* the socket of a client: in the workspace room or not
  wire,     \* events sent to a client and not yet handled
  view,     \* what a client shows: the channel or not, its page loaded or not
  page,     \* rows of the page a client was answered with
  list,     \* messages of WorkspaceContext
  covered,  \* history: clients that were in the room when their page was read
  cleared,  \* history: clients whose list was emptied since its page was asked for
  overlapped, \* history: messages two operations on which overlapped
  live      \* history: messages created while a client was in the room and
            \* showed the channel with its page merged

vars == <<table, call, link, wire, view, page, list, covered, cleared,
          overlapped, live>>

Statuses == {"VISIBLE", "PENDING_REVIEW", "REMOVED"}
Bodies == 0..MaxBody

\* A message as a client knows it; at is the place of its createdAt.
Copies == [id : Messages, at : Nat, body : Bodies, status : Statuses]
Absent == [at |-> 0, gone |-> TRUE]
Rows == [id : Messages, at : Nat, body : Bodies, status : Statuses, gone : BOOLEAN]

Events ==
  [kind : {"created", "updated"}, copy : Copies]
  \cup [kind : {"deleted"}, id : Messages]
  \cup [kind : {"moderated"}, id : Messages, status : Statuses]

Idle == [at |-> "idle"]
Busy ==
  [at : {"insert", "find", "write"}, op : Operations \cup {"send"}, id : Messages]
  \* the row is written; event is what will be broadcast
  \cup [at : {"broadcast"}, op : Operations \cup {"send"}, id : Messages, event : Events]

TypeOK ==
  /\ table \in [Messages -> Rows \cup {Absent}]
  /\ call \in [Calls -> Busy \cup {Idle}]
  /\ link \in [Clients -> {"out", "leaving", "joining", "in"}]
  /\ wire \in [Clients -> Seq(Events)]
  /\ view \in [Clients -> {"closed", "loading", "read", "merged"}]
  /\ page \in [Clients -> SUBSET Copies]
  /\ list \in [Clients -> Seq(Copies)]
  /\ covered \in SUBSET Clients
  /\ cleared \in SUBSET Clients
  /\ overlapped \in SUBSET Messages
  /\ live \in [Clients -> SUBSET Messages]

Init ==
  /\ table = [m \in Messages |-> Absent]
  /\ call = [k \in Calls |-> Idle]
  /\ link = [c \in Clients |-> "out"]
  /\ wire = [c \in Clients |-> <<>>]
  /\ view = [c \in Clients |-> "closed"]
  /\ page = [c \in Clients |-> {}]
  /\ list = [c \in Clients |-> <<>>]
  /\ covered = {}
  /\ cleared = {}
  /\ overlapped = {}
  /\ live = [c \in Clients |-> {}]

-----------------------------------------------------------------------------
(* CommunicationService *)

At(k, place) == call[k].at = place
Done(k) == call' = [call EXCEPT ![k] = Idle]
OpsOn(m) == {call[k].op : k \in {j \in Calls : call[j] # Idle /\ call[j].id = m}}

CopyOf(row) == [id |-> row.id, at |-> row.at, body |-> row.body, status |-> row.status]
Created == {m \in Messages : table[m] # Absent}

clientVars == <<link, view, page, list>>
tabVars == <<clientVars, wire, covered, cleared, live>>

InFlight == Cardinality({k \in Calls : call[k] # Idle})

Called(k, op, m) ==
  /\ call[k] = Idle
  /\ IF m \in Created THEN op # "send" /\ OpsOn(m) \subseteq Overlapping
                     ELSE op = "send" /\ OpsOn(m) = {}
  /\ \A c \in Clients : Len(wire[c]) + InFlight < MaxWire
  /\ call' = [call EXCEPT ![k] =
       [at |-> IF op = "send" THEN "insert" ELSE "find", op |-> op, id |-> m]]
  /\ overlapped' = IF OpsOn(m) = {} THEN overlapped ELSE overlapped \cup {m}
  /\ UNCHANGED <<table, tabVars>>

\* message.create; the broadcast follows when the answer is processed.
Inserted(k) ==
  /\ At(k, "insert")
  /\ LET m == call[k].id
         row == [id |-> m, at |-> Cardinality(Created) + 1, body |-> 0,
                 status |-> IF Review THEN "PENDING_REVIEW" ELSE "VISIBLE", gone |-> FALSE]
     IN  /\ table' = [table EXCEPT ![m] = row]
         /\ call' = [call EXCEPT ![k] =
              [at |-> "broadcast", op |-> "send", id |-> m,
               event |-> [kind |-> "created", copy |-> CopyOf(row)]]]
         /\ live' = [c \in Clients |->
              IF link[c] = "in" /\ view[c] = "merged" THEN live[c] \cup {m} ELSE live[c]]
  /\ UNCHANGED <<overlapped, clientVars, wire, covered, cleared>>

\* A removed message is not removed again, a visible one not approved again; a
\* deleted one is not found.
MayWrite(op, row) ==
  /\ ~row.gone
  /\ op = "approve" => row.status # "VISIBLE"
  /\ op = "remove" => row.status # "REMOVED"

Found(k) ==
  /\ At(k, "find")
  /\ MayWrite(call[k].op, table[call[k].id])
  /\ call' = [call EXCEPT ![k].at = "write"]
  /\ UNCHANGED <<overlapped, table, tabVars>>

Refused(k) ==
  /\ At(k, "find")
  /\ ~MayWrite(call[k].op, table[call[k].id])
  /\ Done(k)
  /\ UNCHANGED <<overlapped, table, tabVars>>

Written(op, row) ==
  CASE op = "edit"    -> [row EXCEPT !.body = @ + 1]
    [] op = "delete"  -> [row EXCEPT !.gone = TRUE]
    [] op = "approve" -> [row EXCEPT !.status = "VISIBLE"]
    [] op = "remove"  -> [row EXCEPT !.status = "REMOVED"]

\* The event would carry the row found before the update.
EventOfStale(op, old, new) ==
  CASE op = "edit"    -> [kind |-> "updated", copy |-> CopyOf(old)]
    [] op = "delete"  -> [kind |-> "deleted", id |-> new.id]
    [] OTHER          -> [kind |-> "moderated", id |-> new.id, status |-> new.status]
\* An edit broadcasts the whole row it wrote, the others what they changed.
EventOf(op, old, new) ==
  CASE op = "edit"    -> [kind |-> "updated", copy |-> CopyOf(new)]
    [] op = "delete"  -> [kind |-> "deleted", id |-> new.id]
    [] OTHER          -> [kind |-> "moderated", id |-> new.id, status |-> new.status]

Updated(k) ==
  /\ At(k, "write")
  /\ LET m == call[k].id
         op == call[k].op
         new == Written(op, table[m])
     IN  /\ new.body \in Bodies
         /\ table' = [table EXCEPT ![m] = new]
         /\ call' = [call EXCEPT ![k] =
              [at |-> "broadcast", op |-> op, id |-> m, event |-> EventOf(op, table[m], new)]]
  /\ UNCHANGED <<overlapped, tabVars>>

\* RealtimeBroadcaster: to the sockets that are in the workspace room now.
Broadcast(k) ==
  /\ At(k, "broadcast")
  /\ wire' = [c \in Clients |->
       IF link[c] \in {"in", "leaving"} THEN Append(wire[c], call[k].event) ELSE wire[c]]
  /\ Done(k)
  /\ UNCHANGED <<overlapped, table, clientVars, covered, cleared, live>>

\* A query rejects: the exception leaves the operation, which wrote nothing.
\* (AuditService.record swallows its own failure.)
QueryFailed(k) ==
  /\ call[k].at \in {"insert", "find", "write"}
  /\ Done(k)
  /\ UNCHANGED <<overlapped, table, tabVars>>

\* The process ends and starts again: what was written and not yet broadcast is
\* never broadcast, every socket is closed and what was on its way is lost.
ProcessEnded ==
  /\ call' = [k \in Calls |-> Idle]
  /\ link' = [c \in Clients |-> "out"]
  /\ wire' = [c \in Clients |-> <<>>]
  /\ covered' = {}
  /\ live' = [c \in Clients |-> {}]
  /\ UNCHANGED <<overlapped, table, view, page, list, cleared>>

-----------------------------------------------------------------------------
(* The message store of the web client *)

Ids(l) == {l[i].id : i \in DOMAIN l}

\* A second delivery would be shown a second time.
AppendMessageAlways(l, copy) == Append(l, copy)
AppendMessage(l, copy) == IF copy.id \in Ids(l) THEN l ELSE Append(l, copy)

UpdateMessage(l, copy) ==
  [i \in DOMAIN l |-> IF l[i].id = copy.id THEN copy ELSE l[i]]

UpdateMessageStatus(l, m, status) ==
  [i \in DOMAIN l |-> IF l[i].id = m THEN [l[i] EXCEPT !.status = status] ELSE l[i]]

DeleteMessage(l, m) ==
  LET kept[i \in 0..Len(l)] ==
        IF i = 0 THEN <<>>
        ELSE IF l[i].id = m THEN kept[i - 1] ELSE Append(kept[i - 1], l[i])
  IN  kept[Len(l)]

\* The copies in the order of createdAt.
InOrder(S) ==
  CHOOSE s \in [1..Cardinality(S) -> S] :
    /\ \A copy \in S : \E i \in DOMAIN s : s[i] = copy
    /\ \A i, j \in DOMAIN s : i < j => s[i].at < s[j].at

\* The page would replace what the socket has brought.
MergePageReplacing(l, rows) == InOrder(rows)
\* What is already in the list is kept as it is.
MergePage(l, rows) ==
  InOrder(ToSet(l) \cup {copy \in rows : copy.id \notin Ids(l)})

Apply(l, event) ==
  CASE event.kind = "created"   -> AppendMessage(l, event.copy)
    [] event.kind = "updated"   -> UpdateMessage(l, event.copy)
    [] event.kind = "moderated" -> UpdateMessageStatus(l, event.id, event.status)
    [] event.kind = "deleted"   -> DeleteMessage(l, event.id)

-----------------------------------------------------------------------------
(* WorkspaceContext *)

\* Another channel or workspace is shown, or this one anew: the list is
\* emptied and a page on its way is dropped.
ListReset(c) ==
  /\ list' = [list EXCEPT ![c] = <<>>]
  /\ page' = [page EXCEPT ![c] = {}]
  /\ covered' = covered \ {c}
  /\ cleared' = cleared \ {c}
  /\ live' = [live EXCEPT ![c] = {}]

\* The workspace is opened, or left and opened again: the client asks to leave
\* and to join the room and shows no channel until it has the list of them
\* (ChannelShown).  What was sent to it before is still on its way.
WorkspaceOpened(c) ==
  /\ link' = [link EXCEPT ![c] = IF @ \in {"in", "leaving"} THEN "leaving" ELSE "joining"]
  /\ view' = [view EXCEPT ![c] = "closed"]
  /\ ListReset(c)
  /\ UNCHANGED <<overlapped, table, call, wire>>

\* The gateway takes the socket out of the room, and puts it in.
RoomLeft(c) ==
  /\ link[c] = "leaving"
  /\ link' = [link EXCEPT ![c] = "joining"]
  /\ UNCHANGED <<overlapped, table, call, wire, view, page, list, covered, cleared, live>>

RoomJoined(c) ==
  /\ link[c] = "joining"
  /\ link' = [link EXCEPT ![c] = "in"]
  /\ UNCHANGED <<overlapped, table, call, wire, view, page, list, covered, cleared, live>>

\* setActiveChannel, for another channel and for this one, and the first channel
\* of a workspace that was opened.
ChannelLeft(c) ==
  /\ view[c] # "closed"
  /\ view' = [view EXCEPT ![c] = "closed"]
  /\ ListReset(c)
  /\ UNCHANGED <<overlapped, table, call, link, wire>>

ChannelShown(c) ==
  /\ view[c] = "closed"
  /\ view' = [view EXCEPT ![c] = "loading"]
  /\ ListReset(c)
  /\ UNCHANGED <<overlapped, table, call, link, wire>>

\* setActiveChannel with the channel that is shown already: the list is emptied
\* and, as the state of the component does not change, nothing is asked for.
ChannelSelectedAgain(c) ==
  /\ view[c] # "closed"
  /\ list' = [list EXCEPT ![c] = <<>>]
  /\ cleared' = cleared \cup {c}
  /\ live' = [live EXCEPT ![c] = {}]
  /\ UNCHANGED <<overlapped, table, call, link, wire, view, page, covered>>

\* createChannel shows the new channel and leaves the list as it is.
ChannelCreated(c) ==
  /\ view[c] # "closed"
  /\ view' = [view EXCEPT ![c] = "closed"]
  /\ page' = [page EXCEPT ![c] = {}]
  /\ covered' = covered \ {c}
  /\ live' = [live EXCEPT ![c] = {}]
  /\ UNCHANGED <<overlapped, table, call, link, wire, list, cleared>>

\* listMessages: the rows that are not deleted; to a member the visible ones.
Listed(c, row) == ~row.gone /\ (c \in Moderators \/ row.status = "VISIBLE")

PageRead(c) ==
  /\ view[c] = "loading"
  /\ view' = [view EXCEPT ![c] = "read"]
  /\ page' = [page EXCEPT ![c] =
       {CopyOf(table[m]) : m \in {n \in Created : Listed(c, table[n])}}]
  /\ covered' = IF link[c] = "in" THEN covered \cup {c} ELSE covered
  /\ UNCHANGED <<overlapped, table, call, link, wire, list, cleared, live>>

PageMerged(c) ==
  /\ view[c] = "read"
  /\ view' = [view EXCEPT ![c] = "merged"]
  /\ list' = [list EXCEPT ![c] = MergePage(@, page[c])]
  /\ page' = [page EXCEPT ![c] = {}]
  /\ UNCHANGED <<overlapped, table, call, link, wire, covered, cleared, live>>

\* An event of a channel that is not shown is dropped.
Delivered(c) ==
  /\ wire[c] # <<>>
  /\ wire' = [wire EXCEPT ![c] = Tail(@)]
  /\ list' = [list EXCEPT ![c] = IF view[c] = "closed" THEN @ ELSE Apply(@, Head(wire[c]))]
  /\ UNCHANGED <<overlapped, table, call, link, view, page, covered, cleared, live>>

\* The connection breaks: the socket leaves the room and what was on its way
\* is lost.
ConnectionLost(c) ==
  /\ link[c] # "out"
  /\ link' = [link EXCEPT ![c] = "out"]
  /\ wire' = [wire EXCEPT ![c] = <<>>]
  /\ covered' = covered \ {c}
  /\ live' = [live EXCEPT ![c] = {}]
  /\ UNCHANGED <<overlapped, table, call, view, page, list, cleared>>

-----------------------------------------------------------------------------

Answered(k) ==
  Inserted(k) \/ Found(k) \/ Refused(k) \/ Updated(k) \/ Broadcast(k) \/ QueryFailed(k)

Next ==
  \/ \E k \in Calls, m \in Messages, op \in Operations \cup {"send"} : Called(k, op, m)
  \/ \E k \in Calls : Answered(k)
  \/ ProcessEnded
  \/ \E c \in Clients :
       \/ WorkspaceOpened(c)
       \/ RoomLeft(c)
       \/ RoomJoined(c)
       \/ ChannelLeft(c)
       \/ ChannelShown(c)
       \/ ChannelSelectedAgain(c)
       \/ ChannelCreated(c)
       \/ PageRead(c)
       \/ PageMerged(c)
       \/ Delivered(c)
       \/ ConnectionLost(c)

Spec == Init /\ [][Next]_vars

-----------------------------------------------------------------------------
(* Properties *)

\* A message is shown once, whether it came over the socket, in the page or in
\* both, and whichever was first ("duplikat event diabaikan", ADR-004).
NoDuplicates ==
  \A c \in Clients : \A i, j \in DOMAIN list[c] :
    list[c][i].id = list[c][j].id => i = j

\* No operation on m is in progress and nothing is on its way to c.
Settled(c, m) == OpsOn(m) = {} /\ wire[c] = <<>>

\* A client that was in the room when its page was read misses no message the
\* page would show it now: what was created between the page's reading and its
\* merging came over the socket and survives the merge.  An approval brings a
\* message only to those who have it; so it is left out for members.
NothingMissed ==
  \A c \in covered \ cleared : view[c] = "merged" =>
    \A m \in Created :
      (/\ Settled(c, m) /\ Listed(c, table[m])
       /\ c \in Moderators \/ "approve" \notin Operations) => m \in Ids(list[c])

\* A client that was in the room with its page merged when a message was created
\* shows it, once settled, exactly as the database has it, through any edits,
\* decisions and deletion that do not overlap each other.
LiveCopyExact ==
  \A c \in Clients : \A m \in live[c] \ overlapped :
    Settled(c, m) =>
      {copy \in ToSet(list[c]) : copy.id = m} =
        IF table[m].gone THEN {} ELSE {CopyOf(table[m])}
=============================================================================
