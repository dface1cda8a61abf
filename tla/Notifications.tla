--------------------------- MODULE Notifications ---------------------------
(***************************************************************************)
(* The notification inbox: NotificationService turns an event of the bus   *)
(* into rows, reads them back and pushes them to the room of each          *)
(* recipient; the NotificationContext of a tab loads a page and a count    *)
(* once and then lives on what is pushed to it.                            *)
(*                                                                         *)
(* A query takes effect in one step and its answer is used in a later one, *)
(* so handlers of different events, reads and marks interleave.  Pushes    *)
(* reach a tab in order; the answers to its own requests come on their     *)
(* own way.  A row's id is its place in the table, which is also the order *)
(* of createdAt.  The limit of fifty items is left out.                    *)
(***************************************************************************)
EXTENDS Integers, FiniteSetsExt, SequencesExt

CONSTANTS
  Users,
  Tabs,
  Owner,     \* Owner[t]: the user whose session tab t has
  Elsewhere, \* stands for the devices of a user that are no tab of the model
  Subjects,  \* what an event is about: its type and its reference
  Handlers,  \* handleDomainEvent invocations in progress: bounds their number
  Repeats,   \* whether an actor repeats an event while it is still handled
  Remote,    \* whether users read on such devices
  MaxRows,   \* bound on the rows
  MaxMarks,  \* bound on the markRead and markAllRead requests under way
  MaxLosses  \* bound on the connections lost

ASSUME NotificationConstants ==
  /\ IsFiniteSet(Users)
  /\ Owner \in [Tabs -> Users]
  /\ Elsewhere \notin Tabs
  /\ Repeats \in BOOLEAN /\ Remote \in BOOLEAN
  /\ MaxRows \in Nat /\ MaxMarks \in Nat /\ MaxLosses \in Nat

VARIABLES
  table,    \* rows of Notification
  handler,  \* progress of each handleDomainEvent
  online,   \* tabs whose socket is in the room of their user
  pushes,     \* pushes on their way to a tab
  loading,    \* of the refresh of a tab
  answer,   \* its page, or its count, on the way back
  items,    \* notifications of a tab, newest first
  badge,    \* unreadCount of a tab
  marks,    \* markRead requests under way
  sweeps,   \* progress of markAllRead of each tab
  losses,   \* counted for the bound
  due,      \* history: <<t, i>> when row i was stored with t in the room and loaded
  swept     \* history: users who marked all as read

rowVars == <<table, handler>>
tabVars == <<loading, answer, items, badge>>
inboxVars == <<rowVars, online, pushes, tabVars, marks, sweeps, losses, due, swept>>

Rows == [to : Users, from : Users, about : Subjects, read : BOOLEAN]
RowIds == DOMAIN table
Items == [id : 1..MaxRows, read : BOOLEAN]
Pushes == [kind : {"created", "read"}, id : 1..MaxRows]

Idle == [at |-> "idle"]
Busy == [at : {"store",   \* waiting for createMany
               "find",    \* waiting for findMany
               "push"},   \* findMany has been answered
         from : Users, to : SUBSET Users, about : Subjects,
         rows : SUBSET (1..MaxRows)]  \* stored, or found by findMany
Marks == [by : Users, tab : Tabs \cup {Elsewhere}, id : 1..MaxRows,
          at : {"sent", "written", "vain", "done"}]

InboxTypes ==
  /\ table \in Seq(Rows) /\ Len(table) <= MaxRows
  /\ handler \in [Handlers -> Busy \cup {Idle}]
  /\ online \subseteq Tabs
  /\ pushes \in [Tabs -> Seq(Pushes)]
  /\ loading \in [Tabs -> {"closed", "listing", "listed", "counting", "counted", "loaded"}]
  /\ answer \in [Tabs -> [list : Seq(Items), count : Nat]]
  /\ items \in [Tabs -> Seq(Items)]
  /\ badge \in [Tabs -> Nat]
  /\ marks \subseteq Marks
  /\ sweeps \in [Tabs -> {"none", "sent", "written"}]
  /\ losses \in 0..MaxLosses
  /\ due \subseteq Tabs \X (1..MaxRows)
  /\ swept \subseteq Users

NoAnswer == [list |-> <<>>, count |-> 0]

InboxInit ==
  /\ table = <<>>
  /\ handler = [h \in Handlers |-> Idle]
  /\ online = {}
  /\ pushes = [t \in Tabs |-> <<>>]
  /\ loading = [t \in Tabs |-> "closed"]
  /\ answer = [t \in Tabs |-> NoAnswer]
  /\ items = [t \in Tabs |-> <<>>]
  /\ badge = [t \in Tabs |-> 0]
  /\ marks = {}
  /\ sweeps = [t \in Tabs |-> "none"]
  /\ losses = 0
  /\ due = {}
  /\ swept = {}

RoomOf(u) == {t \in online : Owner[t] = u}
Unread(u) == {i \in RowIds : table[i].to = u /\ ~table[i].read}
\* Row numbers, the newest first.
Descending(S) ==
  CHOOSE s \in [1..Cardinality(S) -> S] :
    /\ \A i \in S : \E k \in DOMAIN s : s[k] = i
    /\ \A j, k \in DOMAIN s : j < k => s[j] > s[k]
UnderWay == Cardinality(marks) + Cardinality({t \in Tabs : sweeps[t] # "none"})

-----------------------------------------------------------------------------
(* NotificationService.handleDomainEvent *)

At(h, place) == handler[h].at = place

Recipients(from, to) == to \ {from}

\* Rows that are stored or still to be stored.
Claimed == Len(table) +
  MapThenSumSet(LAMBDA h : Cardinality(handler[h].to), {g \in Handlers : At(g, "store")})

Published(h, from, to, about) ==
  /\ At(h, "idle")
  /\ Recipients(from, to) # {}
  /\ Claimed + Cardinality(Recipients(from, to)) <= MaxRows
  /\ Repeats \/ \A g \in Handlers :
       ~At(g, "idle") => handler[g].from # from \/ handler[g].about # about
  /\ handler' = [handler EXCEPT ![h] =
       [at |-> "store", from |-> from, to |-> Recipients(from, to), about |-> about, rows |-> {}]]
  /\ UNCHANGED <<table, online, pushes, tabVars, marks, sweeps, losses, due, swept>>

Stored(h) ==
  /\ At(h, "store")
  /\ LET new == [i \in 1..Cardinality(handler[h].to) |->
           [to |-> SetToSeq(handler[h].to)[i], from |-> handler[h].from,
            about |-> handler[h].about, read |-> FALSE]]
         ids == Len(table) + 1 .. Len(table) + Len(new)
     IN  /\ table' = table \o new
         /\ handler' = [handler EXCEPT ![h].at = "find", ![h].rows = ids]
         /\ due' = due \cup
              {p \in online \X ids : loading[p[1]] = "loaded" /\ table'[p[2]].to = Owner[p[1]]}
  /\ UNCHANGED <<online, pushes, tabVars, marks, sweeps, losses, swept>>

\* The rows that would be pushed if the order were forgotten: the oldest.
OldestOf(n, ids) ==
  {i \in ids : Cardinality({j \in ids : j < i}) < n}
\* orderBy createdAt desc, take n.  Rows of one createMany are as new as each
\* other, but there are never more of them than are taken.
NewestOf(n, ids) ==
  {i \in ids : Cardinality({j \in ids : j > i}) < n}

Matching(h) ==
  {i \in RowIds :
    /\ table[i].to \in handler[h].to
    /\ table[i].from = handler[h].from
    /\ table[i].about = handler[h].about
    /\ ~table[i].read}

Found(h) ==
  /\ At(h, "find")
  /\ handler' = [handler EXCEPT ![h].at = "push",
                                ![h].rows = NewestOf(Cardinality(handler[h].to), Matching(h))]
  /\ UNCHANGED <<table, online, pushes, tabVars, marks, sweeps, losses, due, swept>>

\* Each row to the room of its recipient, newest first.
PushesTo(t, ids) ==
  LET mine == {i \in ids : t \in RoomOf(table[i].to)}
  IN  [k \in DOMAIN Descending(mine) |-> [kind |-> "created", id |-> Descending(mine)[k]]]

Pushed(h) ==
  /\ At(h, "push")
  /\ pushes' = [t \in Tabs |-> pushes[t] \o PushesTo(t, handler[h].rows)]
  /\ handler' = [handler EXCEPT ![h] = Idle]
  /\ UNCHANGED <<table, online, tabVars, marks, sweeps, losses, due, swept>>

\* A query rejects: the failure is logged and swallowed.
HandlerFailed(h) ==
  /\ At(h, "store") \/ At(h, "find")
  /\ handler' = [handler EXCEPT ![h] = Idle]
  /\ due' = {p \in due : p[2] \notin handler[h].rows}
  /\ UNCHANGED <<table, online, pushes, tabVars, marks, sweeps, losses, swept>>

-----------------------------------------------------------------------------
(* NotificationContext *)

Opened(t) ==
  /\ loading[t] = "closed"
  /\ loading' = [loading EXCEPT ![t] = "listing"]
  /\ UNCHANGED <<rowVars, online, pushes, answer, items, badge, marks, sweeps, losses, due, swept>>

Connected(t) ==
  /\ loading[t] # "closed" /\ t \notin online
  /\ online' = online \cup {t}
  /\ UNCHANGED <<rowVars, pushes, tabVars, marks, sweeps, losses, due, swept>>

\* What is on its way is lost; the next connection does not refresh.
ConnectionLost(t) ==
  /\ t \in online /\ losses < MaxLosses
  /\ losses' = losses + 1
  /\ online' = online \ {t}
  /\ pushes' = [pushes EXCEPT ![t] = <<>>]
  /\ due' = {p \in due : p[1] # t}
  /\ UNCHANGED <<rowVars, tabVars, marks, sweeps, swept>>

\* listMine
ListRead(t) ==
  /\ loading[t] = "listing"
  /\ loading' = [loading EXCEPT ![t] = "listed"]
  /\ LET mine == {i \in RowIds : table[i].to = Owner[t]}
         ordered == Descending(mine)
     IN  answer' = [answer EXCEPT ![t].list =
           [k \in DOMAIN ordered |-> [id |-> ordered[k], read |-> table[ordered[k]].read]]]
  /\ UNCHANGED <<rowVars, online, pushes, items, badge, marks, sweeps, losses, due, swept>>

\* The page replaces what was pushed before it came.
ListShown(t) ==
  /\ loading[t] = "listed"
  /\ loading' = [loading EXCEPT ![t] = "counting"]
  /\ items' = [items EXCEPT ![t] = answer[t].list]
  /\ answer' = [answer EXCEPT ![t] = NoAnswer]
  /\ UNCHANGED <<rowVars, online, pushes, badge, marks, sweeps, losses, due, swept>>

\* unreadCount
CountRead(t) ==
  /\ loading[t] = "counting"
  /\ loading' = [loading EXCEPT ![t] = "counted"]
  /\ answer' = [answer EXCEPT ![t].count = Cardinality(Unread(Owner[t]))]
  /\ UNCHANGED <<rowVars, online, pushes, items, badge, marks, sweeps, losses, due, swept>>

CountShown(t) ==
  /\ loading[t] = "counted"
  /\ loading' = [loading EXCEPT ![t] = "loaded"]
  /\ badge' = [badge EXCEPT ![t] = answer[t].count]
  /\ answer' = [answer EXCEPT ![t] = NoAnswer]
  /\ UNCHANGED <<rowVars, online, pushes, items, marks, sweeps, losses, due, swept>>

\* The bell hides errors: the refresh ends where it is.
RefreshFailed(t) ==
  /\ loading[t] \in {"listing", "listed", "counting", "counted"}
  /\ loading' = [loading EXCEPT ![t] = "loaded"]
  /\ answer' = [answer EXCEPT ![t] = NoAnswer]
  /\ UNCHANGED <<rowVars, online, pushes, items, badge, marks, sweeps, losses, due, swept>>

\* Pushed twice, a notification would be there twice.
PrependedAlways(list, i) == <<[id |-> i, read |-> FALSE]>> \o list
Prepended(list, i) ==
  IF \E k \in DOMAIN list : list[k].id = i THEN list
  ELSE <<[id |-> i, read |-> FALSE]>> \o list

\* One notification would be read for all of them.
ReadInAll(list, i) == [k \in DOMAIN list |-> [list[k] EXCEPT !.read = TRUE]]
ReadIn(list, i) ==
  [k \in DOMAIN list |-> IF list[k].id = i THEN [list[k] EXCEPT !.read = TRUE] ELSE list[k]]

OneLess(n) == IF n = 0 THEN 0 ELSE n - 1

PushHeard(t, kind) == pushes[t] # <<>> /\ Head(pushes[t]).kind = kind

CreatedHeard(t) ==
  /\ PushHeard(t, "created")
  /\ pushes' = [pushes EXCEPT ![t] = Tail(@)]
  /\ items' = [items EXCEPT ![t] = Prepended(@, Head(pushes[t]).id)]
  /\ badge' = [badge EXCEPT ![t] = @ + 1]
  /\ UNCHANGED <<rowVars, online, loading, answer, marks, sweeps, losses, due, swept>>

ReadHeard(t) ==
  /\ PushHeard(t, "read")
  /\ pushes' = [pushes EXCEPT ![t] = Tail(@)]
  /\ items' = [items EXCEPT ![t] = ReadIn(@, Head(pushes[t]).id)]
  /\ badge' = [badge EXCEPT ![t] = OneLess(@)]
  /\ UNCHANGED <<rowVars, online, loading, answer, marks, sweeps, losses, due, swept>>

-----------------------------------------------------------------------------
(* markRead: one request of a tab about a notification at a time *)

MarkClicked(t, k) ==
  /\ UnderWay < MaxMarks
  /\ k \in DOMAIN items[t] /\ ~items[t][k].read
  /\ \A m \in marks : m.tab # t \/ m.id # items[t][k].id
  /\ marks' = marks \cup {[by |-> Owner[t], tab |-> t, id |-> items[t][k].id, at |-> "sent"]}
  /\ UNCHANGED <<rowVars, online, pushes, tabVars, sweeps, losses, due, swept>>

MarkedElsewhere(u, i) ==
  /\ Remote
  /\ UnderWay < MaxMarks
  /\ marks' = marks \cup {[by |-> u, tab |-> Elsewhere, id |-> i, at |-> "sent"]}
  /\ UNCHANGED <<rowVars, online, pushes, tabVars, sweeps, losses, due, swept>>

Step(m, place) == marks' = (marks \ {m}) \cup {[m EXCEPT !.at = place]}

\* updateMany where the row is the user's and unread.
MarkWritten(m) ==
  /\ m.at = "sent"
  /\ IF m.id \in Unread(m.by)
     THEN table' = [table EXCEPT ![m.id].read = TRUE] /\ Step(m, "written")
     ELSE UNCHANGED table /\ Step(m, "vain")
  /\ UNCHANGED <<handler, online, pushes, tabVars, sweeps, losses, due, swept>>

\* The tabs of the user are told, the one that asked included.
MarkPushed(m) ==
  /\ m.at \in {"written", "vain"}
  /\ Step(m, "done")
  /\ pushes' = IF m.at = "vain" THEN pushes
             ELSE [t \in Tabs |-> IF t \in RoomOf(m.by)
                                  THEN Append(pushes[t], [kind |-> "read", id |-> m.id])
                                  ELSE pushes[t]]
  /\ UNCHANGED <<rowVars, online, tabVars, sweeps, losses, due, swept>>

MarkAnswered(m) ==
  /\ m.at = "done"
  /\ marks' = marks \ {m}
  /\ items' = [t \in Tabs |-> IF t = m.tab THEN ReadIn(items[t], m.id) ELSE items[t]]
  /\ badge' = [t \in Tabs |-> IF t = m.tab THEN OneLess(badge[t]) ELSE badge[t]]
  /\ UNCHANGED <<rowVars, online, pushes, loading, answer, sweeps, losses, due, swept>>

\* The request or its answer is lost, or the query rejects.
MarkLost(m) ==
  /\ m.at \in {"sent", "done"}
  /\ marks' = marks \ {m}
  /\ UNCHANGED <<rowVars, online, pushes, tabVars, sweeps, losses, due, swept>>

-----------------------------------------------------------------------------
(* markAllRead: the button is there while the badge is *)

SweepClicked(t) ==
  /\ UnderWay < MaxMarks
  /\ badge[t] > 0 /\ sweeps[t] = "none"
  /\ sweeps' = [sweeps EXCEPT ![t] = "sent"]
  /\ swept' = swept \cup {Owner[t]}
  /\ UNCHANGED <<rowVars, online, pushes, tabVars, marks, losses, due>>

\* The other tabs are not told.
SweepWritten(t) ==
  /\ sweeps[t] = "sent"
  /\ sweeps' = [sweeps EXCEPT ![t] = "written"]
  /\ table' = [i \in RowIds |-> IF table[i].to = Owner[t] THEN [table[i] EXCEPT !.read = TRUE]
                                                          ELSE table[i]]
  /\ UNCHANGED <<handler, online, pushes, tabVars, marks, losses, due, swept>>

\* All that is shown is read, what came after the update was made included.
SweepAnswered(t) ==
  /\ sweeps[t] = "written"
  /\ sweeps' = [sweeps EXCEPT ![t] = "none"]
  /\ items' = [items EXCEPT ![t] = [k \in DOMAIN @ |-> [@[k] EXCEPT !.read = TRUE]]]
  /\ badge' = [badge EXCEPT ![t] = 0]
  /\ UNCHANGED <<rowVars, online, pushes, loading, answer, marks, losses, due, swept>>

-----------------------------------------------------------------------------

InboxNext ==
  \/ \E h \in Handlers :
       \/ \E from \in Users, to \in SUBSET Users, about \in Subjects :
            Published(h, from, to, about)
       \/ Stored(h) \/ Found(h) \/ Pushed(h) \/ HandlerFailed(h)
  \/ \E t \in Tabs :
       \/ Opened(t) \/ Connected(t) \/ ConnectionLost(t)
       \/ ListRead(t) \/ ListShown(t) \/ CountRead(t) \/ CountShown(t) \/ RefreshFailed(t)
       \/ CreatedHeard(t) \/ ReadHeard(t)
       \/ \E k \in DOMAIN items[t] : MarkClicked(t, k)
       \/ SweepClicked(t) \/ SweepWritten(t) \/ SweepAnswered(t)
  \/ \E u \in Users, i \in RowIds : MarkedElsewhere(u, i)
  \/ \E m \in marks : MarkWritten(m) \/ MarkPushed(m) \/ MarkAnswered(m) \/ MarkLost(m)

InboxSpec == InboxInit /\ [][InboxNext]_inboxVars

-----------------------------------------------------------------------------
(* Properties *)

\* "The client applies by id": pushed twice, or pushed and in the page, a
\* notification is in the list once.
NoDuplicates ==
  \A t \in Tabs : \A j, k \in DOMAIN items[t] : items[t][j].id = items[t][k].id => j = k

\* "A recipient who is online gets it at once": a row stored while a tab was
\* connected and loaded is in its list when everything has arrived, unless it was
\* read elsewhere meanwhile, whatever older rows match the query that reads it back.
NothingMissed ==
  (\A h \in Handlers : At(h, "idle")) =>
    \A p \in due : (pushes[p[1]] = <<>> /\ ~table[p[2]].read) =>
      \E k \in DOMAIN items[p[1]] : items[p[1]][k].id = p[2]

\* What a tab shows or is sent is a row of its own user, and none about what the user
\* did ("never a notification for one's own action"); what it shows as read is read in
\* the database, also when requests, their answers and pushes overlap: only
\* markAllRead may run ahead of it.
InboxTrue ==
  \A t \in Tabs :
    /\ \A i \in {items[t][k].id : k \in DOMAIN items[t]}
              \cup {pushes[t][k].id : k \in DOMAIN pushes[t]} :
         table[i].to = Owner[t] /\ table[i].from # Owner[t]
    /\ Owner[t] \notin swept => \A k \in DOMAIN items[t] :
         items[t][k].read => table[items[t][k].id].read
=============================================================================
