# A verification development for SOFO

SOFO is a digital office: channels with realtime messages, voice calls, meetings with live notes,
requests and their approval, projects, a calendar, attendance, files, notifications. The server
(`src/apps/api`, NestJS, Prisma, PostgreSQL, socket.io) is one Node.js process; the client
(`src/apps/web`, React) keeps a copy of what it shows; `src/packages/shared` is the contract
between them. This directory holds TLA+ modules translated from that code, TLC configurations that
check them on small instances, and theorems that TLAPS checks for every value of the constants.

Paths below are relative to `src/`; `api/` stands for `apps/api/src/modules/` and `web/` for
`apps/web/src/`.

## 1. The system

### 1.1 How it runs, and what is hard about that

The server's handlers interleave at every `await`. Nothing in the code takes a lock, and with few
exceptions (the creation of a workspace, the deletion of a file) nothing runs in a transaction: an
operation is a chain of queries, *check, write, audit, announce*, and between any two of them the
queries of any other operation may run, a role may change, a query may reject or the process may die.
In the gateway the state is a handful of Maps in memory; there an await of `client.join` is one
microtask and an await of the database many turns of the event loop, and the difference decides
which handlers can meet.

A client learns of changes on two unordered ways: events over its socket, and the answers to its own
HTTP requests. Events are in order on one connection and lost with it. Each context of the client
merges the two into its list by the id of the items.

What goes wrong in such a system is seldom one line. It is the state read before an await and used
after it, the answer that is older than the event it overwrites, the second device, the reconnect,
the audit row that fails between the commit and the notification. `PROJECT.json` lists these hazards,
each at its line; the properties are aimed at them.

### 1.2 Inventory

| Component | State | Operations | What makes it correct | Module |
|---|---|---|---|---|
| Presence (`api/realtime`) | joined workspaces of each socket, a count for each user and workspace, socket.io rooms | connect, disconnect, `workspace.join`, `workspace.leave` | tracking set and room agree; the count is the number of tracked sockets; rooms know the latest | `Presence` |
| Voice signalling and mesh (`api/realtime`, `web/lib/voice-chat.ts`) | list of participants, peers and connections of each tab | join, leave, mute, offer, answer, disconnect | one side offers; every pair ends up with each other's descriptions; the list is true | `VoiceCall` |
| Typing indicator (`api/realtime`, `web/state/WorkspaceContext.tsx`) | a deadline for each user and channel, one timer of the client | key, send, change of channel, timer, `typing` | who is shown is typing, unless the timer was taken or a command lost | `Typing` |
| Requests (`api/request`) | rows of Request, audit rows, events | create, approve, reject, cancel | nobody decides their own; one outcome; what is reported is what happened | `Approval`, `RequestApproval` |
| Messages (`api/communication`, `web/state/WorkspaceContext.tsx`, `web/lib/message-store.ts`) | rows of Message, the list of each tab | send, edit, delete, approve, remove, read a page, merge it, change of channel and workspace | nothing twice, nothing missing, a live copy is exact | `MessageSync` |
| Notifications (`api/notification`, `web/state/NotificationContext.tsx`) | rows of Notification, list and badge of each tab | store and push, load, mark one, mark all | each once, only one's own, none missed, read means read | `Notifications` |
| Meetings and notes (`api/meeting`, `web/state/MeetingContext.tsx`, `web/features/app/MeetingsView.tsx`) | rows of Meeting, Participant and Note; copy, notes and note field of each tab | create, start, end, archive, join, save a note, poll | lifecycle in order; one note each; nobody's words under another name; the tab settles | `Meetings` |
| Audit (`api/audit`, `web/features/app/AuditView.tsx`) | rows of AuditLog; pages, cursor and filter of the view | record (swallows failures), list by pages, filter | no transition escapes the trail unnoticed; the rows shown have no gap | a step of `RequestApproval` and `Records`; `AuditPages` |
| Authentication, identity (`api/authentication`, `api/identity`, `web/state/AuthContext.tsx`) | sessions, users; one session in the storage of a browser, one in each tab | register, login, logout, validate, expiry | a session that is open is within reach of a logout | `Sessions` |
| Workspaces, members (`api/workspace`) | workspaces, roles, members | create (transaction), invite, set role, remove | the owner is a member; slugs are told apart | `Members` |
| Projects, tasks (`api/project`) | rows of Project and Task | create, update, delete, assign | who has work belongs to the workspace | `Projects`, over `Members` |
| Feedback, attendance, units, channels (`api/feedback`, `api/attendance`, `api/organization`, `api/communication`) | rows, audit rows, notifications | submit, vote, decide, clock in and out, create | once for each key; what is written is reported | `Records` |
| Calendar (`api/calendar`, `web/lib/calendar-view.ts`) | events with a recurrence; dates of meetings, projects and tasks | create, delete, read a window, reminders, month grid | the entries of a window are those of the series that begin in it | `Calendar` |
| Files (`api/file`) | rows and bytes on disk | upload, download, delete | a live row has its bytes whole | `Files` |
| Rate limiter (`apps/api/src/infrastructure/rate-limit`) | counters by key | consume, clean up | no interval passes more than it may | `Limiter` |
| List views (`web/features/app`) | the list a view shows, its requests | load, change, change of workspace | what is shown at rest is what the database holds | `ListViews` |
| Search, admin statistics | none | reads | | loads of `ListViews` |
| Forms, formatting, landing page, packaging | rendering | | | not modelled |

The interactions: a service writes through Prisma and then calls `AuditService.record`, the
`RealtimeBroadcaster` (events to the room `ws:<workspace>`) and the event bus, whose only listener
turns `notification.**` into rows and pushes to the room `user:<id>`. The gateway asks
`AuthorizationService` on each join. In the client, `WorkspaceContext` owns the socket, which
`NotificationContext` and `VoiceContext` share; `MeetingContext` has no events and polls.

## 2. Modules

Every query is one action; what happens between two queries is in the action of the first. `Called`
and its kin begin an operation, and a variable `call` (`handler`, `admitting`) holds its progress.
Where an operation awaits a query, one that rejects is an action of its own (`MembershipFailed`,
`QueryFailed`, `HandlerFailed`, `CallFailed`, `SignInFailed`, `RecordRefused` ...; in the gateway's voice
handlers a rejection is caught and answered as a refusal, `Forbidden`). The exceptions: the calendar is read in one
step, and so is the list of meetings. History variables (`commits`, `overlapped`, `typed`, `reached`, `due`,
`crossed`, `raced`, `overtaken` ...) record what properties speak of; no guard but those of bounds reads them.

Where a definition has a twin right before it named after a mistake (`AddPresenceOnce`,
`AppendMessageAlways`, `MayGoOnAnyone`, `NoteFoundAnyones` ...), the twin is used by no action. It is the
definition with one plausible slip, kept to see that the property meant to notice it does.

### Presence

`rooms` is socket.io's, `joined` is `joinedWorkspaces`, `presence` the Map of `RealtimeService`. A
join is `JoinReceived` (the packet, up to `getMembership`), `MembershipAnswered` or `MembershipFailed` (the
query rejects, nothing catches it, and the handler ends without tracking, refusal or acknowledgement), then
`JoinForbidden`, `JoinRepeated`, or `JoinEnter` (`client.join`) and `JoinFinish` (`trackJoin`, `addPresence`, the
event); a leave is `LeaveExit` and `LeaveFinish`. `Drained` and `PacketTurn` say which steps may begin
while the microtasks of another handler are outstanding: packets of one turn are dispatched together,
a disconnect and a database answer each start a turn, and one turn may bring several answers.
`HandleDisconnect` removes the tracking set and leaves the sweep of its workspaces to `BroadcastOffline`, one at a
time in any order, because the loop awaits. Memberships change whenever a turn may start. `MaxCount` bounds the
count of a user with the joins in progress; a socket is one connection, and one that reconnects is another socket.

As the client of this repository does (`WorkspaceContext.tsx:200`, `:223`), clients send a command without waiting
for the acknowledgement of the one before: any number of commands of one socket is in progress. Four histories
say what came of that. `wants`: what the last command of a socket that did not fail asked for. `crossed`:
that command was sent while an earlier one about the same workspace was in progress. `joinedTwice` and
`leftTwice`: two joins, or two leaves, of one socket of the user stood between the check
(`realtime.gateway.ts:117`, `:136`) and the tracking at once.

Properties: `RoomMatchesTracking` and `RoomViewFresh` hold without exception. `PresenceCount` bounds the count from
above unless `joinedTwice`, and from below unless `leftTwice`: the two mistakes the code makes are its only ones,
and each goes one way. `NoFalseOffline` excepts `leftTwice`, `LastCommandWins` excepts `crossed` (a leave that
overtakes the join before it is ignored, and the socket stays). `JoinSettles` is liveness.

`CountedOncePerSocket` is the comment at `realtime.gateway.ts:117-118` ("must not double-count presence"). The run
`presence_twice` shows it violated: two joins of one socket answered in one turn both pass the check of 119 before
either is tracked at 123.

`OnlineMeansInRoom` is what ADR-004 (lines 51-52) says. The run `presence_ghost` shows it violated: a socket
that disconnects during `getMembership` is tracked and counted after its disconnect was handled.

### Approval and RequestApproval

`Approval` is the abstract workflow: a request is created pending, decisions are taken up only then, an outcome
with none of them left open is final, and audit trail and notifications state only what the request has been. `RequestApproval` is the service: `Called`, `Permitted` or
`Denied`, then `Inserted`, or `Found` (or `Refused`) and `Updated`, then the audit row
(`AuditWritten`, `AuditSwallowed`) and, for a creation, the list of approvers (`RecipientsListed`);
`QueryFailed`, `Crash` (all calls in progress are gone, rows stay) and `RoleChanged` may come between.
The permission of the guard and that of the service are read as one. The update names only the id, as
in the code.

All properties of the run `request` hold however operations overlap. `OutcomeStands` excepts requests that two
calls had both found pending before either wrote (`raced`); `Approval` says the same in its own terms: a decision
is *taken up* while the request is pending and *written* later, so that an outcome is final once no decision taken
up before it is open, and `ImplementsWorkflow` is the refinement of that by every step of the service.
`OutcomeAnnounced` (liveness) excepts calls a crash took. The run `request_twice` shows what the notes
and a unit test deny (`OneOutcome`): two overlapping decisions both commit.

### MessageSync

One channel. `Called`, `Inserted` or `Found`/`Refused` and `Updated`, and `Broadcast`, which is apart
from the write because the code awaits the audit row (or just the answer) in between. `QueryFailed` ends an
operation before its write; `ProcessEnded` ends all of them, with the broadcasts they owe, and every connection. The tab:
`WorkspaceOpened`, `RoomLeft`, `RoomJoined`, `ChannelShown`, `ChannelLeft`, `ChannelSelectedAgain`,
`ChannelCreated`, `PageRead` and `PageMerged` (the page is read at one moment and merged at another),
`Delivered`, `ConnectionLost`. The functions of `message-store.ts` are operators of the same names.
A message is its id, the place of its `createdAt`, the number of its edits and its status. Permissions
and the look-up of the channel, the limit of fifty of a page, replies and attachments are left out.

`NoDuplicates`, `NothingMissed` and `LiveCopyExact` hold. `NothingMissed` is about what the page would show the
tab now; it leaves out tabs whose list was emptied by selecting the shown channel again, because these do miss
messages, and members where messages are approved, because an approval does not bring them (section 5).
`LiveCopyExact` leaves out messages two operations on which overlapped.

### VoiceCall

The gateway: `JoinReceived` and, after the permission, `Admitted` or `Forbidden`; `MuteReceived`,
`SdpRelayed`, `Dropped` (a leave and a disconnect end the same way). The engine of a tab:
`JoinClicked`, `MediaGranted`, `MediaDenied`, `LeaveClicked`, `MuteToggled`, `ParticipantsHeard` (the
beginning of `syncParticipants`), `OfferReady` (an awaited offer is there and the reconciliation goes on
with *its* list), `OfferHeard`, `AnswerReady`, `AnswerHeard`, `LeftHeard`, `Disconnected`. Promises of
a closed connection never settle: what awaits them is dropped. A description is the tab that made it
and a number. The camera is left out: it does not quite travel the way of the microphone, since one that is
on at the join is listed as off until it is toggled (`voice-chat.ts:124`, `realtime.gateway.ts:181`). ICE and media
are left out too.

People join, mute, leave, close and join again whenever they like, also before the gateway has admitted them. Two
histories say where that goes wrong on the list: `refused`, the latest join of a tab was refused (the tab does not
notice and counts itself in), and `overtaken`, a leave, disconnect or mute of the tab was handled while a join of
its own waited for its permission, so the join undoes what came after it.

`NoGlare` and `NothingAfterLeaving` hold always. The others are about a call at rest and tabs that are not overtaken:
`ListIsTrue` about all of them, the mesh about those in the call for their person and for the gateway. `MeshFollowsList`
holds in a call of two and breaks with three tabs, which is `voice_stale`: a reconciliation that awaits an offer
goes on with its old list, or never. `FullMesh` is the comment at `voice-chat.ts:4-5` and breaks with two tabs
as soon as one of them joins again, which is `voice_rejoin`: lists and answers of the former call are taken for those
of the new one. `FirstCallsConnect` says that in a call of two nothing else keeps a pair apart.

### Notifications

`Published`, `Stored`, `Found` (the read-back by recipient, actor, type and reference, the newest as
many as there are recipients), `Pushed`, `HandlerFailed`. The tab: `Opened`, `Connected`, `ListRead`,
`ListShown`, `CountRead`, `CountShown`, `RefreshFailed`, `CreatedHeard`, `ReadHeard`; a mark is
`MarkClicked`, `MarkWritten`, `MarkPushed`, `MarkAnswered` or `MarkLost`, and one made on a device
without a tab begins with `MarkedElsewhere`; `SweepClicked`, `SweepWritten`, `SweepAnswered` are
`markAllRead`. The id of a row is its place in the table and its `createdAt`; the limit of fifty items
is left out; `Descending` is the order of both queries. A tab marks an item once at a time, as its list does not offer it twice.

`InboxTrue` says both that a tab is sent and shows only rows of its own user about what others did, and
that it shows as read only what is read. It leaves out users who used `markAllRead`, which runs ahead of
the database.

With `Repeats = TRUE` (an actor repeats an event while its first one is still being handled)
`NothingMissed` fails: the read-back of one handler takes the newest rows, which may be the other's, and
pushes those. The checked instance says `FALSE`, which is an assumption on the actors.

### Meetings

One meeting. The service: `MeetingCreated`; `Called`, `Found` (status), `ParticipantFound`,
`NoteLookedUp`, then `StatusWritten` and `AuditWritten`, `Joined`, or `NoteWritten`; `CallFailed`;
`Answered` is what the tab does with the answer. The tab: `WorkspaceOpened` (`loadMeetings`),
`MeetingOpened`, `MeetingLeft`, `ViewReopened`, `PollRead`, `PollMerged`, `PollFailed`, `ButtonClicked`,
`Typed`, `TimerFired`, `Blurred`. `MergeNotes` is `mergeNotes`; `NotesSet` is `setNotes` with the effect
of the view that puts the person's own note into the field. People without a tab call the service
directly (`CalledDirectly`, `SavedDirectly`).

A text is the set of what was typed into it, and only appended to. The list of meetings is loaded in
one step. A save reads host and participant in the step that searches the note: neither is ever taken
back, so an earlier reading allows no more than a later one. Permissions do not change. A meeting that
is open beside this one is not modelled, nor are its notes and field.

`OnlyTheInvolvedWrite`, `OneNoteEach` (for people whose saves do not overlap), `WordsAreTheirs`,
`ShownOnce`, `NoStageSkipped`, `LifecycleForward` (while no two transitions have overlapped),
`TabSettles` (liveness).

### Files

`FileCalled` begins an upload, a download or a deletion; `FileRefused` is a check, a query or a look-up
that ends it. `WriteBegun` and `WriteEnded` are `writeFile`, which can stop half-way (`UploadFailed`);
`FileInserted` the row. `RowFound` is `findFirst` of the two others, `Marked` the transaction, `Unlinked`
or `UnlinkSwallowed` the removal of the bytes. `Opened` and `OpenFailed` are the stream of a download
getting to its file; when the file is gone by then, the stream's `error` event has no listener and the
process ends, as it does in `FileCrash`. Validation of size and type, and the names, are left out.

### Sessions

`AuthContext` of every tab of a browser against the service: `TabOpened` (the session is read from the
storage), `RegisterSent`, `EmailFree`, `AccountCreated`, `LoginSent`, `SessionCreated`, `LoginAnswered`
(memory and storage), `LoginAnswerLost`, `LogoutSent` (with the token *of the storage*), `Revoked`,
`LogoutAnswered` (the storage is cleared, whatever is in it by then), `LogoutOffline` and `LogoutFailed`
(nothing is cleared), `Expired`, `TabClosed`. A sign-in whose tab is closed goes on in the server (`adrift`,
`AdriftGoesOn`), and its session is one nobody ever learns of (`AdriftSession`). A token is random, so a login takes a
fresh one; `abandoned` records the tokens nobody can sign out of any more.

### Members and Projects

A `MemberAsks` record is a call with its arguments. `MemberCalled`, `MemberPermitted` (the permission of
the caller's role at that moment), `MemberFound` (the look-up of the member and of the owner), then
`Invited`, `RoleSet` or `MemberRemoved`; `SlugTried` is one turn of `unusedSlugFor`, `OfficeCreated` the
transaction. A removed membership is kept as not current, so that its id is used once. `Projects`
extends `Members`: `TaskCalled`, `TaskPermitted`, `TaskFound` (project, and task), `AssigneeFound`, then
`ProjectWritten`, `ProjectDeleted` (with its tasks) or `TaskWritten`, while memberships change.

### Records

Seven operations of four services as one machine: an operation is a record that says which table it
writes, whether it inserts or closes a row, what it looks for before (`looks`), whether a unique key
stands behind (`unique`) and what follows the write (`report`). `RecordCalled`, `RecordPermitted`,
`Looked`, `RowInserted` or `RowClosed`, then `Audited` and `Told`, each of which may fail;
`RecordRefused`, `Midnight`, `RecordsProcessDies`. The key of an attendance record is the day at the
moment of the call. `OncePerKey` excepts keys that two calls looked at before either wrote (`contended`):
there a decision overwrites a decision, as in `RequestApproval`, and the unique key turns a second vote
into an error. That a unit names a parent of its own workspace, and that a channel is private or not,
are left out.

### ListViews and AuditPages

A view is a record of habits: how its operations show their change (load again, change the copy when
answered, change it before asking), which late answers it ignores, whether it empties the list. `Views`
lists the twelve views that load a list, each with its lines in `map`; `Switch`, `Refresh`, `Change`,
`Served`, `Loaded`, `LoadFailed`, `Changed`, `ChangeFailed` are the same for all. A list is the set of
changes it shows. `ListRight` has two parts: a view that ignores late answers shows nothing of another
workspace, whatever crosses; and if no two answers could pass each other since the list was last loaded
undisturbed (`crossed`) and none was lost (`failed`), it shows what the server holds.
`AuditPages` is the server's page (`PageRead`, by the id of the last row given) and the view's
(`PageShown`): rows, cursor, filter. `mixed` records that a page of another filter was added.

### Calendar, Limiter, Typing

`Calendar` keeps the rows; `getCalendar`, `listReminders`, `expandRecurrence`, `countRecurrenceOccurrences` and
`buildMonthGrid` are operators, and `CalendarExact` compares them with definitions by quantifiers, in every
state and for every window of the instants: a window shows every occurrence that begins in it and none that does
not overlap it (`WindowRight`). `OverlapShown`, that a series shows every occurrence that overlaps the window, is the
comment at `calendar.service.ts:336` and is violated (`calendar_overlap`). A day has `DayTicks` ticks, which leaves
daylight saving out.
`Limiter` is `consumeRateLimit`, which never waits, with the clean-up of a store of more than `MaxStore`
entries; `passed` keeps at which instant each request passed, and `LimitHolds` counts them in every stretch of
`Window` instants. `Typing`: `Key`, `Submit`, `Submitted`, `SubmitFailed`,
`TimerFires`, `GoTo`, `ConnectionLost` of the client, whose one timer serves all channels; `handleTyping` and
`TypingRefused` of the gateway, whose entries expire when their deadline passes, which nobody announces. Times
are not counted: an entry may expire once its owner's timer has ended. `misled` records the channels whose end
is not announced.

## 3. Runs

| Run | Instance | Shows |
|---|---|---|
| `presence` | two devices of a user, one workspace, three handlers at once, queries that fail, clients that never wait | room, tracking and last broadcast agree; counts go wrong in the two known ways only; every join ends |
| `presence_ghost` | three sockets of two users, three handlers | *violation*: a closed socket keeps its user online |
| `presence_twice` | two sockets, three handlers | *violation*: a user counted more often than they have sockets |
| `request` | two users, one request, two overlapping calls, changing roles, failures and crashes | duties separated, only facts reported, trail complete, a second outcome only after a race, refinement of `Approval`, decisions announced |
| `request_twice` | three users, two overlapping calls | *violation*: two outcomes |
| `message_race` | a moderator's tab, one message, two overlapping operations, failures and crashes | nothing twice or missed, live copies exact |
| `call_and_inbox` | *call*: two tabs, three calls and one toggle between them; *inbox*: two users, one tab, two events, one mark, one loss, other devices | no glare; list and mesh agree, first calls connect; each notification once, none missed, read means read |
| `voice_stale` | three tabs, three calls | *violation*: a reconciliation goes on with an old list, or never |
| `voice_rejoin` | two tabs, three calls | *violation*: a tab that joined again stays unconnected |
| `meeting` | *notes*: a host with a tab, a colleague without, two calls, one poll, two pieces of text; *status*: two managers, one with a tab, all transitions and joins, two calls | notes, their authors and what the tab shows; stages in order |
| `office_services` | see below | files, sessions, owners, assignees, records, lists, pages, calendar, limits, typing |
| `calendar_overlap` | the calendar of `office_services` | *violation*: an occurrence under way when the window begins is left out |

`call_and_inbox`, `meeting` and `office_services` run parts that share no state, or halves of one module: a
behaviour picks one part at the start and runs it alone, so the states are the sum of those of the parts, not the product. The instances
of `office_services`: two files and three calls on them; two tabs and three logins; two persons, two
workspaces, three memberships and two calls (one workspace has all three memberships, or two share
them); one project and one task with two calls, of which one may change memberships; votes and decisions,
attendance over one midnight, and names, each with two calls and at most two rows of a name; each of the
twelve views with three requests, two changes and two mounts; four audit rows, pages of one, one change of
filter, three requests; one event of any recurrence over sixteen ticks of two to a day, with starts and
ends at the edges of days and of the first two weeks; two clients, a limit of two in a window of two
ticks, a store cleaned up above one entry, three requests in an instant; two typists, two channels, three
keys, three commands under way. `Symmetry` exchanges persons (who are also the clients and typists), calls,
and the requests of a view: no definition names one of them or orders them. Deadlock is not checked there,
since every part comes to an end of its bounds.

Why these bounds are enough for what they are to show. A race needs two operations and, where a third party
matters (an approver who is not the requester, a second device and another user), a third actor; two calls in
progress give every order of two chains of queries, and more calls only more of the same kind of overlap. One
workspace, request, message, meeting: the code never relates two of a kind but where the README says so (the
sweep of a disconnect goes workspace by workspace; `RoomMatchesTracking` and `RoomViewFresh` are proved for any
number). One page, one poll and one connection lost meet every point of the operations beside them. Bounds that
only keep the state space finite: `MaxCount`, `MaxWire`, `MaxRows`, `MaxMarks`, `MaxLosses`, `MaxJoins`,
`MaxMutes`, `MaxBody`, `MaxTyped`, `Calls`, `Handlers`, `Polls`, `LastDay`, `LastNow`, `LastTick`, `LastRow`,
`LastFilter`, `MaxChanges`, `MaxSwitches`, `MaxBurst`, `MaxKeys`, `MaxWaiting`, the ids of files, tokens,
memberships, and the two parts of `MCMeetings` (a tab opens its workspace again in the status part only).
`MaxJoins` and `MaxMutes` count the calls and toggles of all tabs together; no theorem assumes anything of them.
Deadlock is checked where the system never stops, which is `request`, `request_twice` and `message_race`;
elsewhere sockets are used up, bounds are reached, or an archived meeting has nothing left to do.

Fairness. `Presence`: weak fairness of the continuations of a handler (the event loop runs microtasks)
and strong fairness of the database's answers, which only compete with other turns. `RequestApproval`:
weak fairness of every query of a call: Prisma answers or rejects. `Meetings`: weak fairness of a poll
being made (`setInterval`) and strong fairness of its merge: polls may fail again and again, but not all of
them. `TabSettles` asks nothing of the operations of the service, and assumes that the person stops
leaving the field and opening the meeting, each of which may put an older copy into the field. The modules
of `office_services` state no fairness and no liveness: what they promise is about every moment.

Every property has been seen to fail under one slip in a definition it is about (`mutants` in
`PROJECT.json`).

## 4. Proofs

`PresenceProofs` (of `Presence`, `Typing`), `RequestProofs`, `MessageProofs`, `VoiceProofs`,
`NotificationProofs`, `MeetingProofs`, `ServiceProofs` (`Files`, `Sessions`, `Records`, `Members`, `Projects`,
`Limiter`) and `ViewProofs` (`ListViews`, `AuditPages`, `Calendar`): for any sets of sockets, users, workspaces, requests,
calls, tabs and any bounds. The only assumptions are the named ones on the constants, and `~Repeats` in the theorem
about events that are not repeated while they are handled, as in the run. The theorems about presence, requests and
the call assume nothing of clients or people: what the code lets go wrong is in the histories of the properties
(`crossed`, `joinedTwice`, `leftTwice`, `raced`, `overtaken`), and the theorem is that nothing else does.

| Theorem | Says | Rests on |
|---|---|---|
| `PresenceProofs!TypeCorrect` | `TypeOK`, so no count is negative | |
| `PresenceProofs!RoomsAreTracked` | `RoomMatchesTracking` | `RoomInv`: also that the gap of a leave never meets the second half of a join (`TurnsDoNotMix`), without which a leave could undo the room between `client.join` and `trackJoin`, and that a new socket has left no trace |
| `PresenceProofs!RoomViewsAreFresh` | `RoomViewFresh` | the same and the broadcast at each change |
| `PresenceProofs!LastCommandAlwaysWins` | `LastCommandWins` | `CommandsStand`: unless its last command crossed one before it, a socket has at most one command about a workspace under way, it is that one, and when it has none, what the server holds is what the last one asked for |
| `PresenceProofs!PresenceIsCounted`, `NobodyIsFalselyOffline` | `PresenceCount`, `NoFalseOffline` | `CountInv`: of a user not recorded, a handler in its gap is alone there and its check still holds (`GapsAgree`), and a sweep is only of closed sockets; a count then changes with one element of a finite set, and where a history is set, in one direction only |
| `RequestProofs!TypeCorrect`, `DutiesAreSeparate` | `TypeOK`, `SeparationOfDuties` | `DutiesInv`: what `findFirst` found of the requester still holds at the update, since the requester never changes and a row is inserted once |
| `RequestProofs!ReportsAreFacts`, `TrailIsComplete` | `OnlyFactsReported`, `TrailComplete` | what a call is about to report is committed |
| `RequestProofs!OutcomeIsFinal`, `WorkflowIsImplemented` | `OutcomeStands`, the refinement of `Approval` | `OutcomeInv`: of a request without a race one call at a time is about to write (`OneDecides`), what it found still holds (`StillPending`), and the row keeps what was written (`OutcomeKept`); the refinement maps the calls between `findFirst` and their update to the decisions taken up, and needs neither |
| `MessageProofs!TypeCorrect`, `NeverTwice` | `TypeOK`, `NoDuplicates` | `RowsFit`, `Holds`: rows have places of their own, and events, pages and lists hold only copies of rows there are (`Known`, which grows by an insert only); so a merged list can be put in order, and what `filter` leaves is what it should leave (`InOrderIs`, `DeleteIs`) |
| `MessageProofs!NeverMissed` | `NothingMissed` | `NoneLost`: what a tab in the room is owed is in its list, in its page, in an event to it, or in an operation that will broadcast it (`OnItsWay`), and only a deletion takes it away |
| `MessageProofs!LiveAlwaysExact` | `LiveCopyExact` | `Exact`: the events on their way lead from what is shown to what the database had, and the one broadcast still to come, if there is one, to what it has (`Reaches`, `Current`); operations that do not overlap are one at a time (`Apart`) |
| `VoiceProofs!TypeCorrect`, `GlareFree`, `NothingLeftBehind` | `TypeOK`, `NoGlare`, `NothingAfterLeaving` | an offer in preparation or pending goes to the greater id, and what is awaited belongs to a connection that is there |
| `VoiceProofs!ListAlwaysTrue` | `ListIsTrue` | `CallInv`: the packets of a tab that are still to be handled decide where the gateway has to have it before each of them (`WantsOut`, `WantsIn`: joins and goodbyes alternate, `Orderly`), and it is there: out of the list, on it, or about to be admitted (`Placed`); the last packet that tells of the microphone tells what it is, and when none is left the list shows it (`Told`) |
| `NotificationProofs!InboxNeverDouble`, `InboxAlwaysTrue` | `NoDuplicates`, `InboxTrue` | `InboxInv`: list, page and pushes of a tab are over the rows of its user (`Own`), the list and the page have each once, and as read only those that are or that a sweep has asked for (`ToldRead`); both sets only grow (`StaysTrue`); a mark is about a row its tab shows, and read once its update is made (`MarkTrue`) |
| `NotificationProofs!InboxNeverMisses` | `NothingMissed` | `DeliveryInv`: busy handlers differ in actor or subject (`Apart`), so between `createMany` and `findMany` the rows of a handler are the newest that match (`Fresh`, `FindsItsRows`); a row that is owed is read, shown, pushed, or held by a handler (`Coming`) |
| `MeetingProofs!TypeCorrect`, `StagesInOrder`, `ForwardUnlessRaced`, `NotesOfTheInvolved` | `TypeOK`, `NoStageSkipped`, `LifecycleForward`, `OnlyTheInvolvedWrite` | `IInv`: what a call about to write has seen *has been* (`Earned`), and while nothing overlapped still is (`Alone`); who may write stays involved |
| `MeetingProofs!OneNoteAlways` | `OneNoteEach` | `SavesApart`: a person whose saves do not overlap has one note at most, and none while a save that found none is about to write |
| `MeetingProofs!WordsAlwaysTheirs`, `ShownAlwaysOnce` | `WordsAreTheirs`, `ShownOnce` | `WordsInv`: rows, calls, copies, polls, lists and fields hold only what their person typed (`TrueNotes`, which grows with the typing), and no list two notes of one id; `MergeKeeps`: a merge adds neither |
| `ServiceProofs!BytesAlwaysFollowRows`, `LiveRowsAlwaysHaveBytes` | `BytesFollowRows`, its first half | `FilesInv`: each call is at a place its file's row and bytes allow (`CallsInStep`), and a file has one upload (`OneUpload`), since its name is random |
| `ServiceProofs!NoSessionIsForgotten` | `NoSessionForgotten` | `SessionsInv`: a token a tab is waiting for is that of a login, and one whose revocation is on its way has ended (`SentIsThere`) |
| `ServiceProofs!OwnerAlwaysStays`, `SlugsAlwaysDense` | `OwnerStays`, slugs of one name without gaps | `MembersInv`: what a removal found is still not the owner when it deletes (`RemovalsSpareOwner`), because owners never change; what `unusedSlugFor` found taken stays taken |
| `ServiceProofs!OncePerKeyAlways`, `ReportsAlwaysFollow` | `OncePerKey`, `ReportsFollow` | `RecordsInv`: what a call has looked at still is so unless its key is contended (`LooksStillTrue`), and what it has to report is on its way (`ReportsFollow` is inductive) |
| `ServiceProofs!AssigneesAlwaysBelong` | `AssigneesBelong` | `ProjectsInv`: the assignee a call looked up was a member then (`AssigneesLookedUp`), what it found of project and task still is so or is gone (`FoundStands`), and a creation is of an id nobody has had (`CreationsAreNew`) |
| `ViewProofs!ListAlwaysRight` | `ListRight` | `ViewInv`: while nothing crossed, one load at most will be shown (`NoneCrosses`), and what it read, or what is shown, is behind the server by changes whose answer is still to come and ahead of it by those shown before they are carried out (`LoadNearly`, `ListNearly`); a guarded view shows no other workspace's rows (`ShowsNoGhost`) |
| `ViewProofs!PagesAlwaysContiguous` | `PagesContiguous` | `PagesInv`: a first page is alone on its way into an empty list, a later one goes on after a row that is shown (`FirstPageAlone`, `LaterPagesFit`), and what is shown has no gap and ends at the cursor (`RowsGapless`); that a page has an oldest row is the well-foundedness of the numbers |
| `ViewProofs!CalendarAlwaysExact` | `CalendarExact` | `CalendarInv`: a stored row is one `createEvent` accepts; the division by a step of any length is first shown to be a division (`Quotient`, `DivisionIs`), from which the first index is neither rounded below nor above the window (`FirstIndexIs`), the query passes over nothing (`QueryExact`), and the occurrences are counted by a bijection (`CountIs`) |
| `PresenceProofs!TypingAlwaysTrue` | `TypingTrue` | `TypingInv`: of the commands of a tab about a channel the last one not yet carried out says what is true (`LastToldIsTrue`), unless its timer was taken |
| `ServiceProofs!LimitAlwaysHolds` | `LimitHolds` | `LimiterInv`: a client without an entry has no window that still counts (`Unwindowed`); one with an entry has passed what it counts in the open window and no more than the limit in what can still be in a stretch of it before (`Windowed`) |

Each proof goes the same way: a lemma says of what kind a step is (a call begins, walks on, ends, writes this
row; or none of it), one lemma per part of the invariant goes through the kinds, and the theorem joins them. The
typing invariant of a module is the first conjunct of the one that is proved; the configurations leave it out.
That of `Notifications` is proved without the bound on the rows (`Typed`): the bound adds up what all handlers
have claimed, a fold the provers cannot unroll; the whole of it, `InboxTypes`, holds on the instance when it is
added. Where an operator is a recursive function over a list (`MergeNotes`, `DeleteMessage`), or chooses an
order (`InOrder`, `Descending`), what it yields for every list is proved by the least place at which it would be wrong
(`UpTo`, from the well-foundedness of the numbers).

Model-checked only: liveness (`JoinSettles`, `OutcomeAnnounced`, `TabSettles`), which is beyond the provers, and the
two properties of the mesh, `MeshFollowsList` and `FirstCallsConnect`, which are about calls of two: with three tabs the
code breaks the first. Every other invariant and action property of the passing runs is stated by a theorem.

## 5. Where code and documents disagree

Six disagreements are shown by runs (`findings`): the ghost of presence, the user counted twice, two decisions of one
request, the reconciliation that goes on with an old list, the tab that joins a call again and stays unconnected,
and the occurrence under way that a window of the calendar leaves out. Others were met while modelling; the models
contain the behaviour, and the properties are stated so that they are true of it.

- *Presence.* A `workspace.join` whose `getMembership` rejects is neither acknowledged nor refused
  (`realtime.gateway.ts:113`); a leave that overtakes the join before it is ignored, and the socket stays in the room.
- *Requests.* A process that ends between the commit of a decision and its event (`request.service.ts:159`) loses the
  notification of the requester for good.
- *Badge.* `NotificationContext.tsx:81` and `:100`: one click lowers the badge twice, when its own
  `notification.read` arrives and when the request is answered; a notification pushed twice raises it
  twice. ADR-005:51 calls it the number of unread ones. `markAllRead` tells no other device.
- *Order of moderation events.* `realtime.broadcaster.ts:10-14` and ADR-004:47-48: event order follows commit
  order. `decideMessage` awaits an audit insert between the two (`communication.service.ts:295`, `:315`).
- *Messages that wait for review* are broadcast to every member (`communication.service.ts:103` against
  `:161`, where the page hides them), and approval (`:263`) does not bring them to a tab that does not have
  them, because `updateMessageStatus` only changes what is there (`message-store.ts:19`).
- *Channels.* Selecting the shown channel empties its list for good (`WorkspaceContext.tsx:263`);
  a new channel is shown with the messages of the old one (`:298`). `message-store.ts:4-5` calls the list
  chronological; `appendMessage` appends in order of arrival.
- *Reconnects.* `reconnect` is an event of the manager, not of the socket: nothing joins the room again.
- *Voice.* A mute sent before the join is admitted is lost; a refused join is ignored by the tab; a tab
  whose leave or disconnect is handled while its join waits for the permission is on the list for good
  (`realtime.gateway.ts:183`); a camera that is on at the join is listed as off (`:181`) until it is toggled, and its
  track is added without a new offer; a leave while the microphone is asked for is ignored.
- *Meetings.* Two overlapping transitions can set the status back (`meeting.service.ts:9` describes one
  direction). Each poll and each answer of a save puts the saved note into the field
  (`MeetingsView.tsx:127-135`): what was typed since is lost if typing goes on. Losing the focus saves
  while the timer still runs, and two first saves that overlap create two notes of one author
  (`PROGRESS.md:21` "per-author note"). "Tersimpan" is shown before the save is answered. The answer of
  a save is merged into whatever meeting is open (`MeetingContext.tsx:198`).
- *Calendar.* Besides the finding: the `continue` for occurrences that are over (`calendar.service.ts:360`) is never
  reached, as the first index is rounded up (`:354`); one-shot events are shown by their beginning alone (`:69`).
- *Votes.* `feedback.service.ts:114` promises a 409 for a second vote; of two that pass the look together
  the second gets the error of the unique key.
- *Attendance.* A record opened before midnight is never closed: clock-out looks for the record of its own
  day (`attendance.service.ts:125`) and answers that there is none.
- *Typing.* The one timer (`WorkspaceContext.tsx:351`) is taken from a channel by a key in another or by the
  answer to a message, and the stop of the first is never sent; the entry expires in the server after six
  seconds, but is only dropped when somebody else types or stops there. `ChannelView.tsx:58` announces
  with `length >= 0`, which is always so.
- *Lists.* The list of members is set by whichever answer comes last, also that of the workspace before
  (`WorkspaceContext.tsx:275`); the palette shows the answer that comes last, not that of what is typed;
  the audit view adds a late page of the filter before to the rows of the new one (`AuditView.tsx:79`).
- *Audit order.* `listLogs` orders by `createdAt` alone: rows of one instant have no order across pages.
- *Board.* The comment of `sortByPriority` (`web/lib/project-view.ts`) says newest deadline, the code puts the
  earliest first.
- *Downloads.* A file deleted between the look-up and the opening of the stream ends the process, since
  nothing listens for the stream's `error` (`file.controller.ts:59`).
- *Sessions.* The socket of a session that is revoked or expires stays connected (`realtime.gateway.ts:68`
  asks at the handshake only); a tab can sign another tab's login out, as it reads the storage.

## 6. Not modelled

- `updateWorkspace` and `updateProfile`: one update of a name, related to nothing else.
- The tree of `org-tree.ts` and the assignment of parents: a function of rows that are never moved.
- What search matches and what the statistics count: they read once and keep nothing.
- Attachments, replies, the limit of a page of messages, a second channel or meeting beside the one shown,
  ICE and media: section 2 says so where they would be.
- Forms, formatting, sorting for display, time zones and daylight saving, the landing page, packaging,
  configuration and the filter of errors.

What would be worth adding: a refinement of the message list to a set of copies, and the composition of
`Members` with `Presence` (a member removed while in the room).
