------------------------------ MODULE Meetings ------------------------------
(***************************************************************************)
(* One meeting and its live notes: MeetingService, the copy MeetingContext *)
(* keeps of both in a tab, and the note field of MeetingsView.             *)
(*                                                                         *)
(* There is no realtime event for meetings.  A tab reads the meeting when  *)
(* its workspace is opened and polls the notes while the meeting is shown; *)
(* the polls and the answers to what the person does come in any order.    *)
(* Every operation of the service is a chain of queries that the queries   *)
(* of others come between.                                                 *)
(*                                                                         *)
(* A text is the set of what was typed into it.  A person without a tab    *)
(* calls the service directly, as its tests do.                            *)
(***************************************************************************)
EXTENDS Naturals, SequencesExt

CONSTANTS
  People,    \* members of the workspace, with "meeting.join"
  Managers,  \* those with "meeting.create" and "meeting.manage"
  Tabs,      \* those who use the web client, each in one tab
  Calls,     \* operations in progress: bounds their number
  Operations,  \* what is done besides saving, among "start", "end", "archive", "join"
  Polls,     \* polls under way in a tab: bounds their number
  MaxTyped,  \* bound on what is typed
  Nobody     \* no host yet

ASSUME MeetingConstants ==
  /\ Managers \subseteq People /\ Tabs \subseteq People
  /\ Operations \subseteq {"start", "end", "archive", "join"}
  /\ Nobody \notin People
  /\ MaxTyped \in Nat

VARIABLES
  status, host, joined, notes,  \* rows of Meeting, MeetingParticipant, MeetingNote
  call,     \* progress of each operation
  copy,     \* the meeting as a tab has it: of meetings and of activeMeeting
  open,     \* tabs whose activeMeeting it is
  shown,    \* notes of MeetingContext
  poll,     \* polls of a tab
  draft,    \* noteDraft
  timer,    \* what noteTimerRef will save
  typed,    \* history: what was typed, by each person
  reached,  \* history: every status the meeting has had
  doubled,  \* history: people two of whose saves overlapped
  raced     \* history: whether two changes of the status overlapped

rows == <<status, host, joined, notes>>
fieldVars == <<draft, timer, typed>>
tabVars == <<copy, open, shown, poll, fieldVars>>
history == <<reached, doubled, raced>>
vars == <<rows, call, tabVars, history>>

Transitions == {"start", "end", "archive"}

Statuses == {"SCHEDULED", "ACTIVE", "ENDED", "ARCHIVED"}
Texts == SUBSET (1..MaxTyped)
Nothing == {}

\* A note in a tab; the id of a note is its place in the table.
Shown == [id : Nat, by : People, text : Texts]
View == [status : Statuses \cup {"none"}, joined : SUBSET People, notes : Seq(Shown)]
Unknown == [status |-> "none", joined |-> {}, notes |-> <<>>]

\* An operation, with the note it found (0 for none), what it answers and whether
\* the view that is shown waits for it (busy).
Idle == [at |-> "idle"]
Busy == [at : {"find", "participant", "note", "write", "audit", "answer"},
         op : Operations \cup {"save"}, by : People, text : Texts, id : Nat, view : View,
         busy : BOOLEAN]

PollStates == {Idle} \cup [at : {"read"}, notes : Seq(Shown)]

TypeOK ==
  /\ status \in Statuses \cup {"none"}
  /\ host \in People \cup {Nobody}
  /\ joined \subseteq People
  /\ notes \in Seq([by : People, text : Texts])
  /\ call \in [Calls -> Busy \cup {Idle}]
  /\ \A k \in Calls : call[k] = Idle \/ call[k].id <= Len(notes)
  /\ copy \in [Tabs -> View]
  /\ open \subseteq Tabs
  /\ shown \in [Tabs -> Seq(Shown)]
  /\ poll \in [Tabs -> [Polls -> PollStates]]
  /\ draft \in [Tabs -> Texts]
  /\ timer \in [Tabs -> Texts]
  /\ typed \in [People -> Texts]
  /\ reached \subseteq Statuses
  /\ doubled \subseteq People
  /\ raced \in BOOLEAN

Init ==
  /\ status = "none" /\ host = Nobody /\ joined = {} /\ notes = <<>>
  /\ call = [k \in Calls |-> Idle]
  /\ copy = [t \in Tabs |-> Unknown]
  /\ open = {}
  /\ shown = [t \in Tabs |-> <<>>]
  /\ poll = [t \in Tabs |-> [q \in Polls |-> Idle]]
  /\ draft = [t \in Tabs |-> Nothing]
  /\ timer = [t \in Tabs |-> Nothing]
  /\ typed = [p \in People |-> Nothing]
  /\ reached = {}
  /\ doubled = {}
  /\ raced = FALSE

-----------------------------------------------------------------------------
(* MeetingService *)

NotesNow == [i \in DOMAIN notes |-> [id |-> i, by |-> notes[i].by, text |-> notes[i].text]]
ViewNow == [status |-> status, joined |-> joined, notes |-> NotesNow]

At(k, place) == call[k].at = place
Step(k, place) == call' = [call EXCEPT ![k].at = place]
Done(k) == call' = [call EXCEPT ![k] = Idle]
CallsOf(p) == {k \in Calls : call[k] # Idle /\ call[k].by = p}
Saving(p) == {k \in CallsOf(p) : call[k].op = "save"}

\* Its answer is used at once.
MeetingCreated(p) ==
  /\ status = "none" /\ p \in Managers
  /\ status' = "SCHEDULED" /\ host' = p
  /\ copy' = [t \in Tabs |-> IF t = p THEN [Unknown EXCEPT !.status = "SCHEDULED"] ELSE copy[t]]
  /\ reached' = {"SCHEDULED"}
  /\ UNCHANGED <<joined, notes, call, open, shown, poll, fieldVars, doubled, raced>>

\* The permission is checked first.  A save reads the host, who never changes, and
\* the participant, whose row is never deleted, before the note: these reads are
\* one with that of the note.
Called(k, p, op, text, busy) ==
  /\ call[k] = Idle
  /\ status # "none"
  /\ op \in Transitions => p \in Managers
  /\ call' = [call EXCEPT ![k] =
       [at |-> IF op = "save" THEN "note" ELSE "find", op |-> op, by |-> p,
        text |-> text, id |-> 0, view |-> Unknown, busy |-> busy]]
  /\ doubled' = IF op = "save" /\ Saving(p) # {} THEN doubled \cup {p} ELSE doubled
  /\ raced' = (raced \/ (op \in Transitions /\ \E j \in Calls :
                             call[j] # Idle /\ call[j].op \in Transitions))
  /\ UNCHANGED <<rows, reached>>

\* An ended meeting could be started again.
BeforeRestart == [start |-> {"SCHEDULED", "ENDED"}, end |-> {"ACTIVE"}, archive |-> {"ENDED"},
                  join |-> {"SCHEDULED", "ACTIVE"}]
\* The status an operation asks for, and the one it writes.
Before == [start |-> {"SCHEDULED"}, end |-> {"ACTIVE"}, archive |-> {"ENDED"},
           join |-> {"SCHEDULED", "ACTIVE"}]
After == [start |-> "ACTIVE", end |-> "ENDED", archive |-> "ARCHIVED"]

Allowed(op) == status \in Before[op]

Found(k) ==
  /\ At(k, "find")
  /\ IF Allowed(call[k].op)
       THEN Step(k, IF call[k].op = "join" THEN "participant" ELSE "write")
       ELSE Done(k)
  /\ UNCHANGED <<rows, tabVars, history>>

\* join wants no row of the caller, a note wants one or the host.
MayGoOnAnyone(op, p) == op = "save" \/ p \notin joined
MayGoOn(op, p) == IF op = "save" THEN p \in joined \cup {host} ELSE p \notin joined

ParticipantFound(k) ==
  /\ At(k, "participant")
  /\ IF MayGoOn("join", call[k].by) THEN Step(k, "write") ELSE Done(k)
  /\ UNCHANGED <<rows, tabVars, history>>

OwnNotes(list, p) == {i \in DOMAIN list : list[i].by = p}
FirstNote(list, p) == CHOOSE i \in OwnNotes(list, p) : \A j \in OwnNotes(list, p) : i <= j

\* The search would find nothing, or anyone's note.
NoteFoundNever(p) == 0
NoteFoundAnyones(p) == IF notes = <<>> THEN 0 ELSE 1
\* findFirst of the caller's note: the one its update will name.
NoteFound(p) == IF OwnNotes(notes, p) = {} THEN 0 ELSE FirstNote(notes, p)

NoteLookedUp(k) ==
  /\ At(k, "note")
  /\ IF MayGoOn("save", call[k].by)
       THEN call' = [call EXCEPT ![k].at = "write", ![k].id = NoteFound(call[k].by)]
       ELSE Done(k)
  /\ UNCHANGED <<rows, tabVars, history>>

\* meeting.update by id: whatever the status is by now.  The answer carries the
\* row as it was written, with its participants and notes.
StatusWritten(k) ==
  /\ At(k, "write") /\ call[k].op \in Transitions
  /\ status' = After[call[k].op]
  /\ reached' = reached \cup {status'}
  /\ call' = [call EXCEPT ![k].at = "audit", ![k].view = [ViewNow EXCEPT !.status = status']]
  /\ UNCHANGED <<host, joined, notes, tabVars, doubled, raced>>

AuditWritten(k) ==
  /\ At(k, "audit")
  /\ Step(k, "answer")
  /\ UNCHANGED <<rows, tabVars, history>>

\* The second of two rows of one person violates the unique key.
Joined(k) ==
  /\ At(k, "write") /\ call[k].op = "join"
  /\ IF call[k].by \in joined THEN Done(k) ELSE Step(k, "answer")
  /\ joined' = joined \cup {call[k].by}
  /\ UNCHANGED <<status, host, notes, tabVars, history>>

NoteWritten(k) ==
  /\ At(k, "write") /\ call[k].op = "save"
  /\ LET c == call[k]
     IN  /\ notes' = IF c.id = 0 THEN Append(notes, [by |-> c.by, text |-> c.text])
                                 ELSE [notes EXCEPT ![c.id].text = c.text]
         /\ call' = [call EXCEPT ![k].at = "answer",
                                 ![k].id = IF c.id = 0 THEN Len(notes') ELSE c.id]
  /\ UNCHANGED <<status, host, joined, tabVars, history>>

\* A query fails, or the answer is lost.
CallFailed(k) ==
  /\ call[k] # Idle
  /\ Done(k)
  /\ UNCHANGED <<rows, tabVars, history>>

-----------------------------------------------------------------------------
(* MeetingContext and the note field *)

\* A note that is there already would be kept as it is.
PutKeeping(list, n) ==
  IF \E i \in DOMAIN list : list[i].id = n.id THEN list ELSE Append(list, n)
\* What comes in would be appended.
PutLast(list, n) == Append(list, n)
\* Map.set by the id of the note: one that is there gives its place to it.
Put(list, n) ==
  IF \E i \in DOMAIN list : list[i].id = n.id
  THEN [i \in DOMAIN list |-> IF list[i].id = n.id THEN n ELSE list[i]]
  ELSE Append(list, n)

\* Same id: incoming wins; a new id is appended.
MergeNotes(existing, incoming) ==
  LET merged[i \in 0..Len(incoming)] ==
        IF i = 0 THEN existing ELSE Put(merged[i - 1], incoming[i])
  IN  merged[Len(incoming)]

\* Two effects of the field: a meeting that is opened fills it, and whenever the
\* notes are set it is given the person's own, whatever has been typed meanwhile.
OwnText(list, p) == IF OwnNotes(list, p) = {} THEN Nothing ELSE list[FirstNote(list, p)].text
Synced(list, t) == IF OwnNotes(list, t) = {} THEN draft[t] ELSE list[FirstNote(list, t)].text

NotesSet(t, list) ==
  /\ shown' = [shown EXCEPT ![t] = list]
  /\ draft' = [draft EXCEPT ![t] = IF t \in open THEN Synced(list, t) ELSE @]

\* The polls of a view that is closed are cancelled.
PollsCancelled(t) == poll' = [poll EXCEPT ![t] = [q \in Polls |-> Idle]]

\* The buttons of a new view do not wait for what the last one asked.
ViewReplaced(t) ==
  call' = [k \in Calls |->
             IF k \in CallsOf(t) THEN [call[k] EXCEPT !.busy = FALSE] ELSE call[k]]

\* The workspace is opened (anew): the list is read, no meeting is shown.  The
\* view is another one, and the timer of the last is cleared.
WorkspaceOpened(t) ==
  /\ copy' = [copy EXCEPT ![t] = ViewNow]
  /\ open' = open \ {t}
  /\ shown' = [shown EXCEPT ![t] = <<>>]
  /\ draft' = [draft EXCEPT ![t] = Nothing]
  /\ timer' = [timer EXCEPT ![t] = Nothing]
  /\ PollsCancelled(t)
  /\ ViewReplaced(t)
  /\ UNCHANGED <<rows, typed, history>>

\* openMeeting, also of the meeting that is open: its notes are those of the copy.
MeetingOpened(t) ==
  /\ copy[t].status # "none"
  /\ open' = open \cup {t}
  /\ shown' = [shown EXCEPT ![t] = copy[t].notes]
  /\ draft' = [draft EXCEPT ![t] =
       IF t \in open THEN Synced(copy[t].notes, t) ELSE OwnText(copy[t].notes, t)]
  /\ UNCHANGED <<rows, call, copy, poll, timer, typed, history>>

\* Another meeting is opened: the timer of the field goes on.
MeetingLeft(t) ==
  /\ t \in open
  /\ open' = open \ {t}
  /\ shown' = [shown EXCEPT ![t] = <<>>]
  /\ draft' = [draft EXCEPT ![t] = Nothing]
  /\ PollsCancelled(t)
  /\ UNCHANGED <<rows, call, copy, timer, typed, history>>

\* Another view of the workspace is shown and this one again: the meeting is
\* still the active one, its timer is cleared and the field filled anew.
ViewReopened(t) ==
  /\ t \in open
  /\ timer' = [timer EXCEPT ![t] = Nothing]
  /\ draft' = [draft EXCEPT ![t] =
       IF OwnNotes(shown[t], t) = {} THEN OwnText(copy[t].notes, t) ELSE OwnText(shown[t], t)]
  /\ ViewReplaced(t)
  /\ UNCHANGED <<rows, copy, open, shown, poll, typed, history>>

\* A poll of the interval: the notes it reads, on the way back.
PollRead(t, q) ==
  /\ t \in open /\ poll[t][q] = Idle
  /\ poll' = [poll EXCEPT ![t][q] = [at |-> "read", notes |-> NotesNow]]
  /\ UNCHANGED <<rows, call, copy, open, shown, fieldVars, history>>

PollMerged(t, q) ==
  /\ poll[t][q] # Idle
  /\ NotesSet(t, MergeNotes(shown[t], poll[t][q].notes))
  /\ poll' = [poll EXCEPT ![t][q] = Idle]
  /\ UNCHANGED <<rows, call, copy, open, timer, typed, history>>

PollFailed(t, q) ==
  /\ poll[t][q] # Idle
  /\ poll' = [poll EXCEPT ![t][q] = Idle]
  /\ UNCHANGED <<rows, call, copy, open, shown, fieldVars, history>>

\* What is typed is numbered in the order of typing.
NextTyped == {Cardinality(UNION {typed[p] : p \in People}) + 1} \cap 1..MaxTyped

\* The buttons and the field the copy enables.
CanWriteNotes(t) == t \in open /\ t \in copy[t].joined \cup {host}
ButtonClicked(k, t, op) ==
  /\ t \in Tabs
  /\ \A j \in CallsOf(t) : ~call[j].busy
  /\ copy[t].status \in Before[op]
  /\ op = "join" => t \notin copy[t].joined \cup {host}
  /\ Called(k, t, op, Nothing, TRUE)
  /\ UNCHANGED tabVars

Typed(t) ==
  /\ CanWriteNotes(t)
  /\ \E n \in NextTyped :
       /\ draft' = [draft EXCEPT ![t] = @ \cup {n}]
       /\ typed' = [typed EXCEPT ![t] = @ \cup {n}]
  /\ timer' = [timer EXCEPT ![t] = draft'[t]]
  /\ UNCHANGED <<rows, call, copy, open, shown, poll, history>>

TimerFired(k, t) ==
  /\ timer[t] # Nothing
  /\ timer' = [timer EXCEPT ![t] = Nothing]
  /\ Called(k, t, "save", timer[t], FALSE)
  /\ UNCHANGED <<copy, open, shown, poll, draft, typed>>

\* The field loses the focus; the timer goes on.
Blurred(k, t) ==
  /\ CanWriteNotes(t) /\ draft[t] # Nothing
  /\ Called(k, t, "save", draft[t], FALSE)
  /\ UNCHANGED tabVars

\* Without the web client.  Bounded: who has joined does not ask to again, and a
\* note is written once.
CalledDirectly(k, p, op) ==
  /\ p \notin Tabs
  /\ op = "join" => p \notin joined
  /\ Called(k, p, op, Nothing, FALSE)
  /\ UNCHANGED tabVars

SavedDirectly(k, p) ==
  /\ p \notin Tabs
  /\ typed[p] = Nothing
  /\ \E n \in NextTyped : typed' = [typed EXCEPT ![p] = {n}]
  /\ Called(k, p, "save", typed'[p], FALSE)
  /\ UNCHANGED <<copy, open, shown, poll, draft, timer>>

-----------------------------------------------------------------------------
(* Answers *)

CopyUpdated(t, view) == copy' = [copy EXCEPT ![t] = IF @.status = "none" THEN @ ELSE view]

\* Whatever is open by now, the note is merged into the notes that are shown.
Answered(k) ==
  /\ At(k, "answer")
  /\ Done(k)
  /\ LET c == call[k]
         t == c.by
     IN  CASE t \notin Tabs -> UNCHANGED tabVars
           [] t \in Tabs /\ c.op = "save" ->
                /\ NotesSet(t, MergeNotes(shown[t], <<[NotesNow[c.id] EXCEPT !.text = c.text]>>))
                /\ UNCHANGED <<copy, open, poll, timer, typed>>
           [] t \in Tabs /\ c.op = "join" ->
                /\ CopyUpdated(t, [copy[t] EXCEPT !.joined = @ \cup {t}])
                /\ UNCHANGED <<open, shown, poll, fieldVars>>
           [] OTHER ->
                /\ CopyUpdated(t, c.view)
                /\ UNCHANGED <<open, shown, poll, fieldVars>>
  /\ UNCHANGED <<rows, history>>

-----------------------------------------------------------------------------

Continued(k) ==
  \/ Found(k) \/ ParticipantFound(k) \/ NoteLookedUp(k) \/ StatusWritten(k)
  \/ AuditWritten(k) \/ Joined(k) \/ NoteWritten(k) \/ Answered(k) \/ CallFailed(k)

\* What a person does that sets the note field or saves it without typing.
Fidgeted(t) == MeetingOpened(t) \/ ViewReopened(t) \/ \E k \in Calls : Blurred(k, t)

Next ==
  \/ \E p \in People : MeetingCreated(p)
  \/ \E k \in Calls : Continued(k)
  \/ \E k \in Calls, p \in People, op \in Operations : CalledDirectly(k, p, op)
  \/ \E k \in Calls, p \in People : SavedDirectly(k, p)
  \/ \E k \in Calls, t \in Tabs, op \in Operations : ButtonClicked(k, t, op)
  \/ \E k \in Calls, t \in Tabs : TimerFired(k, t)
  \/ \E t \in Tabs :
       \/ WorkspaceOpened(t)
       \/ MeetingLeft(t)
       \/ Fidgeted(t)
       \/ Typed(t)
       \/ \E q \in Polls :
            PollRead(t, q) \/ PollMerged(t, q) \/ PollFailed(t, q)

Spec == Init /\ [][Next]_vars

\* The interval asks again and again, and not every poll fails.
FairSpec ==
  /\ Spec
  /\ \A t \in Tabs, q \in Polls :
       WF_vars(PollRead(t, q)) /\ SF_vars(PollMerged(t, q))

-----------------------------------------------------------------------------
(* Properties *)

\* Only the host and those who joined have notes, however the check of the
\* participant, the search for a note and its write are taken apart.
OnlyTheInvolvedWrite == \A i \in DOMAIN notes : notes[i].by \in joined \cup {host}

\* "Per-author note": a person whose saves do not overlap has one note.
OneNoteEach == \A p \in People \ doubled : Cardinality(OwnNotes(notes, p)) <= 1

\* What stands under a person's name, in the table or in any tab, and what is in
\* a person's field, that person has typed: no merge, poll or refill of the field
\* brings one person's words under the name of another.
WordsAreTheirs ==
  /\ \A i \in DOMAIN notes : notes[i].text \subseteq typed[notes[i].by]
  /\ \A t \in Tabs :
       /\ draft[t] \subseteq typed[t]
       /\ \A i \in DOMAIN shown[t] : shown[t][i].text \subseteq typed[shown[t][i].by]

\* A note is shown once, whether a poll, an answer or the copy brought it.
ShownOnce ==
  \A t \in Tabs : \A i, j \in DOMAIN shown[t] : shown[t][i].id = shown[t][j].id => i = j

\* The lifecycle of the service's comment (schedule, start, end, archive): races
\* may set a status twice or back, and still no stage is skipped.
NoStageSkipped ==
  /\ "ARCHIVED" \in reached => "ENDED" \in reached
  /\ "ENDED" \in reached => "ACTIVE" \in reached

Stage == [none |-> 0, SCHEDULED |-> 1, ACTIVE |-> 2, ENDED |-> 3, ARCHIVED |-> 4]

\* As long as no two changes of the status overlap it only moves forward.
LifecycleForward == [][~raced => Stage[status] <= Stage[status']]_vars

\* A tab whose person stops opening the meeting and leaving the field comes to
\* show exactly the notes of the table, and its field the person's own, although
\* polls fail and a poll may be answered after a save it did not see.
TabSettles ==
  \A t \in Tabs :
    <>[][~Fidgeted(t)]_vars =>
      <>[](t \in open => /\ ToSet(shown[t]) = ToSet(NotesNow)
                        /\ draft[t] = Synced(shown[t], t))
=============================================================================
