------------------------------ MODULE MCOffice ------------------------------
(***************************************************************************)
(* The services and views that share no state, side by side in one         *)
(* instance: a behaviour picks one of them at the start and runs it alone, *)
(* the others resting in an initial state.                                 *)
(***************************************************************************)
EXTENDS Files, Sessions, Projects, Records, ListViews, AuditPages, Calendar,
        Limiter, Typing, TLC

CONSTANTS
  OtherOffice  \* an office that is not founded while projects are worked on

VARIABLE service  \* the one that runs

allVars ==
  <<filesVars, sessionsVars, membersVars, projectsVars, recordsVars, viewVars, pageVars,
    calendarVars, limiterVars, typingVars, service>>

\* Votes and decisions, the clock, and names have rows of their own.
RecordTables ==
  [feedback |-> {"feedback", "vote"}, attendance |-> {"attendance"}, names |-> {"unit", "channel"}]

Services == {"files", "sessions", "members", "projects", "views", "pages", "calendar",
             "limiter", "typing"} \cup DOMAIN RecordTables

\* The operations people ask for, the instants they give, the dates things have.
AllRecordOps == {submitFeedback, vote, decide, clockIn, clockOut, createUnit, createChannel}
Moments == {0, 1, 3, 14, 15, 17}
DeadlineDates == {1, 3}

\* A view that is not mounted, a trail nobody reads, one channel.
ViewAtRest ==
  /\ view = AdminView /\ flight = [k \in ViewCalls |-> ViewIdle]
  /\ mount = 0 /\ asked = 0 /\ server = {} /\ list = {} /\ failed = FALSE /\ crossed = FALSE
PagesAtRest ==
  /\ trail = <<>> /\ filter = "any" /\ filterNo = 0 /\ rows = {} /\ cursor = NoCursor
  /\ more = FALSE /\ mixed = FALSE /\ pageCall = [k \in PageCalls |-> PageIdle]
OneRoom == room = [u \in Typists |-> CHOOSE ch \in Rooms : TRUE]

\* Projects and tasks begin in an office that has been founded.
Founded ==
  \E u \in Persons, w \in Offices \ {OtherOffice} :
    /\ office = [v \in Offices |-> IF v = w THEN [owner |-> u, slug |-> 1] ELSE NoOffice]
    /\ membership = [i \in MemberIds |->
         IF i = CHOOSE j \in MemberIds : TRUE
         THEN [office |-> w, person |-> u, role |-> "OWNER", current |-> TRUE] ELSE NoMember]
    /\ memberCall = [c \in MemberCalls |-> MemberIdle]

OfficeInit ==
  /\ service \in Services
  /\ FilesInit /\ SessionsInit /\ ProjectsInit /\ RecordsInit
  /\ CalendarInit /\ LimiterInit
  /\ IF service = "projects" THEN Founded ELSE MembersInit
  /\ IF service = "views" THEN ViewsInit ELSE ViewAtRest
  /\ IF service = "pages" THEN PagesInit ELSE PagesAtRest
  /\ TypingInit /\ (service = "typing" \/ OneRoom)

\* Bounds: two offices have two memberships between them, one office has three;
\* projects and tasks belong to one office of two memberships, one of which may be
\* in the hands of an operation meanwhile; a view is not left twice and changed twice.
Used == Cardinality({i \in MemberIds : membership'[i] # NoMember})
BusyMembers == Cardinality({c \in MemberCalls : memberCall'[c] # MemberIdle})
BusyTasks == Cardinality({c \in TaskCalls : taskCall'[c] # TaskIdle})
SmallOffices == office'[OtherOffice] # NoOffice => Used <= 2
OneOffice ==
  office'[OtherOffice] = NoOffice /\ Used <= 2 /\ BusyMembers <= 1 /\ BusyMembers + BusyTasks <= 2

OfficeNext ==
  /\ UNCHANGED service
  /\ \/ /\ service = "files" /\ FilesNext
        /\ UNCHANGED <<sessionsVars, membersVars, projectsVars, recordsVars, viewVars, pageVars,
                       calendarVars, limiterVars, typingVars>>
     \/ /\ service = "sessions" /\ SessionsNext
        /\ UNCHANGED <<filesVars, membersVars, projectsVars, recordsVars, viewVars, pageVars,
                       calendarVars, limiterVars, typingVars>>
     \/ /\ service = "members" /\ MembersNext /\ SmallOffices
        /\ UNCHANGED <<filesVars, sessionsVars, projectsVars, recordsVars, viewVars, pageVars,
                       calendarVars, limiterVars, typingVars>>
     \/ /\ service = "projects" /\ ProjectsNext /\ OneOffice
        /\ UNCHANGED <<filesVars, sessionsVars, recordsVars, viewVars, pageVars,
                       calendarVars, limiterVars, typingVars>>
     \/ /\ service \in DOMAIN RecordTables /\ RecordsNext
        /\ \A c \in RecordCalls :
             recordCall'[c] # RecordIdle => recordCall'[c].op.table \in RecordTables[service]
        /\ UNCHANGED <<filesVars, sessionsVars, membersVars, projectsVars, viewVars, pageVars,
                       calendarVars, limiterVars, typingVars>>
     \/ /\ service = "views" /\ ViewsNext /\ asked' + mount' <= MaxChanges + MaxSwitches - 1
        /\ UNCHANGED <<filesVars, sessionsVars, membersVars, projectsVars, recordsVars, pageVars,
                       calendarVars, limiterVars, typingVars>>
     \/ /\ service = "pages" /\ PagesNext
        /\ UNCHANGED <<filesVars, sessionsVars, membersVars, projectsVars, recordsVars, viewVars,
                       calendarVars, limiterVars, typingVars>>
     \/ /\ service = "calendar" /\ CalendarNext
        /\ UNCHANGED <<filesVars, sessionsVars, membersVars, projectsVars, recordsVars, viewVars,
                       pageVars, limiterVars, typingVars>>
     \/ /\ service = "limiter" /\ LimiterNext
        /\ UNCHANGED <<filesVars, sessionsVars, membersVars, projectsVars, recordsVars, viewVars,
                       pageVars, calendarVars, typingVars>>
     \/ /\ service = "typing" /\ TypingNext
        /\ UNCHANGED <<filesVars, sessionsVars, membersVars, projectsVars, recordsVars, viewVars,
                       pageVars, calendarVars, limiterVars>>

OfficeSpec == OfficeInit /\ [][OfficeNext]_allVars

Symmetry == Permutations(Persons) \cup Permutations(MemberCalls) \cup Permutations(ViewCalls)
=============================================================================
