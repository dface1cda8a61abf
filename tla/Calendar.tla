------------------------------ MODULE Calendar ------------------------------
(***************************************************************************)
(* The calendar of a workspace: events, some of them recurring, and the    *)
(* dated rows of meetings, projects and tasks, read over a window, for     *)
(* reminders over the coming days, and laid out by month in the client.    *)
(*                                                                         *)
(* Instants are ticks, DayTicks to a day, day 0 beginning at tick 0.  A    *)
(* recurring event is one row; its occurrences are worked out on reading.  *)
(***************************************************************************)
EXTENDS Integers, FiniteSets

CONSTANTS
  EventIds,    \* rows of events: bounds their number
  DayTicks,    \* ticks of a day
  MaxSpan,     \* MAX_RECURRENCE_SPAN_MS
  Instants,    \* the instants people give as start, end and until
  Dates,       \* the dates meetings and deadlines have
  LastNow      \* bounds the clock

ASSUME CalendarConstants ==
  /\ DayTicks \in Nat \ {0} /\ MaxSpan \in Nat /\ LastNow \in Nat /\ Instants \cup Dates \subseteq Nat

VARIABLES
  calendarEvent,  \* the row of each id, or NoEvent
  dated,          \* a meeting, project or task with a date, or NoDate
  clock           \* Date.now()

calendarVars == <<calendarEvent, dated, clock>>

NoEvent == [recurrence |-> "none"]
NoDate == -1
NoUntil == -1
RECURRENCE_KINDS == {"NONE", "DAILY", "WEEKLY"}
Events == {e \in EventIds : calendarEvent[e] # NoEvent}
stepMs(recurrence) == IF recurrence = "DAILY" THEN DayTicks ELSE 7 * DayTicks
startOfDay(t) == (t \div DayTicks) * DayTicks

Inputs == [startAt : Instants, endAt : Instants, recurrence : RECURRENCE_KINDS,
           until : Instants \cup {NoUntil}]

\* What createEvent refuses, and what it stores of the rest.
Accepted(input) ==
  /\ input.endAt >= input.startAt
  /\ input.recurrence # "NONE" =>
       input.until # NoUntil /\ input.until - input.startAt \in 0..MaxSpan
Stored(input) ==
  [input EXCEPT !.until = IF input.recurrence = "NONE" THEN NoUntil ELSE input.until]

\* What the form refuses before it asks.
validateRecurrenceInput(input) ==
  input.recurrence # "NONE" => input.until # NoUntil /\ input.until >= input.startAt

CalendarTypeOK ==
  /\ \A e \in Events : calendarEvent[e] \in Inputs /\ Accepted(calendarEvent[e])
  /\ dated \in Dates \cup {NoDate} /\ clock \in 0..LastNow

CalendarInit ==
  /\ calendarEvent = [e \in EventIds |-> NoEvent] /\ dated = NoDate /\ clock = 0

createEvent(e) ==
  /\ calendarEvent[e] = NoEvent
  /\ \E input \in Inputs :
       Accepted(input) /\ calendarEvent' = [calendarEvent EXCEPT ![e] = Stored(input)]
  /\ UNCHANGED <<dated, clock>>

deleteEvent(e) ==
  /\ e \in Events
  /\ calendarEvent' = [calendarEvent EXCEPT ![e] = NoEvent]
  /\ UNCHANGED <<dated, clock>>

\* A meeting is planned, a project or a task gets another deadline.
Dated ==
  /\ \E d \in (Dates \cup {NoDate}) \ {dated} : dated' = d
  /\ UNCHANGED <<calendarEvent, clock>>

Passes == clock < LastNow /\ clock' = clock + 1 /\ UNCHANGED <<calendarEvent, dated>>

CalendarNext == Dated \/ Passes \/ \E e \in EventIds : createEvent(e) \/ deleteEvent(e)

CalendarSpec == CalendarInit /\ [][CalendarNext]_calendarVars
-----------------------------------------------------------------------------
\* The index of the first occurrence at or after from: it would be one further where
\* an occurrence begins with the window.
firstIndexAfter(event, from) ==
  IF from <= event.startAt THEN 0 ELSE (from - event.startAt) \div stepMs(event.recurrence) + 1

\* The index is rounded up.
firstIndex(event, from) ==
  IF from <= event.startAt THEN 0
  ELSE (from - event.startAt + stepMs(event.recurrence) - 1) \div stepMs(event.recurrence)

\* From the first index until an occurrence begins after the window or after the
\* series; one that is over before the window is passed over.
expandRecurrence(e, from, to) ==
  LET event == calendarEvent[e]
      at(n) == event.startAt + n * stepMs(event.recurrence)
      ends == IF event.until = NoUntil THEN event.startAt + MaxSpan ELSE event.until
  IN  {[kind |-> "event", id |-> <<e, n>>, startAt |-> at(n)] :
         n \in {i \in firstIndex(event, from)..(to \div stepMs(event.recurrence)) :
                  /\ at(i) <= to /\ at(i) <= ends
                  /\ at(i) + (event.endAt - event.startAt) >= from}}

\* The rows the query of events finds: one-shot events that begin in the window,
\* series that begin before its end and are not over before its beginning.
eventsFor(from, to) ==
  {e \in Events :
     IF calendarEvent[e].recurrence = "NONE" THEN calendarEvent[e].startAt \in from..to
     ELSE /\ calendarEvent[e].startAt <= to
          /\ calendarEvent[e].until >= from \/ calendarEvent[e].until = NoUntil}

getCalendar(from, to) ==
  (UNION {IF calendarEvent[e].recurrence = "NONE"
          THEN {[kind |-> "event", id |-> <<e>>, startAt |-> calendarEvent[e].startAt]}
          ELSE expandRecurrence(e, from, to) : e \in eventsFor(from, to)})
  \cup {[kind |-> "dated", id |-> <<>>, startAt |-> d] : d \in {dated} \cap (from..to)}

\* Read from the start of today, so that what began earlier today is in it.
listReminders(horizonDays) ==
  {[entry |-> item,
    dueInDays |-> LET days == (startOfDay(item.startAt) - startOfDay(clock)) \div DayTicks
                  IN  IF days > 0 THEN days ELSE 0] :
     item \in getCalendar(startOfDay(clock), clock + horizonDays * DayTicks)}

\* What the form says the series will have.
countRecurrenceOccurrences(event) ==
  (event.until - event.startAt) \div stepMs(event.recurrence) + 1

\* The days of the month in the 42 cells, Monday first: cell and day, for a month
\* whose first day is weekday, Sunday being 0, and that has length days.
buildMonthGrid(weekday, length) ==
  LET mondayOffset == (weekday + 6) % 7
  IN  {<<cell, cell - mondayOffset + 1>> : cell \in 0..41} \cap ((0..41) \X (1..length))
-----------------------------------------------------------------------------
\* Reference: the instants at which an event takes place.
Occurrences(e) ==
  LET event == calendarEvent[e]
  IN  IF event.recurrence = "NONE" THEN {event.startAt}
      ELSE {t \in event.startAt..event.until :
              (t - event.startAt) % stepMs(event.recurrence) = 0}

\* What the calendar shows of the occurrence of e at t, under a name of its own.
EntryAt(e, t) ==
  [kind |-> "event", startAt |-> t,
   id |-> IF calendarEvent[e].recurrence = "NONE" THEN <<e>>
          ELSE <<e, (t - calendarEvent[e].startAt) \div stepMs(calendarEvent[e].recurrence)>>]
Days(from, to) == {[kind |-> "dated", id |-> <<>>, startAt |-> d] : d \in {dated} \cap (from..to)}

\* The occurrences that begin in a window, and those that begin before its end and
\* are not over before its beginning.
Beginning(e, from, to) == Occurrences(e) \cap (from..to)
Overlapping(e, from, to) ==
  {t \in Occurrences(e) :
     t <= to /\ t + (calendarEvent[e].endAt - calendarEvent[e].startAt) >= from}

\* A window shows every occurrence that begins in it and no occurrence that does
\* not overlap it, under the same name as any other window: rounding, the two
\* filters of the query and the ends of the series lose none and add none.
WindowRight(from, to) ==
  /\ Days(from, to) \cup UNION {{EntryAt(e, t) : t \in Beginning(e, from, to)} : e \in Events}
       \subseteq getCalendar(from, to)
  /\ getCalendar(from, to) \subseteq
       Days(from, to) \cup UNION {{EntryAt(e, t) : t \in Overlapping(e, from, to)} : e \in Events}

\* "Expands a series into concrete occurrences overlapping [from, to]": also those
\* that began before the window and last into it.
OverlapShown ==
  \A e \in Events : calendarEvent[e].recurrence # "NONE" =>
    \A from, to \in Instants : from <= to =>
      \A t \in Overlapping(e, from, to) :
        t + (calendarEvent[e].endAt - calendarEvent[e].startAt) > from
          => EntryAt(e, t) \in expandRecurrence(e, from, to)

\* Whatever events are made and deleted and whenever it is read: every window is
\* right; a reminder of what begins today or later is due in the days its date is
\* away, none beyond the horizon, and what is left of today is among them; the
\* number the form announces is the number of occurrences; the form refuses nothing
\* that createEvent accepts; and in a month that begins on day 0, on any weekday,
\* each occurrence has one cell, under the weekday it is on.
CalendarExact ==
  /\ Events # {} \/ dated # NoDate =>
       \A from, to \in Instants : from <= to => WindowRight(from, to)
  /\ \A e \in Events :
       /\ \A horizon \in 1..2 :
            LET due == listReminders(horizon)
            IN  /\ \A r \in due :
                     /\ r.entry.startAt >= startOfDay(clock) =>
                          r.dueInDays = (r.entry.startAt \div DayTicks) - (clock \div DayTicks)
                     /\ r.dueInDays \in 0..horizon
                /\ \A t \in Occurrences(e) \cap (clock..(clock + horizon * DayTicks)) :
                     \E r \in due : r.entry.kind = "event" /\ r.entry.startAt = t
       /\ calendarEvent[e].recurrence # "NONE" =>
            countRecurrenceOccurrences(calendarEvent[e]) = Cardinality(Occurrences(e))
       /\ validateRecurrenceInput(calendarEvent[e])
       /\ \A weekday \in 0..6, length \in 28..31 :
            LET grid == buildMonthGrid(weekday, length)
            IN  \A t \in Occurrences(e) :
                  LET day == t \div DayTicks + 1
                      places == {place \in grid : place[2] = day}
                  IN  day <= length =>
                        /\ Cardinality(places) = 1
                        /\ \A place \in places : place[1] % 7 = (weekday + day - 2) % 7
=============================================================================
