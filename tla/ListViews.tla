------------------------------ MODULE ListViews ------------------------------
(***************************************************************************)
(* The views of the web client that load a list, change it through an      *)
(* operation, and show the change by loading again, by changing their copy *)
(* when the answer comes, or by changing it before the request is sent.    *)
(*                                                                         *)
(* Nothing pushes these lists: what a view shows is what the last answer   *)
(* left.  A view is a record of its habits, and the machine below is the   *)
(* same for all.  An item stands for one change (a file more, a message    *)
(* less, a task moved) and is in a list that shows the change.             *)
(***************************************************************************)
EXTENDS Naturals, FiniteSets

CONSTANTS
  ViewCalls,    \* requests of the view: bounds those in flight
  MaxChanges,   \* operations asked for: bounds the changes
  MaxSwitches   \* changes of workspace or of query: bounds the mounts

ASSUME ViewConstants == MaxChanges \in Nat /\ MaxSwitches \in Nat

(***************************************************************************)
(* The habits.  after: how the operations show their change.  guarded:     *)
(* which loads are ignored once the view shows something else: those sent  *)
(* for what is shown, those that follow an operation.  Every view with the *)
(* workspace as its React key is mounted anew for each, and ignores both.  *)
(* clears: whether the list is emptied at that moment; empties: whether a  *)
(* failed load empties it.  refresh: whether the person can load again, at *)
(* any time or while nothing loads.  busy: whether an operation waits for  *)
(* the one before, and for its reload.                                     *)
(***************************************************************************)
Keyed(after, refresh, busy) ==
  [after |-> after, guarded |-> {"shown", "change"}, clears |-> TRUE,
   empties |-> FALSE, refresh |-> refresh, busy |-> busy]

FilesView == Keyed({"reload"}, "never", "none")
RequestsView == Keyed({"reload"}, "never", "none")
CalendarView == Keyed({"reload"}, "never", "reload")
FeedbackView == Keyed({"reload"}, "never", "none")
OrgTreeView == Keyed({"reload"}, "never", "reload")
\* The request is sent, the copy changes when it is answered, and a load follows.
AttendanceView == Keyed({"both"}, "idle", "change")
ModerationQueueView == Keyed({"local"}, "idle", "none")
\* A task is moved before it is asked for, a failure loads the board again; a
\* project is added to the copy, a task by loading; choosing a project loads.
ProjectsView == Keyed({"optimistic", "local", "reload"}, "any", "none")
AdminView == Keyed({}, "never", "none")
ClientPortalView == Keyed({}, "never", "none")
\* The list of members outlives the view that changes it: the load of the
\* workspace is cancelled with it, the one a change asks for is not.
MembersView ==
  [after |-> {"reload"}, guarded |-> {"shown"}, clears |-> FALSE,
   empties |-> FALSE, refresh |-> "never", busy |-> "none"]
\* The palette searches for what is typed and takes every answer; a search that
\* fails leaves nothing.
SearchPalette ==
  [after |-> {}, guarded |-> {}, clears |-> FALSE,
   empties |-> TRUE, refresh |-> "never", busy |-> "none"]

Views == {FilesView, RequestsView, CalendarView, FeedbackView, OrgTreeView,
          AttendanceView, ModerationQueueView, ProjectsView, AdminView,
          ClientPortalView, MembersView, SearchPalette}

VARIABLES
  view,     \* the view, of Views: chosen at the start
  mount,    \* what it shows: the number of the mount
  server,   \* the changes the database holds
  list,     \* what the view shows
  flight,   \* its requests
  asked,    \* operations asked for
  failed,   \* history: an answer was lost since the list was loaded undisturbed
  crossed   \* history: so was the order of two answers

viewVars == <<view, mount, server, list, flight, asked, failed, crossed>>

ViewIdle == [at |-> "idle"]
\* What a mount shows: two workspaces, or two queries, in turn.
Shown(m) == m % 2
OnServer(m) == {item \in server : item[1] = Shown(m)}
Flying == {k \in ViewCalls : flight[k] # ViewIdle}
IsLoad(r) == r # ViewIdle /\ r.what = "load"
IsChange(r) == r # ViewIdle /\ r.what = "change"

Load(m, by) == [at |-> "sent", what |-> "load", mount |-> m, by |-> by, got |-> {}]

\* A load whose answer will be put on the screen.
Live(r, m) == IsLoad(r) /\ (r.by \in view.guarded => r.mount = m)

\* The view still is mounted for what the operation was asked for.
MountedAt(r, m) == {"shown", "change"} \subseteq view.guarded => r.mount = m
Mounted(r) == MountedAt(r, mount)

\* A load whose answer may be shown although it is not for what is shown, although
\* another answer may pass it, or although a change under way will not be shown.
Crossing(f, m) ==
  \E k \in ViewCalls :
    /\ Live(f[k], m)
    /\ \/ Shown(f[k].mount) # Shown(m)
       \/ \E other \in ViewCalls \ {k} :
            \/ Live(f[other], m)
            \/ IsChange(f[other]) /\ f[other].after \in {"local", "optimistic"}
            \/ IsChange(f[other]) /\ ~MountedAt(f[other], m)

\* A step that changes the requests to f and what is shown to m; quiet: it sends
\* the only one that matters.
Requests(f, m) ==
  LET quiet == /\ \E k \in ViewCalls : f[k] # flight[k] /\ Live(f[k], m) /\ f[k].at = "sent"
               /\ Cardinality({k \in ViewCalls : Live(f[k], m) \/ IsChange(f[k])}) = 1
  IN  /\ flight' = f
      /\ mount' = m
      /\ crossed' = (Crossing(f, m) \/ (crossed /\ ~quiet))
      /\ failed' = (failed /\ ~quiet)

ViewTypeOK ==
  /\ view \in Views /\ mount \in 0..MaxSwitches /\ asked \in 0..MaxChanges
  /\ server \cup list \subseteq {0, 1} \X (0..MaxChanges)
  /\ \A k \in Flying : flight[k].what \in {"load", "change"} /\ flight[k].mount \in 0..mount
  /\ failed \in BOOLEAN /\ crossed \in BOOLEAN

ViewsInit ==
  /\ view \in Views
  /\ mount = 0 /\ asked = 0
  /\ server = {<<0, 0>>, <<1, 0>>}
  /\ list = {}
  /\ \E k \in ViewCalls :
       flight = [c \in ViewCalls |-> IF c = k THEN Load(0, "shown") ELSE ViewIdle]
  /\ failed = FALSE /\ crossed = FALSE
-----------------------------------------------------------------------------
\* Another workspace, or another query: the list is loaded for it.
Switch(k) ==
  /\ mount < MaxSwitches /\ flight[k] = ViewIdle
  /\ Requests([flight EXCEPT ![k] = Load(mount + 1, "shown")], mount + 1)
  /\ list' = IF view.clears THEN {} ELSE list
  /\ UNCHANGED <<view, server, asked>>

\* The person loads the list again.
Refresh(k) ==
  /\ \/ view.refresh = "any"
     \/ view.refresh = "idle" /\ \A c \in ViewCalls : ~Live(flight[c], mount)
  /\ flight[k] = ViewIdle
  /\ Requests([flight EXCEPT ![k] = Load(mount, "shown")], mount)
  /\ UNCHANGED <<view, server, list, asked>>

\* The buttons a view disables while it waits.
Enabled ==
  \A c \in Flying :
    /\ view.busy \in {"change", "reload"} => ~IsChange(flight[c]) \/ flight[c].mount # mount
    /\ view.busy = "reload" =>
         ~(IsLoad(flight[c]) /\ flight[c].by = "change" /\ flight[c].mount = mount)

\* An operation is asked for.
Change(k) ==
  /\ asked < MaxChanges /\ flight[k] = ViewIdle /\ Enabled
  /\ \E after \in view.after :
       LET item == <<Shown(mount), asked + 1>>
       IN  /\ Requests([flight EXCEPT ![k] =
                [at |-> "sent", what |-> "change", mount |-> mount, after |-> after,
                 item |-> item]], mount)
           /\ list' = IF after = "optimistic" THEN list \cup {item} ELSE list
  /\ asked' = asked + 1
  /\ UNCHANGED <<view, server>>
-----------------------------------------------------------------------------
\* The server reads the list, or writes the change or refuses it.
Served(k) ==
  /\ flight[k] # ViewIdle /\ flight[k].at = "sent"
  /\ IF IsLoad(flight[k])
     THEN /\ Requests([flight EXCEPT ![k].at = "served", ![k].got = OnServer(flight[k].mount)],
                      mount)
          /\ UNCHANGED server
     ELSE \E at \in {"served", "refused"} :
            /\ Requests([flight EXCEPT ![k].at = at], mount)
            /\ server' = IF at = "served" THEN server \cup {flight[k].item} ELSE server
  /\ UNCHANGED <<view, list, asked>>

\* The list arrives.
Loaded(k) ==
  /\ IsLoad(flight[k]) /\ flight[k].at = "served"
  /\ list' = IF Live(flight[k], mount) THEN flight[k].got ELSE list
  /\ Requests([flight EXCEPT ![k] = ViewIdle], mount)
  /\ UNCHANGED <<view, server, asked>>

\* The load failed.
LoadFailed(k) ==
  /\ IsLoad(flight[k])
  /\ flight' = [flight EXCEPT ![k] = ViewIdle]
  /\ failed' = (failed \/ Live(flight[k], mount))
  /\ list' = IF view.empties /\ Live(flight[k], mount) THEN {} ELSE list
  /\ UNCHANGED <<view, mount, server, asked, crossed>>

\* What the answer of operation r does: the copy changes, or a load is sent.
ShownBy(k) ==
  LET r == flight[k]
      reloads == Mounted(r) /\ r.after \in {"reload", "both"}
  IN  /\ list' = IF Mounted(r) /\ r.after \in {"local", "both"}
                 THEN list \cup {r.item} ELSE list
      /\ Requests([flight EXCEPT ![k] = IF reloads THEN Load(r.mount, "change") ELSE ViewIdle],
                  mount)

\* The operation succeeded.
Changed(k) ==
  /\ IsChange(flight[k]) /\ flight[k].at = "served"
  /\ ShownBy(k)
  /\ UNCHANGED <<view, server, asked>>

\* What a failed operation does to a view: it would show the error and leave the
\* task where it was dragged.
FailureKept(k) ==
  /\ list' = list /\ flight' = [flight EXCEPT ![k] = ViewIdle]
  /\ failed' = (failed \/ (flight[k].after # "optimistic" /\ flight[k].at = "served"))
  /\ UNCHANGED <<mount, crossed>>

\* It shows the error; the board, which is ahead, is loaded again.  If the answer
\* was lost the change is on the server and not in the list.
FailureShown(k) ==
  IF flight[k].after = "optimistic" /\ Mounted(flight[k])
  THEN /\ Requests([flight EXCEPT ![k] = Load(flight[k].mount, "change")], mount)
       /\ list' = list
  ELSE /\ flight' = [flight EXCEPT ![k] = ViewIdle]
       /\ failed' = (failed \/ (Mounted(flight[k]) /\ flight[k].at = "served"))
       /\ UNCHANGED <<list, mount, crossed>>

\* The operation was refused, or its answer was lost.
ChangeFailed(k) ==
  /\ IsChange(flight[k]) /\ flight[k].at \in {"served", "refused"}
  /\ FailureShown(k)
  /\ UNCHANGED <<view, server, asked>>

ViewsNext ==
  \E k \in ViewCalls :
    \/ Switch(k) \/ Refresh(k) \/ Change(k) \/ Served(k)
    \/ Loaded(k) \/ LoadFailed(k) \/ Changed(k) \/ ChangeFailed(k)

ViewsSpec == ViewsInit /\ [][ViewsNext]_viewVars
-----------------------------------------------------------------------------
\* With no request out and no answer lost, a view that is mounted for its
\* workspace shows nothing that is not in that workspace's data, a change that
\* was refused included; and if no answer could pass another, a view of any kind
\* shows exactly what the server holds: the answers of reload, copy, optimistic
\* move and workspace switch leave nothing out and nothing over.
ListRight ==
  Flying = {} /\ ~failed =>
    /\ {"shown", "change"} \subseteq view.guarded => list \subseteq OnServer(mount)
    /\ ~crossed => list = OnServer(mount)
=============================================================================
