----------------------------- MODULE MCMeetings -----------------------------
(***************************************************************************)
(* A small instance of Meetings, of which a behaviour takes one of two     *)
(* halves: the changes of the status by two managers, one of whom works in *)
(* a tab and opens the workspace again and again, or the notes of a        *)
(* meeting that one manager creates and nobody starts.                     *)
(***************************************************************************)
EXTENDS Meetings

CONSTANTS ann, ben

VARIABLE part  \* the half that is taken

OpsStarted == {call'[k].op : k \in {j \in Calls : call'[j] # Idle}}

StatusStep == UNCHANGED <<poll, typed>> /\ "save" \notin OpsStarted

\* The workspace is opened once: no step but that of leaving the meeting looks like
\* opening it again.
NotesStep ==
  /\ host' \in {Nobody, ann}
  /\ OpsStarted \subseteq {"join", "save"}
  /\ \A t \in Tabs : copy[t] = Unknown \/ ~WorkspaceOpened(t) \/ MeetingLeft(t)

HalfInit == part \in {"status", "notes"} /\ Init
HalfNext ==
  /\ Next
  /\ UNCHANGED part
  /\ \/ part = "status" /\ StatusStep
     \/ part = "notes" /\ NotesStep

HalfSpec ==
  /\ HalfInit /\ [][HalfNext]_<<vars, part>>
  /\ \A t \in Tabs, q \in Polls :
       WF_vars(PollRead(t, q)) /\ SF_vars(PollMerged(t, q))
=============================================================================
