--------------------------- MODULE MCCallAndInbox ---------------------------
(***************************************************************************)
(* Small instances of VoiceCall and of Notifications, which share no       *)
(* state, side by side: a behaviour picks one of them at the start and     *)
(* runs it alone, the other resting in its initial state.  The inbox is    *)
(* that of the tab of a user, who has a colleague.                         *)
(***************************************************************************)
EXTENDS VoiceCall, Notifications, TLC

CONSTANTS ann, ben, left

VARIABLE part  \* the one that runs

MCUsers == {ann, ben}
OneTab == {left}
OwnerOfOne == [t \in OneTab |-> ann]

BothInit == part \in {"call", "inbox"} /\ Init /\ InboxInit

BothNext ==
  /\ UNCHANGED part
  /\ \/ part = "call" /\ Next /\ UNCHANGED inboxVars
     \/ part = "inbox" /\ InboxNext /\ UNCHANGED vars

BothSpec == BothInit /\ [][BothNext]_<<vars, inboxVars, part>>
=============================================================================
