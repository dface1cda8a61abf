------------------------------- MODULE Typing -------------------------------
(***************************************************************************)
(* The typing indicator: the client announces a key and schedules the end  *)
(* of the announcement with its one timer; the gateway asks for the        *)
(* permission, keeps who types in each channel until a deadline, and tells *)
(* the workspace who is left.                                              *)
(*                                                                         *)
(* shown is what a member reads who stays in the channel.  The commands of *)
(* a socket arrive in order; their handlers wait for the permission and go *)
(* on in any order.                                                        *)
(***************************************************************************)
EXTENDS Naturals, Sequences, SequencesExt

CONSTANTS
  Typists,    \* users who type, each with one socket
  Rooms,      \* the channels of the workspace
  NoRoom,     \* no channel
  MaxKeys,    \* keys and messages: bounds them
  MaxWaiting  \* commands of a socket under way: bounds them

ASSUME TypingConstants ==
  /\ NoRoom \notin Rooms /\ Rooms # {} /\ MaxKeys \in Nat /\ MaxWaiting \in Nat

VARIABLES
  room,     \* the channel each typist is in
  timer,    \* typingTimerRef: the channel whose stop it will send
  sending,  \* the channel of the message that is being sent
  waiting,  \* commands sent and not yet carried out, in order
  typing,   \* the map of the gateway: who types in which channel
  shown,    \* the last list told of each channel
  keys,     \* keys and messages so far
  misled    \* history: channels whose end was not announced, or out of order

typingVars == <<room, timer, sending, waiting, typing, shown, keys, misled>>

Command(what, ch) == [what |-> what, room |-> ch]

TypingTypeOK ==
  /\ room \in [Typists -> Rooms]
  /\ timer \in [Typists -> Rooms \cup {NoRoom}] /\ sending \in [Typists -> Rooms \cup {NoRoom}]
  /\ \A u \in Typists : ToSet(waiting[u]) \subseteq [what : {"start", "stop"}, room : Rooms]
  /\ typing \cup misled \subseteq Typists \X Rooms
  /\ shown \in [Rooms -> SUBSET Typists] /\ keys \in 0..MaxKeys

TypingInit ==
  /\ room \in [Typists -> Rooms]
  /\ timer = [u \in Typists |-> NoRoom] /\ sending = [u \in Typists |-> NoRoom]
  /\ waiting = [u \in Typists |-> <<>>]
  /\ typing = {} /\ shown = [ch \in Rooms |-> {}]
  /\ keys = 0 /\ misled = {}
-----------------------------------------------------------------------------
\* The timer after a notice for channel ch: it would be set only if it was not.
TimerAfterOnce(u, ch, isTyping) ==
  IF ~isTyping THEN NoRoom ELSE IF timer[u] = NoRoom THEN ch ELSE timer[u]

\* It is cleared whatever it was for, and set again after a key.
TimerAfter(u, ch, isTyping) == IF isTyping THEN ch ELSE NoRoom

\* notifyTyping as a render of the view for channel ch holds it.  If the timer was
\* for another channel, the end of the typing there is not announced any more.
notifyTyping(u, ch, isTyping) ==
  /\ Len(waiting[u]) < MaxWaiting
  /\ waiting' = [waiting EXCEPT ![u] = Append(@, Command(IF isTyping THEN "start" ELSE "stop", ch))]
  /\ timer' = [timer EXCEPT ![u] = TimerAfter(u, ch, isTyping)]
  /\ misled' = misled \cup ({<<u, timer[u]>>} \cap (Typists \X (Rooms \ {ch})))

\* A key, the first of a message or a later one.
Key(u) ==
  /\ keys < MaxKeys /\ keys' = keys + 1
  /\ notifyTyping(u, room[u], TRUE)
  /\ UNCHANGED <<room, sending, typing, shown>>

\* The message is sent; typing goes on meanwhile.
Submit(u) ==
  /\ keys < MaxKeys /\ keys' = keys + 1
  /\ sending[u] = NoRoom
  /\ sending' = [sending EXCEPT ![u] = room[u]]
  /\ UNCHANGED <<room, timer, waiting, typing, shown, misled>>

\* It is there: the end is announced for the channel it was sent in, and the timer
\* is cleared, for a key typed since then too.
Submitted(u) ==
  /\ sending[u] # NoRoom
  /\ notifyTyping(u, sending[u], FALSE)
  /\ sending' = [sending EXCEPT ![u] = NoRoom]
  /\ UNCHANGED <<room, typing, shown, keys>>

\* It is refused: nothing is announced.
SubmitFailed(u) ==
  /\ sending[u] # NoRoom
  /\ sending' = [sending EXCEPT ![u] = NoRoom]
  /\ UNCHANGED <<room, timer, waiting, typing, shown, keys, misled>>

\* Four seconds without a key.
TimerFires(u) ==
  /\ timer[u] # NoRoom /\ Len(waiting[u]) < MaxWaiting
  /\ waiting' = [waiting EXCEPT ![u] = Append(@, Command("stop", timer[u]))]
  /\ timer' = [timer EXCEPT ![u] = NoRoom]
  /\ UNCHANGED <<room, sending, typing, shown, keys, misled>>

\* Another channel; the timer runs on.
GoTo(u, ch) ==
  /\ ch # room[u]
  /\ room' = [room EXCEPT ![u] = ch]
  /\ UNCHANGED <<timer, sending, waiting, typing, shown, keys, misled>>

\* The connection is lost with what it carried.
ConnectionLost(u) ==
  /\ waiting[u] # <<>>
  /\ misled' = misled \cup {<<u, waiting[u][i].room>> : i \in DOMAIN waiting[u]}
  /\ waiting' = [waiting EXCEPT ![u] = <<>>]
  /\ UNCHANGED <<room, timer, sending, typing, shown, keys>>
-----------------------------------------------------------------------------
\* Commands about the same channel still to be carried out before, after i.
Others(u, i) == {j \in DOMAIN waiting[u] \ {i} : waiting[u][j].room = waiting[u][i].room}

\* setTyping, then getTypingUserIds, which drops the entries past their deadline:
\* what that may be, of the entries whose owner's timer no longer runs.
handleTyping(u, i) ==
  LET command == waiting[u][i]
      ch == command.room
      entered == IF command.what = "start" THEN typing \cup {<<u, ch>>} ELSE typing \ {<<u, ch>>}
  IN  /\ \E late \in SUBSET {entry \in typing : entry[2] = ch /\ entry[1] # u
                                                 /\ timer[entry[1]] # ch} :
           /\ typing' = entered \ late
           /\ shown' = [shown EXCEPT ![ch] = {v \in Typists : <<v, ch>> \in entered \ late}]
      /\ waiting' = [waiting EXCEPT ![u] = RemoveAt(@, i)]
      \* A last stop, when the typist has stopped, puts things right.
      /\ misled' = IF \E j \in Others(u, i) : j < i THEN misled \cup {<<u, ch>>}
                   ELSE IF command.what = "stop" /\ Others(u, i) = {} /\ timer[u] # ch
                   THEN misled \ {<<u, ch>>}
                   ELSE misled
      /\ UNCHANGED <<room, timer, sending, keys>>

\* The permission is refused.
TypingRefused(u, i) ==
  /\ waiting' = [waiting EXCEPT ![u] = RemoveAt(@, i)]
  /\ misled' = misled \cup {<<u, waiting[u][i].room>>}
  /\ UNCHANGED <<room, timer, sending, typing, shown, keys>>

TypingNext ==
  \E u \in Typists :
    \/ Key(u) \/ Submit(u) \/ Submitted(u) \/ SubmitFailed(u) \/ TimerFires(u)
    \/ \E ch \in Rooms : GoTo(u, ch)
    \/ ConnectionLost(u)
    \/ \E i \in DOMAIN waiting[u] : handleTyping(u, i) \/ TypingRefused(u, i)

TypingSpec == TypingInit /\ [][TypingNext]_typingVars
-----------------------------------------------------------------------------
\* Once the commands of a typist are carried out, the others read the truth: who
\* typed in a channel within the time of the timer is shown there, and nobody else
\* is; unless that timer was taken by another channel or by the answer to a
\* message, a command was lost or refused, or a stop overtook a start.
TypingTrue ==
  \A u \in Typists : waiting[u] = <<>> =>
    \A ch \in Rooms : <<u, ch>> \notin misled => (u \in shown[ch] <=> timer[u] = ch)
=============================================================================
