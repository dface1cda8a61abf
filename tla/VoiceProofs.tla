---------------------------- MODULE VoiceProofs ----------------------------
(***************************************************************************)
(* For any number of tabs, calls and microphone toggles, in every order: *)
(* two tabs never offer to each other at once, a tab out of the call       *)
(* keeps no connection and prepares none, and at rest the list of the      *)
(* gateway is true of every tab whose join nothing has overtaken.          *)
(***************************************************************************)
EXTENDS VoiceCall, SequenceTheorems, WellFoundedInduction, TLAPS

LEMMA SendType ==
  ASSUME TypeOK, NEW s \in Sockets, NEW packet \in Packets, Send(s, packet)
  PROVE  packets' \in [Sockets -> Seq(Packets)]
BY DEF TypeOK, Send

LEMMA TakenType ==
  ASSUME TypeOK, NEW s \in Sockets, packets[s] # <<>>, Taken(s)
  PROVE  packets' \in [Sockets -> Seq(Packets)]
BY DEF TypeOK, Taken

LEMMA HeadOfPackets ==
  ASSUME TypeOK, NEW s \in Sockets, packets[s] # <<>>
  PROVE  Head(packets[s]) \in Packets
BY DEF TypeOK

LEMMA EmitType ==
  ASSUME TypeOK, NEW to, NEW message \in Messages
  PROVE  Emit(to, message) \in [Sockets -> Seq(Messages)]
BY DEF TypeOK, Emit

LEMMA ConsumedType ==
  ASSUME TypeOK, NEW s \in Sockets, wire[s] # <<>>, Consumed(s)
  PROVE  wire' \in [Sockets -> Seq(Messages)]
BY DEF TypeOK, Consumed

LEMMA HeadOfWire ==
  ASSUME TypeOK, NEW s \in Sockets, wire[s] # <<>>
  PROVE  Head(wire[s]) \in Messages
BY DEF TypeOK

LEMMA ListedType ==
  ASSUME NEW list \in Seq(Entries)
  PROVE  Listed(list) \in Messages
BY DEF Listed, Messages

LEMMA EnteredType ==
  ASSUME NEW list \in Seq(Entries), NEW s \in Sockets
  PROVE  Entered(list, s) \in Seq(Entries)
<1> DEFINE entry == [id |-> s, muted |-> FALSE]
<1>1. entry \in Entries
  BY DEF Entries
<1>2. CASE s \in Ids(list)
  <2> DEFINE l == [i \in DOMAIN list |-> IF list[i].id = s THEN entry ELSE list[i]]
  <2>1. DOMAIN list = 1..Len(list) /\ Len(list) \in Nat /\ \A i \in DOMAIN list : list[i] \in Entries
    OBVIOUS
  <2>2. l \in [1..Len(list) -> Entries]
    BY <1>1, <2>1
  <2>3. l \in Seq(Entries)
    BY <2>1, <2>2, SeqDef
  <2>4. Entered(list, s) = l
    BY <1>2 DEF Entered
  <2> QED BY <2>3, <2>4
<1>3. CASE s \notin Ids(list)
  BY <1>1, <1>3 DEF Entered
<1> QED BY <1>2, <1>3

LEMMA WithoutType ==
  ASSUME NEW list \in Seq(Entries), NEW s \in Sockets
  PROVE  Without(list, s) \in Seq(Entries)
<1> DEFINE i == CHOOSE j \in DOMAIN list : list[j].id = s
<1>1. CASE s \in Ids(list)
  <2>1. i \in 1..Len(list)
    BY <1>1 DEF Ids
  <2>2. SubSeq(list, 1, i - 1) \in Seq(Entries) /\ SubSeq(list, i + 1, Len(list)) \in Seq(Entries)
    <3> HIDE DEF i
    <3>1. Len(list) \in Nat /\ i \in Nat /\ 1 <= i /\ i <= Len(list)
      BY <2>1
    <3>2. \A j \in 1..Len(list) : list[j] \in Entries
      BY <3>1
    <3>3. \A j \in 1..(i - 1) : list[j] \in Entries
      BY <3>1, <3>2
    <3>4. \A j \in (i + 1)..Len(list) : list[j] \in Entries
      BY <3>1, <3>2
    <3>5. i - 1 \in Int /\ i + 1 \in Int /\ 1 \in Int /\ Len(list) \in Int
      BY <3>1
    <3>6. SubSeq(list, 1, i - 1) \in Seq(Entries)
      BY <3>3, <3>5, SubSeqProperties
    <3>7. SubSeq(list, i + 1, Len(list)) \in Seq(Entries)
      BY <3>4, <3>5, SubSeqProperties
    <3> QED BY <3>6, <3>7
  <2> QED BY <1>1, <2>2 DEF Without, RemoveAt
<1>2. CASE s \notin Ids(list)
  BY <1>2 DEF Without
<1> QED BY <1>1, <1>2

LEMMA LeastIndex ==
  ASSUME NEW S \in SUBSET Nat, S # {}
  PROVE  \E i \in S : \A j \in S : i <= j
<1> DEFINE R == OpToRel(<, Nat)
<1>1. \E i \in S : \A j \in S : <<j, i>> \notin R
  <2> HIDE DEF R
  <2>1. IsWellFoundedOn(R, Nat)
    BY NatLessThanWellFounded DEF R
  <2> QED BY <2>1, WFMin
<1>2. \A i, j \in S : <<j, i>> \notin R => i <= j
  BY DEF OpToRel
<1> QED BY <1>1, <1>2

\* One run of syncParticipants: what it changes is the tab's own, what it
\* starts to offer it offers to greater ids, and its state keeps its type.
LEMMA ReconciledEffect ==
  ASSUME TypeOK, NEW s \in Sockets, NEW todo \in Seq(Entries), NEW alive \in SUBSET Sockets,
         NEW map \in [Sockets -> Peers], NEW waiting \in SUBSET Awaits,
         Reconciled(s, todo, alive, map, waiting)
  PROVE  /\ peers' \in [Sockets -> [Sockets -> Peers]]
         /\ awaiting' \in [Sockets -> SUBSET Awaits]
         /\ \A q \in Sockets \ {s} : peers'[q] = peers[q] /\ awaiting'[q] = awaiting[q]
         /\ \A p \in Sockets : peers'[s][p].conn \in {"creating", "offering"} =>
              s < p \/ map[p].conn \in {"creating", "offering"}
         /\ \A t \in awaiting'[s] : t \in waiting \/ s < t.to
<1> DEFINE needs == {i \in DOMAIN todo : Offers(s, todo[i].id, map)}
           stop == IF needs = {} THEN Len(todo)
                   ELSE CHOOSE i \in needs : \A j \in needs : i <= j
           seen == {i \in 1..stop : todo[i].id # s}
           known == [p \in Sockets |->
             IF \E i \in seen : todo[i].id = p
             THEN Known(todo[CHOOSE i \in seen : todo[i].id = p], map[p]) ELSE map[p]]
           request == [kind |-> "offer", to |-> todo[stop].id,
                       todo |-> SubSeq(todo, stop + 1, Len(todo)), alive |-> alive]
<1>1. /\ Len(todo) \in Nat /\ DOMAIN todo = 1..Len(todo)
      /\ \A i \in DOMAIN todo : todo[i] \in Entries
  OBVIOUS
<1>2. needs # {} => stop \in needs
  <2> SUFFICES ASSUME needs # {} PROVE stop \in needs
    OBVIOUS
  <2>1. needs \in SUBSET Nat
    BY <1>1
  <2>2. \E i \in needs : \A j \in needs : i <= j
    <3> HIDE DEF needs
    <3> QED BY <2>1, LeastIndex
  <2> HIDE DEF needs
  <2> QED BY <2>2
<1>3. stop \in 0..Len(todo)
  <2> HIDE DEF stop
  <2>1. CASE needs = {}
    BY <1>1, <2>1 DEF stop
  <2>2. CASE needs # {}
    BY <1>1, <1>2, <2>2
  <2> QED BY <2>1, <2>2
<1>4. \A i \in seen : todo[i] \in Entries
  <2> HIDE DEF stop
  <2> QED BY <1>1, <1>3
<1>5. known \in [Sockets -> Peers]
  <2> SUFFICES ASSUME NEW p \in Sockets, \E i \in seen : todo[i].id = p
               PROVE  Known(todo[CHOOSE i \in seen : todo[i].id = p], map[p]) \in Peers
    BY DEF Peers
  <2> HIDE DEF seen
  <2>1. todo[CHOOSE i \in seen : todo[i].id = p] \in Entries
    BY <1>4
  <2>2. map[p] \in Peers
    OBVIOUS
  <2> QED BY <2>1, <2>2 DEF Known, Peers, Entries, Connections
<1>6. \A p \in Sockets : known[p].conn \in {"creating", "offering"} =>
        map[p].conn \in {"creating", "offering"}
  <2> HIDE DEF seen
  <2> QED BY DEF Known, Peers
<1>7. CASE needs = {}
  <2>1. /\ peers' = [peers EXCEPT ![s] =
             [p \in Sockets |-> IF p \in alive THEN known[p] ELSE Absent]]
        /\ awaiting' = [awaiting EXCEPT ![s] = {t \in waiting : t.to \in alive}]
    BY <1>7 DEF Reconciled
  <2> HIDE DEF known, needs
  <2>2. Absent \in Peers /\ Absent.conn = "absent"
    BY DEF Absent, Peers, Connections
  <2> QED BY <2>1, <2>2, <1>5, <1>6 DEF TypeOK
<1>8. CASE needs # {}
  <2>1. /\ peers' = [peers EXCEPT ![s] = [known EXCEPT ![todo[stop].id].conn = "creating"]]
        /\ awaiting' = [awaiting EXCEPT ![s] = waiting \cup {request}]
    BY <1>8 DEF Reconciled
  <2>2. stop \in DOMAIN todo /\ todo[stop] \in Entries /\ s < todo[stop].id
    BY <1>1, <1>2, <1>8 DEF Offers
  <2>3. todo[stop].id \in Sockets
    BY <2>2 DEF Entries
  <2>4. SubSeq(todo, stop + 1, Len(todo)) \in Seq(Entries)
    <3> HIDE DEF stop
    <3> QED BY <1>1, <2>2
  <2>5. request \in Awaits
    BY <2>3, <2>4 DEF Awaits
  <2> HIDE DEF known, needs, stop, request
  <2>6. request.to = todo[stop].id
    BY DEF request
  <2> DEFINE row == [known EXCEPT ![todo[stop].id].conn = "creating"]
  <2>7. row \in [Sockets -> Peers]
    BY <2>3, <1>5 DEF Peers, Connections
  <2>8. \A p \in Sockets : row[p].conn \in {"creating", "offering"} =>
          s < p \/ map[p].conn \in {"creating", "offering"}
    BY <2>2, <2>3, <1>5, <1>6
  <2>9. peers' = [peers EXCEPT ![s] = row]
    BY <2>1
  <2>10. /\ peers' \in [Sockets -> [Sockets -> Peers]]
         /\ peers'[s] = row
         /\ \A q \in Sockets \ {s} : peers'[q] = peers[q]
    <3> HIDE DEF row
    <3> QED BY <2>7, <2>9 DEF TypeOK
  <2>11. /\ awaiting' \in [Sockets -> SUBSET Awaits]
         /\ awaiting'[s] = waiting \cup {request}
         /\ \A q \in Sockets \ {s} : awaiting'[q] = awaiting[q]
    BY <2>1, <2>5 DEF TypeOK
  <2> HIDE DEF row
  <2> QED BY <2>2, <2>6, <2>8, <2>10, <2>11
<1> QED BY <1>7, <1>8

-----------------------------------------------------------------------------
(* The invariant and its steps *)

\* A tab offers, and prepares to offer, only to tabs with a greater id.
OffersUpwards ==
  /\ \A s, p \in Sockets : peers[s][p].conn \in {"creating", "offering"} => s < p
  /\ \A s \in Sockets : \A t \in awaiting[s] : t.kind = "offer" => s < t.to

IInv == TypeOK /\ OffersUpwards /\ NothingAfterLeaving

LEMMA AbsentType ==
  /\ Absent \in Peers /\ Absent.conn = "absent"
  /\ NoPeers \in [Sockets -> Peers]
  /\ \A p \in Sockets : NoPeers[p].conn = "absent"
BY DEF Absent, NoPeers, Peers, Connections

\* A tab that leaves or closes.
LEMMA TornDownStep ==
  ASSUME IInv, NEW s \in Sockets, TornDown(s),
         phase' \in [Sockets -> {"out", "asking", "in", "closed"}],
         \A q \in Sockets \ {s} : phase'[q] = phase[q]
  PROVE  /\ peers' \in [Sockets -> [Sockets -> Peers]]
         /\ awaiting' \in [Sockets -> SUBSET Awaits]
         /\ OffersUpwards' /\ NothingAfterLeaving'
<1>1. /\ peers' = [peers EXCEPT ![s] = NoPeers]
      /\ awaiting' = [awaiting EXCEPT ![s] = {}]
  BY DEF TornDown
<1>2. /\ peers' \in [Sockets -> [Sockets -> Peers]]
      /\ awaiting' \in [Sockets -> SUBSET Awaits]
  BY <1>1, AbsentType DEF IInv, TypeOK
<1>3. /\ peers'[s] = NoPeers /\ awaiting'[s] = {}
      /\ \A q \in Sockets \ {s} : peers'[q] = peers[q] /\ awaiting'[q] = awaiting[q]
  BY <1>1 DEF IInv, TypeOK
<1>4. OffersUpwards'
  BY <1>3, AbsentType DEF IInv, OffersUpwards
<1>5. NothingAfterLeaving'
  <2>1. NoPeers' = NoPeers
    BY DEF NoPeers, Absent
  <2> QED BY <1>3, <2>1 DEF IInv, NothingAfterLeaving
<1> QED BY <1>2, <1>4, <1>5

\* A step that is not the engine's keeps what is said of the engine.
LEMMA EngineKept ==
  ASSUME IInv, UNCHANGED <<peers, awaiting>>,
         \A q \in Sockets : phase'[q] # "in" => phase[q] # "in"
  PROVE  OffersUpwards' /\ NothingAfterLeaving'
<1>1. NoPeers' = NoPeers
  BY DEF NoPeers, Absent
<1> QED BY <1>1 DEF IInv, OffersUpwards, NothingAfterLeaving

\* A run of syncParticipants of a tab in the call.
LEMMA ReconciledStep ==
  ASSUME IInv, NEW s \in Sockets, phase[s] = "in", phase' = phase,
         NEW todo \in Seq(Entries), NEW alive \in SUBSET Sockets,
         NEW map \in [Sockets -> Peers], NEW waiting \in SUBSET awaiting[s],
         \A p \in Sockets : map[p].conn \in {"creating", "offering"} => s < p,
         Reconciled(s, todo, alive, map, waiting)
  PROVE  /\ peers' \in [Sockets -> [Sockets -> Peers]]
         /\ awaiting' \in [Sockets -> SUBSET Awaits]
         /\ OffersUpwards' /\ NothingAfterLeaving'
<1>1. TypeOK /\ waiting \in SUBSET Awaits
  BY DEF IInv, TypeOK
<1>2. /\ peers' \in [Sockets -> [Sockets -> Peers]]
      /\ awaiting' \in [Sockets -> SUBSET Awaits]
      /\ \A q \in Sockets \ {s} : peers'[q] = peers[q] /\ awaiting'[q] = awaiting[q]
      /\ \A p \in Sockets : peers'[s][p].conn \in {"creating", "offering"} =>
           s < p \/ map[p].conn \in {"creating", "offering"}
      /\ \A t \in awaiting'[s] : t \in waiting \/ s < t.to
  BY <1>1, ReconciledEffect
<1>3. OffersUpwards'
  BY <1>2 DEF IInv, OffersUpwards
<1>4. NothingAfterLeaving'
  <2>1. NoPeers' = NoPeers
    BY DEF NoPeers, Absent
  <2> QED BY <1>2, <2>1 DEF IInv, NothingAfterLeaving
<1> QED BY <1>2, <1>3, <1>4

\* A tab in the call changes the connection to one peer.
LEMMA PeerStep ==
  ASSUME IInv, NEW s \in Sockets, phase[s] = "in", phase' = phase,
         NEW p \in Sockets, NEW peer \in Peers,
         peer.conn \in {"creating", "offering"} => s < p,
         peers' = [peers EXCEPT ![s][p] = peer],
         awaiting' \in [Sockets -> SUBSET Awaits],
         \A q \in Sockets \ {s} : awaiting'[q] = awaiting[q],
         \A t \in awaiting'[s] : t.kind = "offer" => t \in awaiting[s]
  PROVE  /\ peers' \in [Sockets -> [Sockets -> Peers]]
         /\ OffersUpwards' /\ NothingAfterLeaving'
<1>1. /\ peers' \in [Sockets -> [Sockets -> Peers]]
      /\ \A q \in Sockets \ {s} : peers'[q] = peers[q]
      /\ \A q \in Sockets : peers'[s][q] = IF q = p THEN peer ELSE peers[s][q]
  BY DEF IInv, TypeOK
<1>2. OffersUpwards'
  BY <1>1 DEF IInv, OffersUpwards
<1>3. NothingAfterLeaving'
  <2>1. NoPeers' = NoPeers
    BY DEF NoPeers, Absent
  <2> QED BY <1>1, <2>1 DEF IInv, NothingAfterLeaving
<1> QED BY <1>1, <1>2, <1>3

\* What the person at a tab does.
LEMMA PersonStep ==
  ASSUME IInv, NEW s \in Sockets,
         \/ JoinClicked(s) \/ MediaGranted(s) \/ MediaDenied(s)
         \/ LeaveClicked(s) \/ MuteToggled(s) \/ Disconnected(s)
  PROVE  IInv'
<1>1. CASE JoinClicked(s)
  <2>1. joins' \in [Sockets -> Nat]
    BY <1>1, VoiceConstants DEF JoinClicked, IInv, TypeOK
  <2>2. phase' \in [Sockets -> {"out", "asking", "in", "closed"}]
    BY <1>1 DEF JoinClicked, IInv, TypeOK
  <2>3. TypeOK'
    BY <1>1, <2>1, <2>2 DEF JoinClicked, IInv, TypeOK, serverVars, engineVars, historyVars
  <2> QED BY <1>1, <2>3, EngineKept DEF JoinClicked, engineVars, IInv, TypeOK
<1>2. CASE MediaGranted(s)
  <2>1. [kind |-> "join"] \in Packets
    BY DEF Packets
  <2>2. packets' \in [Sockets -> Seq(Packets)]
    BY <1>2, <2>1, SendType DEF MediaGranted, IInv
  <2>3. TypeOK'
    BY <1>2, <2>2 DEF MediaGranted, IInv, TypeOK, serverVars, humanVars, historyVars
  <2>4. NoPeers' = NoPeers
    BY DEF NoPeers, Absent
  <2>5. OffersUpwards' /\ NothingAfterLeaving'
    BY <1>2, <2>4 DEF MediaGranted, IInv, TypeOK, OffersUpwards, NothingAfterLeaving
  <2> QED BY <2>3, <2>5 DEF IInv
<1>3. CASE MediaDenied(s)
  <2>1. TypeOK'
    BY <1>3 DEF MediaDenied, IInv, TypeOK, serverVars, engineVars, humanVars, historyVars
  <2> QED BY <1>3, <2>1, EngineKept DEF MediaDenied, engineVars, IInv, TypeOK
<1>4. CASE LeaveClicked(s)
  <2>1. [kind |-> "leave"] \in Packets
    BY DEF Packets
  <2>2. packets' \in [Sockets -> Seq(Packets)]
    BY <1>4, <2>1, SendType DEF LeaveClicked, IInv
  <2>3. /\ phase' \in [Sockets -> {"out", "asking", "in", "closed"}]
        /\ \A q \in Sockets \ {s} : phase'[q] = phase[q]
    BY <1>4 DEF LeaveClicked, IInv, TypeOK
  <2>4. /\ peers' \in [Sockets -> [Sockets -> Peers]]
        /\ awaiting' \in [Sockets -> SUBSET Awaits]
        /\ OffersUpwards' /\ NothingAfterLeaving'
    BY <1>4, <2>3, TornDownStep DEF LeaveClicked
  <2> QED BY <1>4, <2>2, <2>3, <2>4 DEF LeaveClicked, IInv, TypeOK, serverVars, humanVars, historyVars
<1>5. CASE MuteToggled(s)
  <2>1. [kind |-> "mute", muted |-> MuteFlag(s)] \in Packets
    <3>1. MuteFlag(s) \in BOOLEAN
      BY DEF MuteFlag
    <3> QED BY <3>1 DEF Packets
  <2>2. packets' \in [Sockets -> Seq(Packets)]
    <3> DEFINE packet == [kind |-> "mute", muted |-> MuteFlag(s)]
    <3>1. Send(s, packet) /\ packet \in Packets
      BY <1>5, <2>1 DEF MuteToggled
    <3> HIDE DEF packet
    <3> QED BY <3>1, SendType DEF IInv
  <2>3. selfMuted' \in [Sockets -> BOOLEAN] /\ mutes' \in 0..MaxMutes
    BY <1>5, VoiceConstants DEF MuteToggled, IInv, TypeOK
  <2>4. TypeOK'
    BY <1>5, <2>2, <2>3 DEF MuteToggled, IInv, TypeOK, serverVars, historyVars
  <2> QED BY <1>5, <2>4, EngineKept DEF MuteToggled, IInv, TypeOK
<1>6. CASE Disconnected(s)
  <2>1. [kind |-> "disconnect"] \in Packets
    BY DEF Packets
  <2>2. packets' \in [Sockets -> Seq(Packets)]
    BY <1>6, <2>1, SendType DEF Disconnected, IInv
  <2>3. /\ phase' \in [Sockets -> {"out", "asking", "in", "closed"}]
        /\ \A q \in Sockets \ {s} : phase'[q] = phase[q]
    BY <1>6 DEF Disconnected, IInv, TypeOK
  <2>4. /\ peers' \in [Sockets -> [Sockets -> Peers]]
        /\ awaiting' \in [Sockets -> SUBSET Awaits]
        /\ OffersUpwards' /\ NothingAfterLeaving'
    BY <1>6, <2>3, TornDownStep DEF Disconnected
  <2> QED BY <1>6, <2>2, <2>3, <2>4 DEF Disconnected, IInv, TypeOK, serverVars, humanVars, historyVars
<1> QED BY <1>1, <1>2, <1>3, <1>4, <1>5, <1>6

\* What the gateway does.
LEMMA GatewayStep ==
  ASSUME IInv, NEW s \in Sockets,
         \/ JoinReceived(s) \/ Admitted(s) \/ Forbidden(s) \/ Dropped(s)
         \/ MuteReceived(s) \/ SdpRelayed(s)
  PROVE  IInv'
<1>1. CASE JoinReceived(s)
  <2>1. packets' \in [Sockets -> Seq(Packets)]
    BY <1>1, TakenType DEF JoinReceived, Received, IInv
  <2>2. admitting' \in [Sockets -> Nat]
    BY <1>1 DEF JoinReceived, IInv, TypeOK
  <2>3. TypeOK'
    BY <1>1, <2>1, <2>2 DEF JoinReceived, IInv, TypeOK, engineVars, humanVars, historyVars
  <2> QED BY <1>1, <2>3, EngineKept DEF JoinReceived, engineVars, IInv
<1>2. CASE Admitted(s)
  <2>1. participants' \in Seq(Entries)
    BY <1>2, EnteredType DEF Admitted, IInv, TypeOK
  <2>2. wire' \in [Sockets -> Seq(Messages)]
    <3>1. Listed(participants') \in Messages
      BY <2>1, ListedType
    <3>2. Emit(Room(participants'), Listed(participants')) \in [Sockets -> Seq(Messages)]
      BY <3>1, EmitType DEF IInv
    <3> QED BY <1>2, <3>2 DEF Admitted
  <2>3. admitting' \in [Sockets -> Nat]
    BY <1>2 DEF Admitted, IInv, TypeOK
  <2>4. TypeOK'
    BY <1>2, <2>1, <2>2, <2>3 DEF Admitted, IInv, TypeOK, engineVars, humanVars, historyVars
  <2> QED BY <1>2, <2>4, EngineKept DEF Admitted, engineVars, IInv
<1>3. CASE Forbidden(s)
  <2>1. admitting' \in [Sockets -> Nat]
    BY <1>3 DEF Forbidden, IInv, TypeOK
  <2>2. TypeOK'
    BY <1>3, <2>1 DEF Forbidden, IInv, TypeOK, engineVars, humanVars, historyVars
  <2> QED BY <1>3, <2>2, EngineKept DEF Forbidden, engineVars, IInv
<1>4. CASE Dropped(s)
  <2>1. packets' \in [Sockets -> Seq(Packets)]
    BY <1>4, TakenType DEF Dropped, Received, IInv
  <2>2. participants' \in Seq(Entries)
    BY <1>4, WithoutType DEF Dropped, IInv, TypeOK
  <2>3. wire' \in [Sockets -> Seq(Messages)]
    <3>1. [kind |-> "left", id |-> s] \in Messages
      BY DEF Messages
    <3>2. Emit(Room(participants'), [kind |-> "left", id |-> s]) \in [Sockets -> Seq(Messages)]
      BY <3>1, EmitType DEF IInv
    <3> QED BY <1>4, <3>2 DEF Dropped, IInv, TypeOK
  <2>4. TypeOK'
    BY <1>4, <2>1, <2>2, <2>3 DEF Dropped, IInv, TypeOK, engineVars, humanVars, historyVars
  <2> QED BY <1>4, <2>4, EngineKept DEF Dropped, engineVars, IInv
<1>5. CASE MuteReceived(s)
  <2>1. packets' \in [Sockets -> Seq(Packets)]
    BY <1>5, TakenType DEF MuteReceived, Received, IInv
  <2>2. participants' \in Seq(Entries)
    <3> DEFINE flag == Head(packets[s]).muted
               f == [i \in DOMAIN participants |->
                       IF participants[i].id = s THEN [id |-> s, muted |-> flag]
                                                 ELSE participants[i]]
    <3>1. /\ DOMAIN participants = 1..Len(participants) /\ Len(participants) \in Nat
          /\ \A i \in DOMAIN participants : participants[i] \in Entries
      BY DEF IInv, TypeOK
    <3>2. flag \in BOOLEAN
      <4>1. Head(packets[s]) \in Packets /\ Head(packets[s]).kind = "mute"
        BY <1>5, HeadOfPackets DEF MuteReceived, Received, IInv
      <4> QED BY <4>1 DEF Packets
    <3>3. [id |-> s, muted |-> flag] \in Entries
      BY <3>2 DEF Entries
    <3>4. f \in [1..Len(participants) -> Entries]
      BY <3>1, <3>3
    <3>5. participants' = f
      BY <1>5 DEF MuteReceived
    <3> HIDE DEF f
    <3> QED BY <3>1, <3>4, <3>5, SeqDef
  <2>3. wire' \in [Sockets -> Seq(Messages)]
    <3>1. Listed(participants') \in Messages
      BY <2>2, ListedType
    <3>2. Emit(Room(participants), Listed(participants')) \in [Sockets -> Seq(Messages)]
      BY <3>1, EmitType DEF IInv
    <3> QED BY <1>5, <3>2 DEF MuteReceived, IInv, TypeOK
  <2>4. TypeOK'
    BY <1>5, <2>1, <2>2, <2>3 DEF MuteReceived, IInv, TypeOK, engineVars, humanVars, historyVars
  <2> QED BY <1>5, <2>4, EngineKept DEF MuteReceived, engineVars, IInv
<1>6. CASE SdpRelayed(s)
  <2>1. packets' \in [Sockets -> Seq(Packets)]
    BY <1>6, TakenType DEF SdpRelayed, Received, IInv
  <2>2. wire' \in [Sockets -> Seq(Messages)]
    <3> DEFINE packet == Head(packets[s])
               message == [kind |-> packet.kind, from |-> s, sdp |-> packet.sdp]
    <3>1. packet \in Packets /\ packet.kind \in {"offer", "answer"}
      BY <1>6, HeadOfPackets DEF SdpRelayed, Received, IInv
    <3>2. message \in Messages
      BY <3>1 DEF Packets, Messages
    <3>3. wire' = wire \/ wire' = Emit({packet.to}, message)
      BY <1>6 DEF SdpRelayed
    <3> HIDE DEF message
    <3> QED BY <3>2, <3>3, EmitType DEF IInv, TypeOK
  <2>3. TypeOK'
    BY <1>6, <2>1, <2>2 DEF SdpRelayed, IInv, TypeOK, serverVars, engineVars, humanVars, historyVars
  <2> QED BY <1>6, <2>3, EngineKept DEF SdpRelayed, engineVars, IInv
<1> QED BY <1>1, <1>2, <1>3, <1>4, <1>5, <1>6

\* What the engine of a tab hears from the gateway and from the browser.
LEMMA ListStep ==
  ASSUME IInv, NEW s \in Sockets, ParticipantsHeard(s)
  PROVE  IInv'
<1> DEFINE list == Head(wire[s]).list
<1>1. list \in Seq(Entries)
  <2>1. Head(wire[s]) \in Messages /\ Head(wire[s]).kind = "participants"
    BY HeadOfWire DEF ParticipantsHeard, Heard, IInv
  <2> QED BY <2>1 DEF Messages
<1>2. wire' \in [Sockets -> Seq(Messages)]
  BY ConsumedType DEF ParticipantsHeard, Heard, IInv
<1> HIDE DEF list
<1>4. /\ peers' \in [Sockets -> [Sockets -> Peers]]
      /\ awaiting' \in [Sockets -> SUBSET Awaits]
      /\ OffersUpwards' /\ NothingAfterLeaving'
  <2>1. CASE phase[s] = "in"
    <3>1. Reconciled(s, list, Ids(list) \ {s}, peers[s], awaiting[s])
      BY <2>1 DEF ParticipantsHeard, list
    <3>2. Ids(list) \ {s} \in SUBSET Sockets
      <4>1. \A i \in DOMAIN list : list[i] \in Entries
        BY <1>1
      <4> QED BY <4>1 DEF Ids, Entries
    <3>3. /\ peers[s] \in [Sockets -> Peers] /\ phase' = phase
          /\ \A p \in Sockets : peers[s][p].conn \in {"creating", "offering"} => s < p
      BY DEF ParticipantsHeard, IInv, TypeOK, OffersUpwards
    <3> QED BY <1>1, <2>1, <3>1, <3>2, <3>3, ReconciledStep
  <2>2. CASE phase[s] # "in"
    <3>1. UNCHANGED <<peers, awaiting, phase>>
      BY <2>2 DEF ParticipantsHeard
    <3> QED BY <3>1, EngineKept DEF IInv, TypeOK
  <2> QED BY <2>1, <2>2
<1>5. TypeOK'
  BY <1>2, <1>4 DEF ParticipantsHeard, IInv, TypeOK, serverVars, humanVars, historyVars
<1> QED BY <1>4, <1>5 DEF IInv

LEMMA OfferReadyStep ==
  ASSUME IInv, NEW s \in Sockets, NEW t \in awaiting[s], OfferReady(s, t)
  PROVE  IInv'
<1> DEFINE map == [peers[s] EXCEPT ![t.to].conn = "offering", ![t.to].local = drafts'[s]]
<1>1. drafts' \in [Sockets -> Nat]
  BY DEF OfferReady, IInv, TypeOK
<1>2. /\ t.to \in Sockets /\ t.todo \in Seq(Entries) /\ t.alive \in SUBSET Sockets
      /\ s < t.to
  <2>1. t \in Awaits /\ t.kind = "offer"
    BY DEF OfferReady, IInv, TypeOK
  <2>2. s < t.to
    BY <2>1 DEF IInv, OffersUpwards
  <2> QED BY <2>1, <2>2 DEF Awaits
<1>3. packets' \in [Sockets -> Seq(Packets)]
  <2> DEFINE packet == [kind |-> "offer", to |-> t.to, sdp |-> drafts'[s]]
  <2>1. packet \in Packets
    BY <1>1, <1>2 DEF Packets
  <2>2. Send(s, packet)
    BY DEF OfferReady
  <2> HIDE DEF packet
  <2> QED BY <2>1, <2>2 DEF Send, IInv, TypeOK
<1>4. phase[s] = "in" /\ phase' = phase
  BY DEF OfferReady, IInv, NothingAfterLeaving
<1>5. map \in [Sockets -> Peers]
  <2>1. peers[s] \in [Sockets -> Peers]
    BY DEF IInv, TypeOK
  <2> QED BY <1>1, <1>2, <2>1 DEF Peers, Connections
<1>6. \A p \in Sockets : map[p].conn \in {"creating", "offering"} => s < p
  <2>1. peers[s] \in [Sockets -> Peers]
    BY DEF IInv, TypeOK
  <2>2. \A p \in Sockets \ {t.to} : map[p] = peers[s][p]
    BY <2>1, <1>2
  <2> HIDE DEF map
  <2> QED BY <2>2, <1>2 DEF IInv, OffersUpwards
<1>7. Reconciled(s, t.todo, t.alive, map, awaiting[s] \ {t})
  BY DEF OfferReady
<1>8. /\ peers' \in [Sockets -> [Sockets -> Peers]]
      /\ awaiting' \in [Sockets -> SUBSET Awaits]
      /\ OffersUpwards' /\ NothingAfterLeaving'
  <2> HIDE DEF map
  <2>1. awaiting[s] \ {t} \in SUBSET awaiting[s]
    OBVIOUS
  <2> QED BY <1>2, <1>4, <1>5, <1>6, <1>7, <2>1, ReconciledStep
<1>9. TypeOK'
  BY <1>1, <1>3, <1>8 DEF OfferReady, IInv, TypeOK, serverVars, humanVars, historyVars
<1> QED BY <1>8, <1>9 DEF IInv

LEMMA OfferHeardStep ==
  ASSUME IInv, NEW s \in Sockets, OfferHeard(s)
  PROVE  IInv'
<1> DEFINE m == Head(wire[s])
           reply == [kind |-> "answer", to |-> m.from, sdp |-> m.sdp]
<1>1. m.from \in Sockets /\ m.sdp \in Nat
  <2>1. m \in Messages /\ m.kind = "offer"
    BY HeadOfWire DEF OfferHeard, Heard, IInv
  <2> QED BY <2>1 DEF Messages
<1>2. wire' \in [Sockets -> Seq(Messages)]
  BY ConsumedType DEF OfferHeard, Heard, IInv
<1> HIDE DEF m
<1>3. reply \in Awaits /\ reply.kind = "answer"
  BY <1>1 DEF Awaits
<1>4. /\ peers' \in [Sockets -> [Sockets -> Peers]]
      /\ awaiting' \in [Sockets -> SUBSET Awaits]
      /\ OffersUpwards' /\ NothingAfterLeaving'
  <2>1. CASE phase[s] = "in"
    <3> DEFINE peer == [peers[s][m.from] EXCEPT !.conn = "answering"]
    <3>1. /\ peers' = [peers EXCEPT ![s][m.from].conn = "answering"]
          /\ awaiting' = [awaiting EXCEPT ![s] = @ \cup {reply}]
      BY <2>1 DEF OfferHeard, m
    <3>2. peers[s] \in [Sockets -> Peers] /\ peers[s][m.from] \in Peers
      BY <1>1 DEF IInv, TypeOK
    <3>3. peer \in Peers /\ peer.conn = "answering"
      BY <3>2 DEF Peers, Connections
    <3>4. peers' = [peers EXCEPT ![s][m.from] = peer]
      BY <3>1, <3>2
    <3> HIDE DEF peer, reply
    <3>5. /\ awaiting' \in [Sockets -> SUBSET Awaits]
          /\ \A q \in Sockets \ {s} : awaiting'[q] = awaiting[q]
          /\ \A t \in awaiting'[s] : t.kind = "offer" => t \in awaiting[s]
      BY <1>3, <3>1 DEF IInv, TypeOK
    <3>6. phase' = phase
      BY DEF OfferHeard
    <3> QED BY <1>1, <2>1, <3>3, <3>4, <3>5, <3>6, PeerStep
  <2>2. CASE phase[s] # "in"
    <3>1. UNCHANGED <<peers, awaiting, phase>>
      BY <2>2 DEF OfferHeard
    <3> QED BY <3>1, EngineKept DEF IInv, TypeOK
  <2> QED BY <2>1, <2>2
<1>5. TypeOK'
  BY <1>2, <1>4 DEF OfferHeard, IInv, TypeOK, serverVars, humanVars, historyVars
<1> QED BY <1>4, <1>5 DEF IInv

LEMMA AnswerReadyStep ==
  ASSUME IInv, NEW s \in Sockets, NEW t \in awaiting[s], AnswerReady(s, t)
  PROVE  IInv'
<1> DEFINE peer == [peers[s][t.to] EXCEPT !.conn = "stable", !.local = drafts'[s], !.remote = t.sdp]
<1>1. drafts' \in [Sockets -> Nat]
  BY DEF AnswerReady, IInv, TypeOK
<1>2. t.to \in Sockets /\ t.sdp \in Nat
  <2>1. t \in Awaits /\ t.kind = "answer"
    BY DEF AnswerReady, IInv, TypeOK
  <2> QED BY <2>1 DEF Awaits
<1>3. packets' \in [Sockets -> Seq(Packets)]
  <2> DEFINE packet == [kind |-> "answer", to |-> t.to, sdp |-> drafts'[s]]
  <2>1. packet \in Packets
    BY <1>1, <1>2 DEF Packets
  <2>2. Send(s, packet)
    BY DEF AnswerReady
  <2> HIDE DEF packet
  <2> QED BY <2>1, <2>2 DEF Send, IInv, TypeOK
<1>4. phase[s] = "in" /\ phase' = phase
  BY DEF AnswerReady, IInv, NothingAfterLeaving
<1>5. peer \in Peers /\ peer.conn = "stable"
  <2>1. peers[s][t.to] \in Peers
    BY <1>2 DEF IInv, TypeOK
  <2> QED BY <1>1, <1>2, <2>1 DEF Peers, Connections
<1>6. peers' = [peers EXCEPT ![s][t.to] = peer]
  BY DEF AnswerReady
<1>7. /\ awaiting' \in [Sockets -> SUBSET Awaits]
      /\ \A q \in Sockets \ {s} : awaiting'[q] = awaiting[q]
      /\ \A u \in awaiting'[s] : u \in awaiting[s]
  BY DEF AnswerReady, IInv, TypeOK
<1>8. /\ peers' \in [Sockets -> [Sockets -> Peers]]
      /\ OffersUpwards' /\ NothingAfterLeaving'
  <2> HIDE DEF peer
  <2> QED BY <1>2, <1>4, <1>5, <1>6, <1>7, PeerStep
<1>9. TypeOK'
  BY <1>1, <1>3, <1>7, <1>8 DEF AnswerReady, IInv, TypeOK, serverVars, humanVars, historyVars
<1> QED BY <1>8, <1>9 DEF IInv

LEMMA AnswerHeardStep ==
  ASSUME IInv, NEW s \in Sockets, AnswerHeard(s)
  PROVE  IInv'
<1> DEFINE m == Head(wire[s])
           peer == [peers[s][m.from] EXCEPT !.conn = "stable", !.remote = m.sdp]
<1>1. m.from \in Sockets /\ m.sdp \in Nat
  <2>1. m \in Messages /\ m.kind = "answer"
    BY HeadOfWire DEF AnswerHeard, Heard, IInv
  <2> QED BY <2>1 DEF Messages
<1>2. wire' \in [Sockets -> Seq(Messages)]
  BY ConsumedType DEF AnswerHeard, Heard, IInv
<1>3. UNCHANGED <<awaiting, phase>>
  BY DEF AnswerHeard
<1>4. /\ peers' \in [Sockets -> [Sockets -> Peers]]
      /\ OffersUpwards' /\ NothingAfterLeaving'
  <2>1. CASE peers' = peers
    BY <1>3, <2>1, EngineKept DEF IInv, TypeOK
  <2>2. CASE peers' # peers
    <3>1. phase[s] = "in" /\ peers' = [peers EXCEPT ![s][m.from] = peer]
      BY <2>2 DEF AnswerHeard
    <3> HIDE DEF m
    <3>2. peers[s][m.from] \in Peers
      BY <1>1 DEF IInv, TypeOK
    <3>3. peer \in Peers /\ peer.conn = "stable"
      BY <1>1, <3>2 DEF Peers, Connections
    <3>4. /\ awaiting' \in [Sockets -> SUBSET Awaits]
          /\ \A q \in Sockets \ {s} : awaiting'[q] = awaiting[q]
          /\ \A t \in awaiting'[s] : t \in awaiting[s]
      BY <1>3 DEF IInv, TypeOK
    <3> HIDE DEF peer
    <3> QED BY <1>1, <1>3, <3>1, <3>3, <3>4, PeerStep
  <2> QED BY <2>1, <2>2
<1>5. TypeOK'
  BY <1>2, <1>4 DEF AnswerHeard, IInv, TypeOK, serverVars, humanVars, historyVars
<1> QED BY <1>4, <1>5 DEF IInv

LEMMA LeftHeardStep ==
  ASSUME IInv, NEW s \in Sockets, LeftHeard(s)
  PROVE  IInv'
<1> DEFINE gone == Head(wire[s]).id
<1>1. gone \in Sockets
  <2>1. Head(wire[s]) \in Messages /\ Head(wire[s]).kind = "left"
    BY HeadOfWire DEF LeftHeard, Heard, IInv
  <2> QED BY <2>1 DEF Messages
<1>2. wire' \in [Sockets -> Seq(Messages)]
  BY ConsumedType DEF LeftHeard, Heard, IInv
<1> HIDE DEF gone
<1>3. /\ peers' \in [Sockets -> [Sockets -> Peers]]
      /\ awaiting' \in [Sockets -> SUBSET Awaits]
      /\ OffersUpwards' /\ NothingAfterLeaving'
  <2>1. CASE phase[s] = "in"
    <3>1. /\ peers' = [peers EXCEPT ![s][gone] = Absent]
          /\ awaiting' = [awaiting EXCEPT ![s] = {t \in @ : t.to # gone}]
      BY <2>1 DEF LeftHeard, gone
    <3>2. /\ awaiting' \in [Sockets -> SUBSET Awaits]
          /\ \A q \in Sockets \ {s} : awaiting'[q] = awaiting[q]
          /\ \A t \in awaiting'[s] : t \in awaiting[s]
      BY <3>1 DEF IInv, TypeOK
    <3>3. phase' = phase
      BY DEF LeftHeard
    <3> QED BY <1>1, <2>1, <3>1, <3>2, <3>3, AbsentType, PeerStep
  <2>2. CASE phase[s] # "in"
    <3>1. UNCHANGED <<peers, awaiting, phase>>
      BY <2>2 DEF LeftHeard
    <3> QED BY <3>1, EngineKept DEF IInv, TypeOK
  <2> QED BY <2>1, <2>2
<1>4. TypeOK'
  BY <1>2, <1>3 DEF LeftHeard, IInv, TypeOK, serverVars, humanVars, historyVars
<1> QED BY <1>3, <1>4 DEF IInv

-----------------------------------------------------------------------------
(* Theorems *)

LEMMA InitIInv == Init => IInv
<1> SUFFICES ASSUME Init PROVE IInv
  OBVIOUS
<1>1. TypeOK
  BY AbsentType, VoiceConstants DEF Init, TypeOK
<1>2. OffersUpwards
  BY AbsentType DEF Init, OffersUpwards
<1>3. NothingAfterLeaving
  BY DEF Init, NothingAfterLeaving
<1> QED BY <1>1, <1>2, <1>3 DEF IInv

LEMMA NextIInv == IInv /\ [Next]_vars => IInv'
<1> SUFFICES ASSUME IInv, [Next]_vars PROVE IInv'
  OBVIOUS
<1>1. CASE UNCHANGED vars
  BY <1>1 DEF vars, serverVars, engineVars, humanVars, historyVars, IInv, TypeOK, OffersUpwards,
              NothingAfterLeaving, NoPeers, Absent
<1>2. ASSUME NEW s \in Sockets,
             \/ JoinClicked(s) \/ MediaGranted(s) \/ MediaDenied(s)
             \/ LeaveClicked(s) \/ MuteToggled(s) \/ Disconnected(s)
      PROVE  IInv'
  BY <1>2, PersonStep
<1>3. ASSUME NEW s \in Sockets,
             \/ JoinReceived(s) \/ Admitted(s) \/ Forbidden(s) \/ Dropped(s)
             \/ MuteReceived(s) \/ SdpRelayed(s)
      PROVE  IInv'
  BY <1>3, GatewayStep
<1>4. ASSUME NEW s \in Sockets,
             \/ ParticipantsHeard(s) \/ LeftHeard(s) \/ OfferHeard(s) \/ AnswerHeard(s)
             \/ \E t \in awaiting[s] : OfferReady(s, t) \/ AnswerReady(s, t)
      PROVE  IInv'
  BY <1>4, ListStep, LeftHeardStep, OfferHeardStep, AnswerHeardStep, OfferReadyStep,
     AnswerReadyStep
<1> QED BY <1>1, <1>2, <1>3, <1>4 DEF Next

\* Every reachable state of a call satisfies the invariant, and so its types.
THEOREM TypeCorrect == Spec => []TypeOK
<1>1. IInv => TypeOK
  BY DEF IInv
<1> QED BY <1>1, InitIInv, NextIInv, PTL DEF Spec

\* "No glare": of two tabs at most one prepares an offer to the other or waits
\* for its answer, whatever lists syncParticipants reconciles meanwhile.
THEOREM GlareFree == Spec => []NoGlare
<1>1. IInv => NoGlare
  BY VoiceConstants DEF IInv, OffersUpwards, NoGlare
<1> QED BY <1>1, InitIInv, NextIInv, PTL DEF Spec

\* A tab that left, closed or has not joined yet keeps no peer connection, and no
\* offer or answer it was preparing comes back.
THEOREM NothingLeftBehind == Spec => []NothingAfterLeaving
<1>1. IInv => NothingAfterLeaving
  BY DEF IInv
<1> QED BY <1>1, InitIInv, NextIInv, PTL DEF Spec
-----------------------------------------------------------------------------
(* The list of a call: what a queue of packets says of its tab *)

Goodbyes == {"leave", "disconnect"}
Steps == Goodbyes \cup {"join"}
Tells == Steps \cup {"mute"}

\* From its i-th packet on, the queue joins before it says goodbye.
JoinNext(queue, i) ==
  \E j \in DOMAIN queue :
    /\ i <= j /\ queue[j].kind = "join"
    /\ \A k \in DOMAIN queue : i <= k /\ k < j => queue[k].kind \notin Steps
\* From its i-th packet on, the queue neither joins nor says goodbye.
NoStep(queue, i) == \A k \in DOMAIN queue : i <= k => queue[k].kind \notin Steps
\* And says nothing of the microphone.
Silent(queue, i) == \A k \in DOMAIN queue : i <= k => queue[k].kind \notin Tells

\* The tab has to be out of the call, or in it, before the i-th packet is handled
\* if it is to be where its tab is after the last.
WantsOut(queue, i, where) == JoinNext(queue, i) \/ (NoStep(queue, i) /\ where # "in")
WantsIn(queue, i, where) == NoStep(queue, i) /\ where = "in"

Orderly(queue, where) ==
  \A i \in DOMAIN queue :
    /\ queue[i].kind = "join" => ~WantsOut(queue, i + 1, where)
    /\ queue[i].kind \in Goodbyes => ~WantsIn(queue, i + 1, where)

\* The last packet that tells of the microphone tells what it is.
Truthful(queue, flag) ==
  \A i \in DOMAIN queue : Silent(queue, i + 1) =>
    /\ queue[i].kind = "mute" => queue[i].muted = flag
    /\ queue[i].kind = "join" => flag = FALSE

LEMMA AppendedElements ==
  ASSUME NEW S, NEW queue \in Seq(S), NEW packet \in S
  PROVE  LET longer == Append(queue, packet)
             n == Len(queue)
         IN  /\ n \in Nat /\ DOMAIN queue = 1..n
             /\ DOMAIN longer = 1..(n + 1) /\ longer[n + 1] = packet
             /\ \A k \in 1..n : longer[k] = queue[k]
OBVIOUS

LEMMA PacketAppended ==
  ASSUME NEW queue \in Seq(Packets), NEW packet \in Packets, NEW i \in Nat, i <= Len(queue) + 1
  PROVE  LET longer == Append(queue, packet)
         IN  /\ packet.kind \notin Steps =>
                  (JoinNext(longer, i) <=> JoinNext(queue, i)) /\ (NoStep(longer, i) <=> NoStep(queue, i))
             /\ packet.kind = "join" => (JoinNext(longer, i) <=> JoinNext(queue, i) \/ NoStep(queue, i))
             /\ packet.kind \in Goodbyes => (JoinNext(longer, i) <=> JoinNext(queue, i))
             /\ packet.kind \in Steps => ~NoStep(longer, i)
             /\ packet.kind \notin Tells => (Silent(longer, i) <=> Silent(queue, i))
             /\ packet.kind \in Tells => ~Silent(longer, i)
<1> DEFINE longer == Append(queue, packet)
           n == Len(queue)
<1>1. /\ n \in Nat /\ DOMAIN queue = 1..n
      /\ DOMAIN longer = 1..(n + 1) /\ longer[n + 1] = packet
      /\ \A k \in 1..n : longer[k] = queue[k]
  BY AppendedElements
<1>2. i <= n + 1
  OBVIOUS
<1> HIDE DEF longer, n
<1>3. packet.kind \notin Steps => (NoStep(longer, i) <=> NoStep(queue, i))
  BY <1>1, <1>2 DEF NoStep
<1>4. packet.kind \in Steps => ~NoStep(longer, i)
  BY <1>1, <1>2 DEF NoStep
<1>5. packet.kind \notin Tells => (Silent(longer, i) <=> Silent(queue, i))
  BY <1>1, <1>2 DEF Silent
<1>6. packet.kind \in Tells => ~Silent(longer, i)
  BY <1>1, <1>2 DEF Silent
<1>7. JoinNext(queue, i) => JoinNext(longer, i)
  BY <1>1, <1>2 DEF JoinNext
<1>8. JoinNext(longer, i) =>
        JoinNext(queue, i) \/ (packet.kind = "join" /\ NoStep(queue, i))
  <2> SUFFICES ASSUME JoinNext(longer, i), ~JoinNext(queue, i)
               PROVE  packet.kind = "join" /\ NoStep(queue, i)
    OBVIOUS
  <2>1. PICK j \in DOMAIN longer :
          /\ i <= j /\ longer[j].kind = "join"
          /\ \A k \in DOMAIN longer : i <= k /\ k < j => longer[k].kind \notin Steps
    BY DEF JoinNext
  <2>2. j = n + 1
    <3> SUFFICES ASSUME j \in 1..n PROVE FALSE
      BY <1>1
    <3> QED BY <1>1, <2>1 DEF JoinNext
  <2> QED BY <1>1, <2>1, <2>2 DEF NoStep
<1>9. packet.kind = "join" /\ NoStep(queue, i) => JoinNext(longer, i)
  BY <1>1, <1>2 DEF JoinNext, NoStep
<1>10. packet.kind \notin Steps => packet.kind # "join"
  BY DEF Steps
<1>11. packet.kind \in Goodbyes => packet.kind # "join"
  BY DEF Goodbyes
<1> QED BY <1>3, <1>4, <1>5, <1>6, <1>7, <1>8, <1>9, <1>10, <1>11 DEF longer

\* Past its end a queue says nothing.
LEMMA PastTheEnd ==
  ASSUME NEW queue \in Seq(Packets), NEW i \in Nat, i > Len(queue)
  PROVE  ~JoinNext(queue, i) /\ NoStep(queue, i) /\ Silent(queue, i)
<1>1. DOMAIN queue = 1..Len(queue) /\ Len(queue) \in Nat
  OBVIOUS
<1> QED BY <1>1 DEF JoinNext, NoStep, Silent

\* What a tab sends keeps its queue in order: a join when it gets in, a goodbye
\* when it gets out, anything else in between.
LEMMA OrderlyAppended ==
  ASSUME NEW queue \in Seq(Packets), NEW packet \in Packets, NEW old, NEW new,
         Orderly(queue, old),
         \/ packet.kind = "join" /\ old # "in" /\ new = "in"
         \/ packet.kind \in Goodbyes /\ new # "in"
         \/ packet.kind \notin Steps /\ new = old
  PROVE  /\ Orderly(Append(queue, packet), new)
         /\ WantsOut(Append(queue, packet), 1, new) => WantsOut(queue, 1, old)
         /\ WantsIn(Append(queue, packet), 1, new) => WantsIn(queue, 1, old)
<1> DEFINE longer == Append(queue, packet)
           n == Len(queue)
<1>1. /\ n \in Nat /\ DOMAIN queue = 1..n
      /\ DOMAIN longer = 1..(n + 1) /\ longer[n + 1] = packet
      /\ \A k \in 1..n : longer[k] = queue[k]
  BY AppendedElements
<1>2. longer \in Seq(Packets) /\ Len(longer) = n + 1
  OBVIOUS
<1>3. \A i \in Nat : i <= n + 1 =>
        /\ packet.kind \notin Steps =>
             (JoinNext(longer, i) <=> JoinNext(queue, i)) /\ (NoStep(longer, i) <=> NoStep(queue, i))
        /\ packet.kind = "join" => (JoinNext(longer, i) <=> JoinNext(queue, i) \/ NoStep(queue, i))
        /\ packet.kind \in Goodbyes => (JoinNext(longer, i) <=> JoinNext(queue, i))
        /\ packet.kind \in Steps => ~NoStep(longer, i)
  BY PacketAppended
<1> HIDE DEF longer, n
<1>4. ASSUME NEW i \in Nat, i <= n + 1
      PROVE  /\ WantsOut(longer, i, new) => WantsOut(queue, i, old)
             /\ WantsIn(longer, i, new) => WantsIn(queue, i, old)
  <2>1. CASE packet.kind = "join" /\ old # "in" /\ new = "in"
    <3>1. packet.kind \in Steps
      BY <2>1 DEF Steps
    <3> QED BY <1>3, <1>4, <2>1, <3>1 DEF WantsOut, WantsIn
  <2>2. CASE packet.kind \in Goodbyes /\ new # "in"
    <3>1. packet.kind \in Steps
      BY <2>2 DEF Steps
    <3> QED BY <1>3, <1>4, <2>2, <3>1 DEF WantsOut, WantsIn
  <2>3. CASE packet.kind \notin Steps /\ new = old
    BY <1>3, <1>4, <2>3 DEF WantsOut, WantsIn
  <2> QED BY <2>1, <2>2, <2>3
<1>5. ~JoinNext(longer, n + 2) /\ NoStep(longer, n + 2)
  BY <1>1, <1>2, PastTheEnd
<1>6. Orderly(longer, new)
  <2> SUFFICES ASSUME NEW i \in DOMAIN longer
               PROVE  /\ longer[i].kind = "join" => ~WantsOut(longer, i + 1, new)
                      /\ longer[i].kind \in Goodbyes => ~WantsIn(longer, i + 1, new)
    BY DEF Orderly
  <2>1. CASE i \in 1..n
    <3>1. i + 1 \in Nat /\ i + 1 <= n + 1 /\ longer[i] = queue[i] /\ i \in DOMAIN queue
      BY <1>1, <2>1
    <3> QED BY <1>4, <3>1 DEF Orderly
  <2>2. CASE i = n + 1
    <3>1. longer[i] = packet /\ i + 1 = n + 2
      BY <1>1, <2>2
    <3>2. packet.kind = "join" => new = "in"
      BY DEF Goodbyes, Steps
    <3>3. packet.kind \in Goodbyes => new # "in"
      BY DEF Goodbyes, Steps
    <3> QED BY <1>5, <3>1, <3>2, <3>3 DEF WantsOut, WantsIn
  <2> QED BY <1>1, <2>1, <2>2
<1> QED BY <1>1, <1>4, <1>6 DEF longer

\* It tells of the microphone what it is.
LEMMA TruthAppended ==
  ASSUME NEW queue \in Seq(Packets), NEW packet \in Packets, NEW old, NEW new,
         \/ packet.kind = "join" /\ new = FALSE
         \/ packet.kind = "mute" /\ packet.muted = new
         \/ packet.kind \notin Tells /\ new = old /\ Truthful(queue, old)
  PROVE  /\ Truthful(Append(queue, packet), new)
         /\ Silent(Append(queue, packet), 1) => packet.kind \notin Tells /\ Silent(queue, 1)
<1> DEFINE longer == Append(queue, packet)
           n == Len(queue)
<1>1. /\ n \in Nat /\ DOMAIN queue = 1..n
      /\ DOMAIN longer = 1..(n + 1) /\ longer[n + 1] = packet
      /\ \A k \in 1..n : longer[k] = queue[k]
  BY AppendedElements
<1>2. \A i \in Nat : i <= n + 1 =>
        /\ packet.kind \notin Tells => (Silent(longer, i) <=> Silent(queue, i))
        /\ packet.kind \in Tells => ~Silent(longer, i)
  BY PacketAppended
<1> HIDE DEF longer, n
<1>3. packet.kind \in {"join", "mute"} => packet.kind \in Tells
  BY DEF Tells, Steps
<1>4. Truthful(longer, new)
  <2> SUFFICES ASSUME NEW i \in DOMAIN longer, Silent(longer, i + 1)
               PROVE  /\ longer[i].kind = "mute" => longer[i].muted = new
                      /\ longer[i].kind = "join" => new = FALSE
    BY DEF Truthful
  <2>1. CASE i \in 1..n
    <3>1. i + 1 \in Nat /\ i + 1 <= n + 1 /\ longer[i] = queue[i] /\ i \in DOMAIN queue
      BY <1>1, <2>1
    <3>2. packet.kind \notin Tells /\ Silent(queue, i + 1)
      BY <1>2, <3>1
    <3> QED BY <1>3, <3>1, <3>2 DEF Truthful
  <2>2. CASE i = n + 1
    <3>1. longer[i] = packet
      BY <1>1, <2>2
    <3>2. packet.kind = "mute" => packet.kind # "join" /\ packet.kind \in Tells
      BY <1>3
    <3>3. packet.kind = "mute" => packet.muted = new
      BY <3>2, Zenon
    <3>4. packet.kind = "join" => new = FALSE
      <4>1. packet.kind = "join" => packet.kind # "mute" /\ packet.kind \in Tells
        BY <1>3
      <4> QED BY <4>1, Zenon
    <3> QED BY <3>1, <3>3, <3>4, Zenon
  <2>3. i \in 1..n \/ i = n + 1
    BY <1>1
  <2> QED BY <2>1, <2>2, <2>3, Zenon
<1>5. 1 \in Nat /\ 1 <= n + 1
  BY <1>1
<1>6. Silent(longer, 1) => packet.kind \notin Tells /\ Silent(queue, 1)
  BY <1>2, <1>5
<1> QED BY <1>4, <1>6, Zenon DEF longer

\* The elements of a queue once its head is taken.
LEMMA TailElements ==
  ASSUME NEW S, NEW queue \in Seq(S), queue # <<>>
  PROVE  /\ Len(queue) \in Nat /\ Len(queue) >= 1 /\ DOMAIN queue = 1..Len(queue)
         /\ DOMAIN Tail(queue) = 1..(Len(queue) - 1) /\ Len(Tail(queue)) = Len(queue) - 1
         /\ \A k \in 1..(Len(queue) - 1) : Tail(queue)[k] = queue[k + 1]
         /\ Head(queue) = queue[1]
         /\ Len(queue) = 1 <=> Tail(queue) = <<>>
         /\ \A k \in DOMAIN Tail(queue) : k + 1 \in DOMAIN queue /\ Tail(queue)[k] = queue[k + 1]
<1>1. Len(queue) \in Nat /\ Len(queue) >= 1 /\ DOMAIN queue = 1..Len(queue)
  BY EmptySeq
<1>2. Tail(queue) \in Seq(S) /\ Len(Tail(queue)) = Len(queue) - 1
  BY HeadTailProperties
<1>3. DOMAIN Tail(queue) = 1..(Len(queue) - 1)
  BY <1>2
<1>4. \A k \in 1..(Len(queue) - 1) : Tail(queue)[k] = queue[k + 1]
  BY <1>2, HeadTailProperties
<1>5. Head(queue) = queue[1]
  OBVIOUS
<1>6. Len(queue) = 1 <=> Tail(queue) = <<>>
  <2>1. Tail(queue) # <<>> => Len(Tail(queue)) # 0
    BY <1>2, EmptySeq
  <2>2. Len(<<>>) = 0
    BY EmptySeq
  <2>3. Tail(queue) = <<>> => Len(Tail(queue)) = 0
    BY <2>2, Zenon
  <2> QED BY <1>1, <1>2, <2>1, <2>3
<1>7. \A k \in DOMAIN Tail(queue) : k + 1 \in DOMAIN queue
  BY <1>1, <1>3
<1> QED BY <1>1, <1>2, <1>3, <1>4, <1>5, <1>6, <1>7

\* The gateway takes the next packet of a tab.
LEMMA PacketTaken ==
  ASSUME NEW queue \in Seq(Packets), queue # <<>>, NEW i \in Nat, i >= 1
  PROVE  /\ JoinNext(Tail(queue), i) <=> JoinNext(queue, i + 1)
         /\ NoStep(Tail(queue), i) <=> NoStep(queue, i + 1)
         /\ Silent(Tail(queue), i) <=> Silent(queue, i + 1)
<1> DEFINE rest == Tail(queue)
           n == Len(queue)
<1>1. /\ n \in Nat /\ n >= 1 /\ DOMAIN queue = 1..n
      /\ DOMAIN rest = 1..(n - 1)
      /\ \A k \in 1..(n - 1) : rest[k] = queue[k + 1]
  BY TailElements
<1> HIDE DEF rest, n
<1>2. \A k \in DOMAIN rest : k + 1 \in DOMAIN queue /\ rest[k] = queue[k + 1]
  BY <1>1
<1>3. \A k \in DOMAIN queue : i + 1 <= k =>
        k - 1 \in DOMAIN rest /\ i <= k - 1 /\ rest[k - 1] = queue[k]
  BY <1>1
<1>4. \A k \in DOMAIN rest : k \in Nat
  BY <1>1
<1>5. \A k \in DOMAIN queue : k \in Nat
  BY <1>1
<1>6. NoStep(rest, i) <=> NoStep(queue, i + 1)
  BY <1>2, <1>3, <1>4, <1>5 DEF NoStep
<1>7. Silent(rest, i) <=> Silent(queue, i + 1)
  BY <1>2, <1>3, <1>4, <1>5 DEF Silent
<1>8. ASSUME JoinNext(rest, i) PROVE JoinNext(queue, i + 1)
  <2>1. PICK j \in DOMAIN rest :
          /\ i <= j /\ rest[j].kind = "join"
          /\ \A k \in DOMAIN rest : i <= k /\ k < j => rest[k].kind \notin Steps
    BY <1>8 DEF JoinNext
  <2>2. ASSUME NEW k \in DOMAIN queue, i + 1 <= k, k < j + 1 PROVE queue[k].kind \notin Steps
    <3>1. k - 1 \in DOMAIN rest /\ i <= k - 1 /\ rest[k - 1] = queue[k] /\ k - 1 < j
      BY <1>3, <1>4, <1>5, <2>2
    <3> QED BY <2>1, <3>1
  <2>3. j + 1 \in DOMAIN queue /\ i + 1 <= j + 1 /\ queue[j + 1].kind = "join"
    BY <1>2, <1>4, <2>1
  <2> QED BY <2>2, <2>3 DEF JoinNext
<1>9. ASSUME JoinNext(queue, i + 1) PROVE JoinNext(rest, i)
  <2>1. PICK j \in DOMAIN queue :
          /\ i + 1 <= j /\ queue[j].kind = "join"
          /\ \A k \in DOMAIN queue : i + 1 <= k /\ k < j => queue[k].kind \notin Steps
    BY <1>9 DEF JoinNext
  <2>2. ASSUME NEW k \in DOMAIN rest, i <= k, k < j - 1 PROVE rest[k].kind \notin Steps
    <3>1. k + 1 \in DOMAIN queue /\ i + 1 <= k + 1 /\ rest[k] = queue[k + 1] /\ k + 1 < j
      BY <1>2, <1>4, <1>5, <2>2
    <3> QED BY <2>1, <3>1
  <2> QED BY <1>3, <2>1, <2>2 DEF JoinNext
<1> QED BY <1>6, <1>7, <1>8, <1>9 DEF rest

LEMMA HeadSays ==
  ASSUME NEW queue \in Seq(Packets), queue # <<>>
  PROVE  /\ Head(queue).kind = "join" => JoinNext(queue, 1)
         /\ Head(queue).kind \notin Steps =>
              (JoinNext(queue, 1) <=> JoinNext(queue, 2)) /\ (NoStep(queue, 1) <=> NoStep(queue, 2))
         /\ Head(queue).kind \notin Tells => (Silent(queue, 1) <=> Silent(queue, 2))
         /\ Silent(queue, 2) => NoStep(queue, 2)
<1> DEFINE n == Len(queue)
<1>1. n \in Nat /\ n >= 1 /\ DOMAIN queue = 1..n /\ Head(queue) = queue[1]
  BY TailElements
<1> HIDE DEF n
<1>2. queue[1].kind = "join" => JoinNext(queue, 1)
  BY <1>1 DEF JoinNext
<1>3. queue[1].kind \notin Steps => (NoStep(queue, 1) <=> NoStep(queue, 2))
  BY <1>1 DEF NoStep
<1>4. queue[1].kind \notin Tells => (Silent(queue, 1) <=> Silent(queue, 2))
  BY <1>1 DEF Silent
<1>5. Silent(queue, 2) => NoStep(queue, 2)
  BY DEF Silent, NoStep, Tells
<1>6. queue[1].kind \notin Steps => (JoinNext(queue, 1) <=> JoinNext(queue, 2))
  <2> SUFFICES ASSUME queue[1].kind \notin Steps PROVE JoinNext(queue, 1) <=> JoinNext(queue, 2)
    OBVIOUS
  <2>1. queue[1].kind # "join"
    BY DEF Steps
  <2>2. \A k \in DOMAIN queue : k \in Nat /\ (1 <= k <=> k = 1 \/ 2 <= k)
    BY <1>1
  <2> QED BY <2>1, <2>2 DEF JoinNext
<1> QED BY <1>1, <1>2, <1>3, <1>4, <1>5, <1>6

\* What is left is in order, and wants of the call what the handled packet makes of it.
LEMMA OrderlyTaken ==
  ASSUME NEW queue \in Seq(Packets), queue # <<>>, NEW where, Orderly(queue, where)
  PROVE  /\ Orderly(Tail(queue), where)
         /\ Head(queue).kind = "join" => WantsOut(queue, 1, where) /\ ~WantsOut(Tail(queue), 1, where)
         /\ Head(queue).kind \in Goodbyes => ~WantsIn(Tail(queue), 1, where)
         /\ Head(queue).kind \notin Steps =>
              /\ WantsOut(Tail(queue), 1, where) <=> WantsOut(queue, 1, where)
              /\ WantsIn(Tail(queue), 1, where) <=> WantsIn(queue, 1, where)
<1> DEFINE rest == Tail(queue)
           n == Len(queue)
<1>1. /\ n \in Nat /\ n >= 1 /\ DOMAIN queue = 1..n
      /\ DOMAIN rest = 1..(n - 1)
      /\ \A k \in 1..(n - 1) : rest[k] = queue[k + 1]
      /\ Head(queue) = queue[1]
  BY TailElements
<1>2. \A i \in Nat : i >= 1 =>
        /\ WantsOut(rest, i, where) <=> WantsOut(queue, i + 1, where)
        /\ WantsIn(rest, i, where) <=> WantsIn(queue, i + 1, where)
  BY PacketTaken DEF WantsOut, WantsIn
<1>3. /\ Head(queue).kind = "join" => JoinNext(queue, 1)
      /\ Head(queue).kind \notin Steps =>
           (JoinNext(queue, 1) <=> JoinNext(queue, 2)) /\ (NoStep(queue, 1) <=> NoStep(queue, 2))
  BY HeadSays
<1> HIDE DEF rest, n
<1>4. Orderly(rest, where)
  <2> SUFFICES ASSUME NEW i \in DOMAIN rest
               PROVE  /\ rest[i].kind = "join" => ~WantsOut(rest, i + 1, where)
                      /\ rest[i].kind \in Goodbyes => ~WantsIn(rest, i + 1, where)
    BY DEF Orderly
  <2>1. i + 1 \in DOMAIN queue /\ rest[i] = queue[i + 1] /\ i + 1 \in Nat /\ i + 1 >= 1
    BY <1>1
  <2> QED BY <1>2, <2>1 DEF Orderly
<1>5. 1 \in DOMAIN queue /\ 1 \in Nat /\ 1 >= 1 /\ 1 + 1 = 2
  BY <1>1
<1>6. /\ queue[1].kind = "join" => ~WantsOut(queue, 2, where)
      /\ queue[1].kind \in Goodbyes => ~WantsIn(queue, 2, where)
  BY <1>5 DEF Orderly
<1>7. /\ WantsOut(rest, 1, where) <=> WantsOut(queue, 2, where)
      /\ WantsIn(rest, 1, where) <=> WantsIn(queue, 2, where)
  BY <1>2, <1>5
<1> QED BY <1>1, <1>3, <1>4, <1>6, <1>7 DEF WantsOut, WantsIn, rest

LEMMA TruthTaken ==
  ASSUME NEW queue \in Seq(Packets), queue # <<>>, NEW flag, Truthful(queue, flag)
  PROVE  /\ Truthful(Tail(queue), flag)
         /\ Silent(Tail(queue), 1) =>
              /\ Head(queue).kind = "mute" => Head(queue).muted = flag
              /\ Head(queue).kind = "join" => flag = FALSE
              /\ Head(queue).kind \notin Tells => Silent(queue, 1)
              /\ NoStep(Tail(queue), 1)
<1> DEFINE rest == Tail(queue)
           n == Len(queue)
<1>1. /\ n \in Nat /\ n >= 1 /\ DOMAIN queue = 1..n
      /\ DOMAIN rest = 1..(n - 1)
      /\ \A k \in 1..(n - 1) : rest[k] = queue[k + 1]
      /\ Head(queue) = queue[1]
  BY TailElements
<1>2. \A i \in Nat : i >= 1 =>
        /\ Silent(rest, i) <=> Silent(queue, i + 1)
        /\ NoStep(rest, i) <=> NoStep(queue, i + 1)
  BY PacketTaken
<1>3. /\ Head(queue).kind \notin Tells => (Silent(queue, 1) <=> Silent(queue, 2))
      /\ Silent(queue, 2) => NoStep(queue, 2)
  BY HeadSays
<1> HIDE DEF rest, n
<1>4. Truthful(rest, flag)
  <2> SUFFICES ASSUME NEW i \in DOMAIN rest, Silent(rest, i + 1)
               PROVE  /\ rest[i].kind = "mute" => rest[i].muted = flag
                      /\ rest[i].kind = "join" => flag = FALSE
    BY DEF Truthful
  <2>1. i + 1 \in DOMAIN queue /\ rest[i] = queue[i + 1] /\ i + 1 \in Nat /\ i + 1 >= 1
    BY <1>1
  <2> QED BY <1>2, <2>1 DEF Truthful
<1>5. 1 \in DOMAIN queue /\ 1 \in Nat /\ 1 >= 1 /\ 1 + 1 = 2
  BY <1>1
<1>6. (Silent(rest, 1) <=> Silent(queue, 2)) /\ (NoStep(rest, 1) <=> NoStep(queue, 2))
  BY <1>2, <1>5
<1>7. Silent(queue, 2) =>
        /\ queue[1].kind = "mute" => queue[1].muted = flag
        /\ queue[1].kind = "join" => flag = FALSE
  BY <1>5 DEF Truthful
<1> QED BY <1>1, <1>3, <1>4, <1>6, <1>7 DEF rest

-----------------------------------------------------------------------------
(* The list of a call: what the gateway does to it *)

Distinct(list) == \A i, j \in DOMAIN list : list[i].id = list[j].id => i = j
EntrySays(list, s, flag) == \A i \in DOMAIN list : list[i].id = s => list[i].muted = flag

LEMMA EnteredEffect ==
  ASSUME NEW list \in Seq(Entries), Distinct(list), NEW s \in Sockets, s \notin Ids(list)
  PROVE  /\ Ids(Entered(list, s)) = Ids(list) \cup {s}
         /\ Distinct(Entered(list, s))
         /\ EntrySays(Entered(list, s), s, FALSE)
         /\ \A q \in Sockets \ {s} : \A flag \in BOOLEAN :
              EntrySays(list, q, flag) => EntrySays(Entered(list, s), q, flag)
<1> DEFINE entry == [id |-> s, muted |-> FALSE]
           longer == Append(list, entry)
<1>1. Entered(list, s) = longer
  BY DEF Entered
<1>2. entry.id = s /\ entry.muted = FALSE
  OBVIOUS
<1> HIDE DEF entry
<1>3. /\ Len(list) \in Nat /\ DOMAIN list = 1..Len(list)
      /\ DOMAIN longer = 1..(Len(list) + 1)
      /\ \A k \in 1..Len(list) : longer[k] = list[k]
      /\ longer[Len(list) + 1] = entry
  OBVIOUS
<1> HIDE DEF longer
<1>4. \A k \in DOMAIN list : k \in DOMAIN longer /\ longer[k] = list[k] /\ list[k].id # s
  BY <1>3 DEF Ids
<1>5. Len(list) + 1 \in DOMAIN longer
  BY <1>3
<1>6. \A k \in DOMAIN longer : k \in DOMAIN list \/ k = Len(list) + 1
  BY <1>3
<1>7. Ids(longer) = Ids(list) \cup {s}
  <2>1. \A k \in DOMAIN longer : longer[k].id \in Ids(list) \cup {s}
    BY <1>2, <1>3, <1>4, <1>6 DEF Ids
  <2>2. \A k \in DOMAIN list : list[k].id \in Ids(longer)
    BY <1>4 DEF Ids
  <2>3. s \in Ids(longer)
    BY <1>2, <1>3, <1>5 DEF Ids
  <2> QED BY <2>1, <2>2, <2>3 DEF Ids
<1>8. Distinct(longer)
  BY <1>2, <1>3, <1>4, <1>6 DEF Distinct
<1>9. EntrySays(longer, s, FALSE)
  BY <1>2, <1>3, <1>4, <1>6 DEF EntrySays
<1>10. ASSUME NEW q \in Sockets \ {s}, NEW flag \in BOOLEAN, EntrySays(list, q, flag)
       PROVE  EntrySays(longer, q, flag)
  BY <1>2, <1>3, <1>4, <1>6, <1>10 DEF EntrySays
<1> QED BY <1>1, <1>7, <1>8, <1>9, <1>10

LEMMA WithoutEffect ==
  ASSUME NEW list \in Seq(Entries), Distinct(list), NEW s \in Sockets, s \in Ids(list)
  PROVE  /\ Ids(Without(list, s)) = Ids(list) \ {s}
         /\ Distinct(Without(list, s))
         /\ \A q \in Sockets \ {s} : \A flag \in BOOLEAN :
              EntrySays(list, q, flag) => EntrySays(Without(list, s), q, flag)
<1> DEFINE i == CHOOSE j \in DOMAIN list : list[j].id = s
           front == SubSeq(list, 1, i - 1)
           back == SubSeq(list, i + 1, Len(list))
           shorter == front \o back
           n == Len(list)
<1>1. i \in DOMAIN list /\ list[i].id = s
  BY DEF Ids
<1>2. Without(list, s) = shorter
  BY DEF Without, RemoveAt
<1> HIDE DEF i
<1>3. n \in Nat /\ DOMAIN list = 1..n /\ i \in 1..n /\ \A k \in 1..n : list[k] \in Entries
  BY <1>1
<1>4. /\ front \in Seq(Entries) /\ Len(front) = i - 1
      /\ \A k \in 1..(i - 1) : front[k] = list[k]
  <2>1. 1 \in Int /\ i - 1 \in Int /\ \A k \in 1..(i - 1) : list[k] \in Entries
    BY <1>3
  <2>2. /\ front \in Seq(Entries)
        /\ Len(front) = IF 1 <= i - 1 THEN i - 1 - 1 + 1 ELSE 0
        /\ \A k \in 1..(i - 1 - 1 + 1) : front[k] = list[1 + k - 1]
    BY <2>1, SubSeqProperties
  <2> HIDE DEF front
  <2> QED BY <1>3, <2>2
<1>5. /\ back \in Seq(Entries) /\ Len(back) = n - i
      /\ \A k \in 1..(n - i) : back[k] = list[i + k]
  <2>1. i + 1 \in Int /\ n \in Int /\ \A k \in (i + 1)..n : list[k] \in Entries
    BY <1>3
  <2>2. /\ back \in Seq(Entries)
        /\ Len(back) = IF i + 1 <= n THEN n - (i + 1) + 1 ELSE 0
        /\ \A k \in 1..(n - (i + 1) + 1) : back[k] = list[i + 1 + k - 1]
    BY <2>1, SubSeqProperties
  <2> HIDE DEF back, n
  <2>3. \A k \in 1..(n - i) : k \in 1..(n - (i + 1) + 1) /\ i + 1 + k - 1 = i + k
    BY <1>3
  <2>4. (IF i + 1 <= n THEN n - (i + 1) + 1 ELSE 0) = n - i
    BY <1>3
  <2> QED BY <2>2, <2>3, <2>4
<1> HIDE DEF front, back
<1>6. /\ Len(shorter) = n - 1 /\ DOMAIN shorter = 1..(n - 1)
      /\ \A k \in 1..(n - 1) : shorter[k] = IF k < i THEN list[k] ELSE list[k + 1]
  <2>1. /\ Len(shorter) = Len(front) + Len(back)
        /\ DOMAIN shorter = 1..Len(shorter)
        /\ \A k \in 1..(Len(front) + Len(back)) :
             shorter[k] = IF k <= Len(front) THEN front[k] ELSE back[k - Len(front)]
    <3>1. /\ shorter \in Seq(Entries) /\ Len(shorter) = Len(front) + Len(back)
          /\ \A k \in 1..(Len(front) + Len(back)) :
               shorter[k] = IF k <= Len(front) THEN front[k] ELSE back[k - Len(front)]
      BY <1>4, <1>5, ConcatProperties
    <3> HIDE DEF shorter
    <3>2. DOMAIN shorter = 1..Len(shorter)
      BY <3>1
    <3> QED BY <3>1, <3>2
  <2> HIDE DEF shorter, n
  <2>2. Len(shorter) = n - 1 /\ DOMAIN shorter = 1..(n - 1)
    BY <1>3, <1>4, <1>5, <2>1
  <2>3. ASSUME NEW k \in 1..(n - 1)
        PROVE  shorter[k] = IF k < i THEN list[k] ELSE list[k + 1]
    <3>1. CASE k < i
      <4>1. k \in 1..(i - 1) /\ k \in 1..(Len(front) + Len(back)) /\ k <= Len(front)
        BY <1>3, <1>4, <1>5, <3>1
      <4>2. shorter[k] = front[k]
        BY <2>1, <4>1
      <4> QED BY <1>4, <3>1, <4>1, <4>2
    <3>2. CASE ~(k < i)
      <4>1. k - (i - 1) \in 1..(n - i) /\ i + (k - (i - 1)) = k + 1
        BY <1>3, <3>2
      <4>2. shorter[k] = back[k - (i - 1)]
        BY <1>3, <1>4, <1>5, <2>1, <3>2
      <4> QED BY <1>5, <3>2, <4>1, <4>2
    <3> QED BY <3>1, <3>2
  <2> QED BY <2>2, <2>3
<1> HIDE DEF shorter, n
<1>7. \A k \in DOMAIN shorter : \E j \in DOMAIN list :
        /\ shorter[k] = list[j] /\ j # i
        /\ j = IF k < i THEN k ELSE k + 1
  BY <1>3, <1>6
<1>8. \A j \in DOMAIN list : j # i => \E k \in DOMAIN shorter : shorter[k] = list[j]
  <2> SUFFICES ASSUME NEW j \in DOMAIN list, j # i
               PROVE  \E k \in DOMAIN shorter : shorter[k] = list[j]
    OBVIOUS
  <2>1. CASE j < i
    BY <1>3, <1>6, <2>1
  <2>2. CASE ~(j < i)
    <3>1. j - 1 \in DOMAIN shorter /\ shorter[j - 1] = list[j]
      BY <1>3, <1>6, <2>2
    <3> QED BY <3>1
  <2> QED BY <2>1, <2>2
<1>9. \A j \in DOMAIN list : list[j].id = s <=> j = i
  BY <1>1 DEF Distinct
<1>10. Ids(shorter) = Ids(list) \ {s}
  <2>1. \A k \in DOMAIN shorter : shorter[k].id \in Ids(list) \ {s}
    BY <1>7, <1>9 DEF Ids
  <2>2. \A j \in DOMAIN list : list[j].id # s => list[j].id \in Ids(shorter)
    BY <1>8, <1>9 DEF Ids
  <2> QED BY <2>1, <2>2 DEF Ids
<1>11. Distinct(shorter)
  <2> SUFFICES ASSUME NEW k \in DOMAIN shorter, NEW m \in DOMAIN shorter,
                      shorter[k].id = shorter[m].id
               PROVE  k = m
    BY DEF Distinct
  <2>1. PICK j \in DOMAIN list : shorter[k] = list[j] /\ j = IF k < i THEN k ELSE k + 1
    BY <1>7
  <2>2. PICK h \in DOMAIN list : shorter[m] = list[h] /\ h = IF m < i THEN m ELSE m + 1
    BY <1>7
  <2>3. j = h
    BY <2>1, <2>2 DEF Distinct
  <2>4. k \in Nat /\ m \in Nat /\ i \in Nat
    BY <1>3, <1>6
  <2> QED BY <2>1, <2>2, <2>3, <2>4
<1>12. ASSUME NEW q \in Sockets \ {s}, NEW flag \in BOOLEAN, EntrySays(list, q, flag)
       PROVE  EntrySays(shorter, q, flag)
  BY <1>7, <1>12 DEF EntrySays
<1> QED BY <1>2, <1>10, <1>11, <1>12

\* A participant mutes or unmutes: its entry changes, and its entry only.
LEMMA MutedEffect ==
  ASSUME NEW list \in Seq(Entries), Distinct(list), NEW s \in Sockets, NEW flag \in BOOLEAN,
         NEW new,
         new = [i \in DOMAIN list |->
                  IF list[i].id = s THEN [id |-> s, muted |-> flag] ELSE list[i]]
  PROVE  /\ Ids(new) = Ids(list) /\ Distinct(new) /\ EntrySays(new, s, flag)
         /\ \A q \in Sockets \ {s} : \A f \in BOOLEAN :
              EntrySays(list, q, f) => EntrySays(new, q, f)
<1>1. /\ DOMAIN new = DOMAIN list
      /\ \A i \in DOMAIN list : /\ new[i].id = list[i].id
                                /\ list[i].id = s => new[i].muted = flag
                                /\ list[i].id # s => new[i] = list[i]
  OBVIOUS
<1>2. Ids(new) = Ids(list)
  BY <1>1 DEF Ids
<1>3. Distinct(new)
  BY <1>1 DEF Distinct
<1>4. EntrySays(new, s, flag)
  BY <1>1 DEF EntrySays
<1>5. \A q \in Sockets \ {s} : \A f \in BOOLEAN :
        EntrySays(list, q, f) => EntrySays(new, q, f)
  BY <1>1 DEF EntrySays
<1> QED BY <1>2, <1>3, <1>4, <1>5

\* Map.set for a participant that may be there already.
LEMMA SetEffect ==
  ASSUME NEW list \in Seq(Entries), Distinct(list), NEW s \in Sockets
  PROVE  /\ Ids(Entered(list, s)) = Ids(list) \cup {s}
         /\ Distinct(Entered(list, s))
         /\ EntrySays(Entered(list, s), s, FALSE)
         /\ \A q \in Sockets \ {s} : \A flag \in BOOLEAN :
              EntrySays(list, q, flag) => EntrySays(Entered(list, s), q, flag)
<1>1. CASE s \in Ids(list)
  <2>1. Entered(list, s) = [i \in DOMAIN list |->
          IF list[i].id = s THEN [id |-> s, muted |-> FALSE] ELSE list[i]]
    BY <1>1 DEF Entered
  <2>2. FALSE \in BOOLEAN
    OBVIOUS
  <2>3. /\ Ids(Entered(list, s)) = Ids(list) /\ Distinct(Entered(list, s))
        /\ EntrySays(Entered(list, s), s, FALSE)
        /\ \A q \in Sockets \ {s} : \A f \in BOOLEAN :
             EntrySays(list, q, f) => EntrySays(Entered(list, s), q, f)
    BY <2>1, <2>2, MutedEffect, Zenon
  <2> QED BY <1>1, <2>3
<1>2. CASE s \notin Ids(list)
  BY <1>2, EnteredEffect
<1> QED BY <1>1, <1>2

-----------------------------------------------------------------------------
(* The list of a call: where a tab stands *)

\* For the gateway the tab is out of the call, or in it, or about to be.
OutOfIt(s) == s \in overtaken \/ (admitting[s] = 0 /\ s \notin Ids(participants))
InIt(s) ==
  \/ s \in overtaken
  \/ admitting[s] = 1 /\ s \notin Ids(participants)
  \/ admitting[s] = 0 /\ (s \in Ids(participants) <=> s \notin refused)
\* The list shows its microphone as it is, or will.
Shown(s) ==
  \/ s \in overtaken
  \/ admitting[s] = 1 /\ selfMuted[s] = FALSE
  \/ admitting[s] = 0 /\ EntrySays(participants, s, selfMuted[s])

Placed(s) ==
  /\ Orderly(packets[s], phase[s])
  /\ WantsOut(packets[s], 1, phase[s]) => OutOfIt(s)
  /\ WantsIn(packets[s], 1, phase[s]) => InIt(s)
Told(s) ==
  phase[s] = "in" =>
    Truthful(packets[s], selfMuted[s]) /\ (Silent(packets[s], 1) => Shown(s))

CallInv == IInv /\ Distinct(participants) /\ \A s \in Sockets : Placed(s) /\ Told(s)

\* What the gateway holds of a tab, and what the tab has said.
SameRecord(s) ==
  /\ admitting'[s] = admitting[s]
  /\ s \in Ids(participants') <=> s \in Ids(participants)
  /\ \A flag \in BOOLEAN : EntrySays(participants, s, flag) => EntrySays(participants', s, flag)
  /\ s \in refused' <=> s \in refused
  /\ s \in overtaken' <=> s \in overtaken
SameWords(s) ==
  packets'[s] = packets[s] /\ phase'[s] = phase[s] /\ selfMuted'[s] = selfMuted[s]

LEMMA RecordKept ==
  ASSUME TypeOK, NEW s \in Sockets, SameRecord(s), selfMuted'[s] = selfMuted[s]
  PROVE  /\ OutOfIt(s) => OutOfIt(s)'
         /\ InIt(s) => InIt(s)'
         /\ Shown(s) => Shown(s)'
<1>1. selfMuted[s] \in BOOLEAN
  BY DEF TypeOK
<1>2. (OutOfIt(s) => OutOfIt(s)') /\ (InIt(s) => InIt(s)')
  BY DEF SameRecord, OutOfIt, InIt
<1>3. EntrySays(participants, s, selfMuted[s]) => EntrySays(participants', s, selfMuted'[s])
  BY <1>1 DEF SameRecord
<1>4. Shown(s) => Shown(s)'
  BY <1>3, Zenon DEF SameRecord, Shown
<1> QED BY <1>2, <1>4

LEMMA OthersKept ==
  ASSUME TypeOK, NEW s \in Sockets, Placed(s), Told(s), SameRecord(s), SameWords(s)
  PROVE  Placed(s)' /\ Told(s)'
<1>1. /\ OutOfIt(s) => OutOfIt(s)'
      /\ InIt(s) => InIt(s)'
      /\ Shown(s) => Shown(s)'
  BY RecordKept DEF SameWords
<1>2. Placed(s)'
  BY <1>1 DEF Placed, SameWords
<1>3. Told(s)'
  BY <1>1 DEF Told, SameWords
<1> QED BY <1>2, <1>3

\* The step of one tab leaves the words of the others and what is recorded of them.
LEMMA StepOfOne ==
  ASSUME CallInv, IInv', Distinct(participants'), NEW s \in Sockets,
         Placed(s)' /\ Told(s)',
         \A q \in Sockets \ {s} : SameRecord(q) /\ SameWords(q)
  PROVE  CallInv'
<1>1. ASSUME NEW q \in Sockets \ {s} PROVE Placed(q)' /\ Told(q)'
  BY <1>1, OthersKept DEF CallInv, IInv
<1>2. \A q \in Sockets : Placed(q)' /\ Told(q)'
  BY <1>1
<1> QED BY <1>2 DEF CallInv

\* What a person does touches what the tab says, and not what the gateway records.
LEMMA PersonPlaced ==
  ASSUME CallInv, IInv', NEW s \in Sockets,
         \/ JoinClicked(s) \/ MediaGranted(s) \/ MediaDenied(s)
         \/ LeaveClicked(s) \/ MuteToggled(s) \/ Disconnected(s)
  PROVE  CallInv'
<1>1. /\ TypeOK /\ Placed(s) /\ Told(s) /\ packets[s] \in Seq(Packets)
      /\ selfMuted[s] \in BOOLEAN
  BY DEF CallInv, IInv, TypeOK
<1>2. UNCHANGED <<participants, admitting, refused, overtaken>>
  BY DEF JoinClicked, MediaGranted, MediaDenied, LeaveClicked, MuteToggled, Disconnected,
         serverVars, historyVars
<1>3. \A q \in Sockets : SameRecord(q)
  BY <1>2 DEF SameRecord
<1>4. \A q \in Sockets \ {s} : SameWords(q)
  BY <1>1 DEF TypeOK, JoinClicked, MediaGranted, MediaDenied, LeaveClicked, MuteToggled,
              Disconnected, engineVars, Send, SameWords
<1>5. Distinct(participants')
  BY <1>2 DEF CallInv
<1>6. (OutOfIt(s)' <=> OutOfIt(s)) /\ (InIt(s)' <=> InIt(s))
  BY <1>2 DEF OutOfIt, InIt
<1>7. ASSUME NEW packet \in Packets, Send(s, packet),
             \/ packet.kind = "join" /\ phase[s] # "in" /\ phase'[s] = "in"
             \/ packet.kind \in Goodbyes /\ phase'[s] # "in"
             \/ packet.kind \notin Steps /\ phase'[s] = phase[s]
      PROVE  Placed(s)' /\ packets'[s] = Append(packets[s], packet)
  <2>1. packets'[s] = Append(packets[s], packet)
    BY <1>1, <1>7 DEF TypeOK, Send
  <2>2. /\ Orderly(packets'[s], phase'[s])
        /\ WantsOut(packets'[s], 1, phase'[s]) => WantsOut(packets[s], 1, phase[s])
        /\ WantsIn(packets'[s], 1, phase'[s]) => WantsIn(packets[s], 1, phase[s])
    <3>1. Orderly(packets[s], phase[s])
      BY <1>1 DEF Placed
    <3>2. LET longer == Append(packets[s], packet)
          IN  /\ Orderly(longer, phase'[s])
              /\ WantsOut(longer, 1, phase'[s]) => WantsOut(packets[s], 1, phase[s])
              /\ WantsIn(longer, 1, phase'[s]) => WantsIn(packets[s], 1, phase[s])
      BY <1>1, <1>7, <3>1, OrderlyAppended
    <3> QED BY <2>1, <3>2
  <2> QED BY <1>1, <1>6, <2>1, <2>2 DEF Placed
<1>8. CASE JoinClicked(s) \/ MediaDenied(s)
  <2>1. packets' = packets /\ phase[s] # "in" /\ phase'[s] # "in"
    BY <1>1, <1>8 DEF JoinClicked, MediaDenied, TypeOK
  <2>2. Placed(s)'
    BY <1>1, <1>6, <2>1 DEF Placed, Orderly, WantsOut, WantsIn
  <2>3. Told(s)'
    BY <2>1 DEF Told
  <2> QED BY <1>3, <1>4, <1>5, <2>2, <2>3, StepOfOne
<1>9. CASE MediaGranted(s)
  <2> DEFINE packet == [kind |-> "join"]
  <2>1. packet \in Packets /\ packet.kind = "join"
    BY DEF Packets
  <2>2. Send(s, packet) /\ phase[s] # "in" /\ phase'[s] = "in" /\ selfMuted'[s] = FALSE
    BY <1>1, <1>9 DEF MediaGranted, TypeOK
  <2> HIDE DEF packet
  <2>3. Placed(s)' /\ packets'[s] = Append(packets[s], packet)
    BY <1>7, <2>1, <2>2
  <2>4. packet.kind \in Tells
    BY <2>1 DEF Tells, Steps
  <2>5. Truthful(packets'[s], FALSE) /\ ~Silent(packets'[s], 1)
    <3>1. LET longer == Append(packets[s], packet)
          IN  /\ Truthful(longer, FALSE)
              /\ Silent(longer, 1) => packet.kind \notin Tells
      BY <1>1, <2>1, TruthAppended
    <3> QED BY <2>3, <2>4, <3>1
  <2>6. Told(s)'
    BY <2>2, <2>5 DEF Told
  <2> QED BY <1>3, <1>4, <1>5, <2>3, <2>6, StepOfOne
<1>10. CASE LeaveClicked(s) \/ Disconnected(s)
  <2>1. PICK kind \in Goodbyes : Send(s, [kind |-> kind])
    BY <1>10 DEF LeaveClicked, Disconnected, Goodbyes
  <2> DEFINE packet == [kind |-> kind]
  <2>2. packet \in Packets /\ packet.kind \in Goodbyes
    BY <2>1 DEF Packets, Goodbyes
  <2>3. phase'[s] # "in"
    BY <1>1, <1>10 DEF LeaveClicked, Disconnected, TypeOK
  <2> HIDE DEF packet
  <2>4. Send(s, packet)
    BY <2>1 DEF packet
  <2>5. Placed(s)'
    BY <1>7, <2>2, <2>3, <2>4
  <2>6. Told(s)'
    BY <2>3 DEF Told
  <2> QED BY <1>3, <1>4, <1>5, <2>5, <2>6, StepOfOne
<1>11. CASE MuteToggled(s)
  <2> DEFINE flag == MuteFlag(s)
             packet == [kind |-> "mute", muted |-> flag]
  <2>1. flag \in BOOLEAN /\ flag = ~selfMuted[s]
    BY <1>1 DEF MuteFlag
  <2>2. packet \in Packets /\ packet.kind = "mute" /\ packet.muted = flag
    BY <2>1 DEF Packets
  <2>3. Send(s, packet) /\ phase[s] = "in" /\ phase'[s] = phase[s]
    BY <1>11 DEF MuteToggled
  <2>4. selfMuted'[s] = flag
    BY <1>1, <1>11, <2>1 DEF MuteToggled, TypeOK
  <2> HIDE DEF packet, flag
  <2>5. packet.kind \in Tells /\ packet.kind \notin Steps
    BY <2>2 DEF Tells, Steps, Goodbyes
  <2>6. Placed(s)' /\ packets'[s] = Append(packets[s], packet)
    BY <1>7, <2>2, <2>3, <2>5
  <2>7. Truthful(packets'[s], flag) /\ ~Silent(packets'[s], 1)
    <3>1. LET longer == Append(packets[s], packet)
          IN  /\ Truthful(longer, flag)
              /\ Silent(longer, 1) => packet.kind \notin Tells
      BY <1>1, <2>2, TruthAppended
    <3> QED BY <2>5, <2>6, <3>1
  <2>8. Told(s)'
    BY <2>4, <2>7 DEF Told
  <2> QED BY <1>3, <1>4, <1>5, <2>6, <2>8, StepOfOne
<1> QED BY <1>8, <1>9, <1>10, <1>11

\* The engine sends offers and answers, which say nothing of the tab.
LEMMA EnginePlaced ==
  ASSUME CallInv, IInv', NEW s \in Sockets,
         \/ ParticipantsHeard(s) \/ LeftHeard(s) \/ OfferHeard(s) \/ AnswerHeard(s)
         \/ \E t \in awaiting[s] : OfferReady(s, t) \/ AnswerReady(s, t)
  PROVE  CallInv'
<1>1. /\ TypeOK /\ Placed(s) /\ Told(s) /\ packets[s] \in Seq(Packets)
  BY DEF CallInv, IInv, TypeOK
<1>2. UNCHANGED <<participants, admitting, refused, overtaken, phase, selfMuted>>
  BY DEF ParticipantsHeard, LeftHeard, OfferHeard, AnswerHeard, OfferReady, AnswerReady,
         serverVars, historyVars
<1>3. \A q \in Sockets : SameRecord(q)
  BY <1>2 DEF SameRecord
<1>4. Distinct(participants')
  BY <1>2 DEF CallInv
<1>5. CASE packets' = packets
  <2>1. \A q \in Sockets : SameWords(q)
    BY <1>2, <1>5 DEF SameWords
  <2>2. Placed(s)' /\ Told(s)'
    BY <1>1, <1>3, <2>1, OthersKept
  <2> QED BY <1>3, <1>4, <2>1, <2>2, StepOfOne
<1>6. ASSUME NEW t \in awaiting[s], OfferReady(s, t) \/ AnswerReady(s, t)
      PROVE  CallInv'
  <2> DEFINE packet == [kind |-> t.kind, to |-> t.to, sdp |-> drafts'[s]]
  <2>1. Send(s, packet) /\ t.kind \in {"offer", "answer"}
    BY <1>6 DEF OfferReady, AnswerReady
  <2>2. packet \in Packets /\ packet.kind = t.kind
    <3>1. t.to \in Sockets
      BY <1>1 DEF TypeOK, Awaits
    <3>2. drafts'[s] \in Nat
      <4>1. drafts' = [drafts EXCEPT ![s] = @ + 1]
        BY <1>6 DEF OfferReady, AnswerReady
      <4> QED BY <1>1, <4>1 DEF TypeOK
    <3> QED BY <2>1, <3>1, <3>2 DEF Packets
  <2> HIDE DEF packet
  <2>3. packet.kind \notin Tells /\ packet.kind \notin Steps
    BY <2>1, <2>2 DEF Tells, Steps, Goodbyes
  <2>4. /\ packets'[s] = Append(packets[s], packet)
        /\ \A q \in Sockets \ {s} : packets'[q] = packets[q]
    BY <1>1, <2>1 DEF TypeOK, Send
  <2>5. /\ Orderly(packets'[s], phase[s])
        /\ WantsOut(packets'[s], 1, phase[s]) => WantsOut(packets[s], 1, phase[s])
        /\ WantsIn(packets'[s], 1, phase[s]) => WantsIn(packets[s], 1, phase[s])
    BY <1>1, <2>2, <2>3, <2>4, OrderlyAppended DEF Placed
  <2>6. Placed(s)'
    BY <1>1, <1>2, <2>5 DEF Placed, OutOfIt, InIt
  <2>7. phase[s] = "in" =>
          /\ Truthful(packets'[s], selfMuted[s])
          /\ Silent(packets'[s], 1) => Silent(packets[s], 1)
    <3> SUFFICES ASSUME phase[s] = "in"
                 PROVE  /\ Truthful(packets'[s], selfMuted[s])
                        /\ Silent(packets'[s], 1) => Silent(packets[s], 1)
      OBVIOUS
    <3>1. Truthful(packets[s], selfMuted[s])
      BY <1>1 DEF Told
    <3>2. LET longer == Append(packets[s], packet)
          IN  /\ Truthful(longer, selfMuted[s])
              /\ Silent(longer, 1) => Silent(packets[s], 1)
      BY <1>1, <2>2, <2>3, <3>1, TruthAppended
    <3> QED BY <2>4, <3>2
  <2>8. Told(s)'
    BY <1>1, <1>2, <2>7 DEF Told, Shown
  <2>9. \A q \in Sockets \ {s} : SameWords(q)
    BY <1>2, <2>4 DEF SameWords
  <2> QED BY <1>3, <1>4, <2>6, <2>8, <2>9, StepOfOne
<1>7. ParticipantsHeard(s) \/ LeftHeard(s) \/ OfferHeard(s) \/ AnswerHeard(s) => packets' = packets
  BY DEF ParticipantsHeard, LeftHeard, OfferHeard, AnswerHeard
<1> QED BY <1>5, <1>6, <1>7

\* What is left of the queue of a tab once the gateway has handled its next packet.
LEMMA PacketHandled ==
  ASSUME CallInv, NEW s \in Sockets, packets[s] # <<>>, Taken(s), phase' = phase,
         selfMuted' = selfMuted
  PROVE  LET head == Head(packets[s])
         IN  /\ packets'[s] = Tail(packets[s])
             /\ \A q \in Sockets \ {s} : SameWords(q)
             /\ Orderly(packets'[s], phase'[s])
             /\ head.kind = "join" => OutOfIt(s) /\ ~WantsOut(packets'[s], 1, phase'[s])
             /\ head.kind \in Goodbyes => ~WantsIn(packets'[s], 1, phase'[s])
             /\ head.kind \notin Steps =>
                  /\ WantsOut(packets'[s], 1, phase'[s]) => OutOfIt(s)
                  /\ WantsIn(packets'[s], 1, phase'[s]) => InIt(s)
             /\ phase'[s] = "in" => Truthful(packets'[s], selfMuted[s])
             /\ phase'[s] = "in" /\ Silent(packets'[s], 1) =>
                  /\ head.kind = "mute" => head.muted = selfMuted[s]
                  /\ head.kind = "join" => selfMuted[s] = FALSE
                  /\ head.kind \notin Tells => Shown(s)
                  /\ WantsIn(packets'[s], 1, phase'[s])
<1> DEFINE queue == packets[s]
<1>1. TypeOK /\ Placed(s) /\ Told(s) /\ queue \in Seq(Packets)
  BY DEF CallInv, IInv, TypeOK
<1>2. packets'[s] = Tail(queue) /\ \A q \in Sockets \ {s} : packets'[q] = packets[q]
  BY <1>1 DEF Taken, TypeOK
<1>3. \A q \in Sockets \ {s} : SameWords(q)
  BY <1>2 DEF SameWords
<1>4. Orderly(queue, phase[s])
  BY <1>1 DEF Placed
<1>5. /\ Orderly(Tail(queue), phase[s])
      /\ Head(queue).kind = "join" =>
           WantsOut(queue, 1, phase[s]) /\ ~WantsOut(Tail(queue), 1, phase[s])
      /\ Head(queue).kind \in Goodbyes => ~WantsIn(Tail(queue), 1, phase[s])
      /\ Head(queue).kind \notin Steps =>
           /\ WantsOut(Tail(queue), 1, phase[s]) <=> WantsOut(queue, 1, phase[s])
           /\ WantsIn(Tail(queue), 1, phase[s]) <=> WantsIn(queue, 1, phase[s])
  BY <1>1, <1>4, OrderlyTaken
<1>6. ASSUME phase[s] = "in"
      PROVE  /\ Truthful(Tail(queue), selfMuted[s])
             /\ Silent(Tail(queue), 1) =>
                  /\ Head(queue).kind = "mute" => Head(queue).muted = selfMuted[s]
                  /\ Head(queue).kind = "join" => selfMuted[s] = FALSE
                  /\ Head(queue).kind \notin Tells => Silent(queue, 1)
                  /\ NoStep(Tail(queue), 1)
  <2>1. Truthful(queue, selfMuted[s])
    BY <1>1, <1>6 DEF Told
  <2> QED BY <1>1, <2>1, TruthTaken
<1>7. /\ WantsOut(queue, 1, phase[s]) => OutOfIt(s)
      /\ WantsIn(queue, 1, phase[s]) => InIt(s)
      /\ phase[s] = "in" /\ Silent(queue, 1) => Shown(s)
  BY <1>1 DEF Placed, Told
<1>8. phase[s] = "in" /\ NoStep(Tail(queue), 1) => WantsIn(Tail(queue), 1, phase[s])
  BY DEF WantsIn
<1> HIDE DEF queue
<1>9. phase'[s] = phase[s] /\ queue = packets[s]
  BY DEF queue
<1> QED BY <1>2, <1>3, <1>5, <1>6, <1>7, <1>8, <1>9

\* A packet that is no step leaves the tab where it stands.
LEMMA PlacedKept ==
  ASSUME NEW s \in Sockets,
         Orderly(packets'[s], phase'[s]),
         WantsOut(packets'[s], 1, phase'[s]) => OutOfIt(s)',
         WantsIn(packets'[s], 1, phase'[s]) => InIt(s)'
  PROVE  Placed(s)'
BY DEF Placed

LEMMA JoinPlaced ==
  ASSUME CallInv, IInv', NEW s \in Sockets, JoinReceived(s)
  PROVE  CallInv'
<1>1. /\ packets[s] # <<>> /\ Taken(s) /\ phase' = phase /\ selfMuted' = selfMuted
      /\ Head(packets[s]).kind = "join"
  BY DEF JoinReceived, Received, engineVars
<1>2. /\ UNCHANGED <<participants, refused, overtaken>>
      /\ admitting'[s] = admitting[s] + 1 /\ admitting[s] \in Nat
      /\ \A q \in Sockets \ {s} : admitting'[q] = admitting[q]
  BY DEF JoinReceived, historyVars, CallInv, IInv, TypeOK
<1>3. /\ \A q \in Sockets \ {s} : SameWords(q)
      /\ Orderly(packets'[s], phase'[s])
      /\ OutOfIt(s) /\ ~WantsOut(packets'[s], 1, phase'[s])
      /\ phase'[s] = "in" => Truthful(packets'[s], selfMuted[s])
      /\ phase'[s] = "in" /\ Silent(packets'[s], 1) => selfMuted[s] = FALSE
  BY <1>1, PacketHandled
<1>4. InIt(s)'
  BY <1>2, <1>3 DEF OutOfIt, InIt
<1>5. Placed(s)'
  BY <1>3, <1>4, PlacedKept
<1>6. phase'[s] = "in" /\ Silent(packets'[s], 1) => Shown(s)'
  <2> SUFFICES ASSUME phase'[s] = "in", Silent(packets'[s], 1) PROVE Shown(s)'
    OBVIOUS
  <2>1. selfMuted'[s] = FALSE
    BY <1>1, <1>3
  <2>2. s \in overtaken' \/ admitting'[s] = 1
    BY <1>2, <1>3 DEF OutOfIt
  <2> QED BY <2>1, <2>2 DEF Shown
<1>7. Told(s)'
  BY <1>1, <1>3, <1>6 DEF Told
<1>8. \A q \in Sockets \ {s} : SameRecord(q)
  BY <1>2 DEF SameRecord
<1>9. Distinct(participants')
  BY <1>2 DEF CallInv
<1> QED BY <1>3, <1>5, <1>7, <1>8, <1>9, StepOfOne

\* A join that has waited is answered.
LEMMA AnsweredPlaced ==
  ASSUME CallInv, IInv', NEW s \in Sockets, Admitted(s) \/ Forbidden(s)
  PROVE  CallInv'
<1>1. /\ TypeOK /\ Placed(s) /\ Told(s) /\ Distinct(participants)
      /\ admitting[s] \in Nat /\ admitting[s] > 0
      /\ admitting'[s] = admitting[s] - 1
      /\ \A q \in Sockets \ {s} : admitting'[q] = admitting[q]
  BY DEF Admitted, Forbidden, CallInv, IInv, TypeOK
<1>2. UNCHANGED <<packets, phase, selfMuted, overtaken>>
  BY DEF Admitted, Forbidden, engineVars
<1>3. /\ Distinct(participants')
      /\ \A q \in Sockets \ {s} :
           /\ q \in Ids(participants') <=> q \in Ids(participants)
           /\ \A flag \in BOOLEAN : EntrySays(participants, q, flag) => EntrySays(participants', q, flag)
           /\ q \in refused' <=> q \in refused
  <2>1. CASE Admitted(s)
    <3>1. participants' = Entered(participants, s) /\ refused' = refused \ {s}
      BY <2>1 DEF Admitted
    <3>2. participants \in Seq(Entries)
      BY <1>1 DEF TypeOK
    <3>3. /\ Ids(Entered(participants, s)) = Ids(participants) \cup {s}
          /\ Distinct(Entered(participants, s))
          /\ \A q \in Sockets \ {s} : \A flag \in BOOLEAN :
               EntrySays(participants, q, flag) => EntrySays(Entered(participants, s), q, flag)
      BY <1>1, <3>2, SetEffect
    <3> QED BY <3>1, <3>3
  <2>2. CASE Forbidden(s)
    <3>1. participants' = participants /\ refused' = refused \cup {s}
      BY <2>2 DEF Forbidden
    <3> QED BY <1>1, <3>1
  <2> QED BY <2>1, <2>2
<1>4. /\ OutOfIt(s) => OutOfIt(s)'
      /\ InIt(s) => s \in overtaken' \/ (admitting[s] = 1 /\ admitting'[s] = 0 /\ s \notin Ids(participants))
      /\ Shown(s) => s \in overtaken' \/ (admitting[s] = 1 /\ admitting'[s] = 0 /\ selfMuted[s] = FALSE)
  BY <1>1, <1>2 DEF OutOfIt, InIt, Shown
<1>5. s \notin overtaken => s \in Ids(participants') <=> s \in Ids(participants) \/ s \notin refused'
  <2>1. CASE Admitted(s)
    <3>1. participants' = Entered(participants, s) /\ refused' = refused \ {s}
      BY <2>1 DEF Admitted
    <3>2. Ids(Entered(participants, s)) = Ids(participants) \cup {s}
      BY <1>1, SetEffect DEF TypeOK
    <3> QED BY <3>1, <3>2
  <2>2. CASE Forbidden(s)
    <3>1. participants' = participants /\ refused' = refused \cup {s}
      BY <2>2 DEF Forbidden
    <3> QED BY <3>1
  <2> QED BY <2>1, <2>2
<1>6. InIt(s) => InIt(s)'
  BY <1>2, <1>4, <1>5 DEF InIt
<1>7. InIt(s) /\ Shown(s) => Shown(s)'
  <2> SUFFICES ASSUME InIt(s), Shown(s), s \notin overtaken PROVE Shown(s)'
    BY <1>2 DEF Shown
  <2>1. /\ admitting'[s] = 0 /\ selfMuted'[s] = FALSE /\ s \notin Ids(participants)
    BY <1>2, <1>4
  <2>2. EntrySays(participants', s, FALSE)
    <3>1. CASE Admitted(s)
      <4>1. participants' = Entered(participants, s) /\ participants \in Seq(Entries)
        BY <1>1, <3>1 DEF Admitted, TypeOK
      <4> QED BY <1>1, <4>1, SetEffect
    <3>2. CASE Forbidden(s)
      BY <2>1, <3>2 DEF Forbidden, EntrySays, Ids
    <3> QED BY <3>1, <3>2
  <2> QED BY <2>1, <2>2 DEF Shown
<1>8. Placed(s)'
  BY <1>1, <1>2, <1>4, <1>6 DEF Placed
<1>9. phase[s] = "in" /\ Silent(packets[s], 1) => InIt(s)
  BY <1>1 DEF Placed, WantsIn, Silent, NoStep, Tells
<1>10. Told(s)'
  BY <1>1, <1>2, <1>7, <1>9 DEF Told
<1>11. \A q \in Sockets \ {s} : SameRecord(q) /\ SameWords(q)
  BY <1>1, <1>2, <1>3 DEF SameRecord, SameWords
<1> QED BY <1>3, <1>8, <1>10, <1>11, StepOfOne

LEMMA DroppedPlaced ==
  ASSUME CallInv, IInv', NEW s \in Sockets, Dropped(s)
  PROVE  CallInv'
<1>1. /\ packets[s] # <<>> /\ Taken(s) /\ phase' = phase /\ selfMuted' = selfMuted
      /\ Head(packets[s]).kind \in Goodbyes
  BY DEF Dropped, Received, engineVars, Goodbyes
<1>2. /\ UNCHANGED <<admitting, refused>> /\ participants' = Without(participants, s)
      /\ overtaken' = IF admitting[s] = 0 THEN overtaken \ {s} ELSE overtaken \cup {s}
  BY DEF Dropped
<1>3. /\ \A q \in Sockets \ {s} : SameWords(q)
      /\ Orderly(packets'[s], phase'[s])
      /\ ~WantsIn(packets'[s], 1, phase'[s])
      /\ phase'[s] = "in" => Truthful(packets'[s], selfMuted[s])
      /\ phase'[s] = "in" /\ Silent(packets'[s], 1) => WantsIn(packets'[s], 1, phase'[s])
  BY <1>1, PacketHandled
<1>4. /\ Ids(participants') = Ids(participants) \ {s} /\ Distinct(participants')
      /\ \A q \in Sockets \ {s} : \A flag \in BOOLEAN :
           EntrySays(participants, q, flag) => EntrySays(participants', q, flag)
  <2>1. participants \in Seq(Entries) /\ Distinct(participants)
    BY DEF CallInv, IInv, TypeOK
  <2>2. CASE s \in Ids(participants)
    BY <1>2, <2>1, <2>2, WithoutEffect
  <2>3. CASE s \notin Ids(participants)
    BY <1>2, <2>1, <2>3 DEF Without
  <2> QED BY <2>2, <2>3
<1>5. OutOfIt(s)'
  BY <1>2, <1>4 DEF OutOfIt
<1>6. Placed(s)'
  BY <1>3, <1>5, PlacedKept
<1>7. Told(s)'
  BY <1>1, <1>3 DEF Told
<1>8. \A q \in Sockets \ {s} : SameRecord(q)
  BY <1>2, <1>4 DEF SameRecord
<1> QED BY <1>3, <1>4, <1>6, <1>7, <1>8, StepOfOne

LEMMA MutePlaced ==
  ASSUME CallInv, IInv', NEW s \in Sockets, MuteReceived(s)
  PROVE  CallInv'
<1> DEFINE flag == Head(packets[s]).muted
<1>1. /\ packets[s] # <<>> /\ Taken(s) /\ phase' = phase /\ selfMuted' = selfMuted
      /\ Head(packets[s]).kind = "mute"
  BY DEF MuteReceived, Received, engineVars
<1>2. /\ UNCHANGED <<admitting, refused>>
      /\ overtaken' = IF admitting[s] = 0 THEN overtaken ELSE overtaken \cup {s}
      /\ participants' = [i \in DOMAIN participants |->
           IF participants[i].id = s THEN [id |-> s, muted |-> flag] ELSE participants[i]]
  BY DEF MuteReceived
<1>3. "mute" \notin Steps
  BY DEF Steps, Goodbyes
<1>4. /\ \A q \in Sockets \ {s} : SameWords(q)
      /\ Orderly(packets'[s], phase'[s])
      /\ WantsOut(packets'[s], 1, phase'[s]) => OutOfIt(s)
      /\ WantsIn(packets'[s], 1, phase'[s]) => InIt(s)
      /\ phase'[s] = "in" => Truthful(packets'[s], selfMuted[s])
      /\ phase'[s] = "in" /\ Silent(packets'[s], 1) => flag = selfMuted[s]
  BY <1>1, <1>3, PacketHandled
<1>5. flag \in BOOLEAN
  <2>1. Head(packets[s]) \in Packets
    BY <1>1, HeadOfPackets DEF CallInv, IInv
  <2> QED BY <1>1, <2>1 DEF Packets
<1> HIDE DEF flag
<1>6. /\ Ids(participants') = Ids(participants) /\ Distinct(participants')
      /\ EntrySays(participants', s, flag)
      /\ \A q \in Sockets \ {s} : \A f \in BOOLEAN :
           EntrySays(participants, q, f) => EntrySays(participants', q, f)
  <2>1. participants \in Seq(Entries) /\ Distinct(participants)
    BY DEF CallInv, IInv, TypeOK
  <2> QED BY <1>2, <1>5, <2>1, MutedEffect
<1>7. (OutOfIt(s) => OutOfIt(s)') /\ (InIt(s) => InIt(s)')
  BY <1>2, <1>6 DEF OutOfIt, InIt
<1>8. Placed(s)'
  BY <1>4, <1>7, PlacedKept
<1>9. phase'[s] = "in" /\ Silent(packets'[s], 1) => Shown(s)'
  <2> SUFFICES ASSUME phase'[s] = "in", Silent(packets'[s], 1) PROVE Shown(s)'
    OBVIOUS
  <2>1. EntrySays(participants', s, selfMuted'[s])
    BY <1>1, <1>4, <1>6
  <2>2. admitting'[s] = 0 \/ s \in overtaken'
    BY <1>2
  <2> QED BY <2>1, <2>2 DEF Shown
<1>10. Told(s)'
  BY <1>1, <1>4, <1>9 DEF Told
<1>11. \A q \in Sockets \ {s} : SameRecord(q)
  BY <1>2, <1>6 DEF SameRecord
<1> QED BY <1>4, <1>6, <1>8, <1>10, <1>11, StepOfOne

LEMMA RelayPlaced ==
  ASSUME CallInv, IInv', NEW s \in Sockets, SdpRelayed(s)
  PROVE  CallInv'
<1>1. /\ packets[s] # <<>> /\ Taken(s) /\ phase' = phase /\ selfMuted' = selfMuted
      /\ Head(packets[s]).kind \in {"offer", "answer"}
  BY DEF SdpRelayed, Received, engineVars
<1>2. UNCHANGED <<participants, admitting, refused, overtaken>>
  BY DEF SdpRelayed, serverVars, historyVars
<1>3. Head(packets[s]).kind \notin Steps /\ Head(packets[s]).kind \notin Tells
  BY <1>1 DEF Tells, Steps, Goodbyes
<1>4. /\ \A q \in Sockets \ {s} : SameWords(q)
      /\ Orderly(packets'[s], phase'[s])
      /\ WantsOut(packets'[s], 1, phase'[s]) => OutOfIt(s)
      /\ WantsIn(packets'[s], 1, phase'[s]) => InIt(s)
      /\ phase'[s] = "in" => Truthful(packets'[s], selfMuted[s])
      /\ phase'[s] = "in" /\ Silent(packets'[s], 1) => Shown(s)
  BY <1>1, <1>3, PacketHandled
<1>5. \A q \in Sockets : SameRecord(q)
  BY <1>2 DEF SameRecord
<1>6. (OutOfIt(s) => OutOfIt(s)') /\ (InIt(s) => InIt(s)') /\ (Shown(s) => Shown(s)')
  <2>1. selfMuted'[s] = selfMuted[s] /\ TypeOK
    BY <1>1 DEF CallInv, IInv
  <2> QED BY <1>5, <2>1, RecordKept
<1>7. Placed(s)'
  BY <1>4, <1>6, PlacedKept
<1>8. Told(s)'
  BY <1>1, <1>4, <1>6 DEF Told
<1>9. Distinct(participants')
  BY <1>2 DEF CallInv
<1> QED BY <1>4, <1>5, <1>7, <1>8, <1>9, StepOfOne

LEMMA InitCallInv == Init => CallInv
<1> SUFFICES ASSUME Init PROVE CallInv
  OBVIOUS
<1>1. IInv
  BY InitIInv
<1>2. DOMAIN participants = {} /\ \A s \in Sockets : DOMAIN packets[s] = {}
  BY DEF Init
<1>3. Distinct(participants) /\ Ids(participants) = {}
  BY <1>2 DEF Distinct, Ids
<1>4. ASSUME NEW s \in Sockets PROVE Placed(s) /\ Told(s)
  <2>1. phase[s] = "out" /\ admitting[s] = 0
    BY DEF Init
  <2>2. Orderly(packets[s], phase[s])
    BY <1>2 DEF Orderly
  <2>3. OutOfIt(s)
    BY <1>3, <2>1 DEF OutOfIt
  <2> QED BY <2>1, <2>2, <2>3 DEF Placed, Told, WantsIn
<1> QED BY <1>1, <1>3, <1>4 DEF CallInv

LEMMA NextCallInv == CallInv /\ [Next]_vars => CallInv'
<1> SUFFICES ASSUME CallInv, [Next]_vars PROVE CallInv'
  OBVIOUS
<1>1. IInv'
  BY NextIInv DEF CallInv
<1>2. CASE UNCHANGED vars
  <2>1. \A s \in Sockets : SameRecord(s) /\ SameWords(s)
    BY <1>2 DEF vars, serverVars, engineVars, historyVars, SameRecord, SameWords
  <2>2. \A s \in Sockets : Placed(s)' /\ Told(s)'
    BY <2>1, OthersKept DEF CallInv, IInv
  <2>3. Distinct(participants')
    BY <1>2 DEF vars, serverVars, CallInv
  <2> QED BY <1>1, <2>2, <2>3 DEF CallInv
<1>3. ASSUME NEW s \in Sockets,
             \/ JoinClicked(s) \/ MediaGranted(s) \/ MediaDenied(s)
             \/ LeaveClicked(s) \/ MuteToggled(s) \/ Disconnected(s)
      PROVE  CallInv'
  BY <1>1, <1>3, PersonPlaced
<1>4. ASSUME NEW s \in Sockets,
             \/ JoinReceived(s) \/ Admitted(s) \/ Forbidden(s) \/ Dropped(s)
             \/ MuteReceived(s) \/ SdpRelayed(s)
      PROVE  CallInv'
  BY <1>1, <1>4, JoinPlaced, AnsweredPlaced, DroppedPlaced, MutePlaced, RelayPlaced
<1>5. ASSUME NEW s \in Sockets,
             \/ ParticipantsHeard(s) \/ LeftHeard(s) \/ OfferHeard(s) \/ AnswerHeard(s)
             \/ \E t \in awaiting[s] : OfferReady(s, t) \/ AnswerReady(s, t)
      PROVE  CallInv'
  BY <1>1, <1>5, EnginePlaced
<1> QED BY <1>2, <1>3, <1>4, <1>5 DEF Next

LEMMA SettledList == CallInv => ListIsTrue
<1> SUFFICES ASSUME CallInv, Settled, NEW s \in Sockets \ overtaken
             PROVE  /\ s \in Ids(participants) <=> phase[s] = "in" /\ s \notin refused
                    /\ \A i \in DOMAIN participants :
                         participants[i].id = s => participants[i].muted = selfMuted[s]
  BY DEF ListIsTrue
<1>1. Placed(s) /\ Told(s) /\ packets[s] = <<>> /\ admitting[s] = 0
  BY DEF CallInv, Settled
<1>2. NoStep(packets[s], 1) /\ Silent(packets[s], 1)
  BY <1>1 DEF NoStep, Silent
<1>3. CASE phase[s] = "in"
  <2>1. InIt(s) /\ Shown(s)
    BY <1>1, <1>2, <1>3 DEF Placed, Told, WantsIn
  <2>2. EntrySays(participants, s, selfMuted[s])
    BY <1>1, <2>1 DEF Shown
  <2>3. s \in Ids(participants) <=> s \notin refused
    BY <1>1, <2>1 DEF InIt
  <2> QED BY <1>3, <2>2, <2>3 DEF EntrySays
<1>4. CASE phase[s] # "in"
  <2>1. s \notin Ids(participants)
    BY <1>1, <1>2, <1>4 DEF Placed, WantsOut, OutOfIt
  <2> QED BY <1>4, <2>1 DEF Ids
<1> QED BY <1>3, <1>4

\* At rest the gateway lists the tabs that are in the call, their microphones as
\* they are, and no other: through overlapping permission checks, refusals, leaves,
\* closings and calls begun again, for every tab whose join nothing has overtaken.
THEOREM ListAlwaysTrue == Spec => []ListIsTrue
<1> QED BY InitCallInv, NextCallInv, SettledList, PTL DEF Spec

=============================================================================
