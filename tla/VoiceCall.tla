----------------------------- MODULE VoiceCall -----------------------------
(***************************************************************************)
(* The voice call of one meeting: the participant list of the gateway, the *)
(* signaling it relays, and the full mesh the VoiceChat engine of each tab *)
(* builds from it.                                                         *)
(*                                                                         *)
(* The gateway adds a participant after an await (assertPermission).  A    *)
(* tab handles one event at a time, but reconciling its peers awaits an    *)
(* offer in the middle of the list: several reconciliations and answers    *)
(* are in progress at once, and the promise of a connection that is closed *)
(* never settles.  The camera, the media and its ICE candidates are left   *)
(* out: a camera that is on at the join is told to nobody before the next  *)
(* toggle, so it does not travel the way of the microphone.                *)
(***************************************************************************)
EXTENDS Naturals, SequencesExt

CONSTANTS
  Sockets,   \* ids of the sockets of the tabs, which the engine compares
  MaxJoins,  \* bound on the calls of all tabs together
  MaxMutes   \* bound on the toggles of all microphones together

ASSUME VoiceConstants ==
  /\ Sockets \subseteq Nat \ {0}
  /\ MaxJoins \in Nat /\ MaxMutes \in Nat

VARIABLES
  participants,  \* voiceParticipants of the meeting, in the order of the Map
  admitting,     \* voice.join handlers that await assertPermission
  packets,       \* from a tab to the gateway
  wire,          \* from the gateway to a tab
  phase,         \* of a tab: out of the call, asking for the microphone, in it
  selfMuted,
  peers,         \* VoiceChat.peers
  awaiting,      \* offers and answers in preparation
  drafts,        \* number of session descriptions a tab has made: names them
  joins, mutes,  \* counted for the bounds
  refused,       \* history: tabs whose latest join was refused
  overtaken      \* history: tabs of which something was handled before their join

serverVars == <<participants, admitting>>
engineVars == <<selfMuted, peers, awaiting, drafts>>
humanVars == <<joins, mutes>>
historyVars == <<refused, overtaken>>
vars == <<serverVars, packets, wire, phase, engineVars, humanVars, historyVars>>

Entries == [id : Sockets, muted : BOOLEAN]
Ids(list) == {list[i].id : i \in DOMAIN list}

\* A description is named by its tab and its number there; 0 is none.
Absent == [conn |-> "absent", local |-> 0, remote |-> 0, muted |-> FALSE]
Connections == {"absent", "none", "creating", "offering", "answering", "stable"}
Peers == [conn : Connections, local : Nat, remote : Nat, muted : BOOLEAN]

Packets ==
  [kind : {"join", "leave", "disconnect"}]
  \cup [kind : {"mute"}, muted : BOOLEAN]
  \cup [kind : {"offer", "answer"}, to : Sockets, sdp : Nat]
Messages ==
  [kind : {"participants"}, list : Seq(Entries)]
  \cup [kind : {"left"}, id : Sockets]
  \cup [kind : {"offer", "answer"}, from : Sockets, sdp : Nat]
Awaits ==
  \* syncParticipants inside offerTo: what is left of its list and the whole of it
  [kind : {"offer"}, to : Sockets, todo : Seq(Entries), alive : SUBSET Sockets]
  \cup [kind : {"answer"}, to : Sockets, sdp : Nat]

TypeOK ==
  /\ participants \in Seq(Entries)
  /\ admitting \in [Sockets -> Nat]
  /\ packets \in [Sockets -> Seq(Packets)]
  /\ wire \in [Sockets -> Seq(Messages)]
  /\ phase \in [Sockets -> {"out", "asking", "in", "closed"}]
  /\ selfMuted \in [Sockets -> BOOLEAN]
  /\ peers \in [Sockets -> [Sockets -> Peers]]
  /\ awaiting \in [Sockets -> SUBSET Awaits]
  /\ drafts \in [Sockets -> Nat]
  /\ joins \in [Sockets -> Nat] /\ mutes \in 0..MaxMutes
  /\ refused \subseteq Sockets /\ overtaken \subseteq Sockets

NoPeers == [p \in Sockets |-> Absent]

Init ==
  /\ participants = <<>>
  /\ admitting = [s \in Sockets |-> 0]
  /\ packets = [s \in Sockets |-> <<>>]
  /\ wire = [s \in Sockets |-> <<>>]
  /\ phase = [s \in Sockets |-> "out"]
  /\ selfMuted = [s \in Sockets |-> FALSE]
  /\ peers = [s \in Sockets |-> NoPeers]
  /\ awaiting = [s \in Sockets |-> {}]
  /\ drafts = [s \in Sockets |-> 0]
  /\ joins = [s \in Sockets |-> 0] /\ mutes = 0
  /\ refused = {} /\ overtaken = {}

-----------------------------------------------------------------------------
(* The person at a tab *)

Send(s, packet) == packets' = [packets EXCEPT ![s] = Append(@, packet)]

\* Counted for the bound.
Calls == FoldFunction(+, 0, joins)

JoinClicked(s) ==
  /\ phase[s] = "out"
  /\ Calls < MaxJoins
  /\ phase' = [phase EXCEPT ![s] = "asking"]
  /\ joins' = [joins EXCEPT ![s] = @ + 1]
  /\ UNCHANGED <<serverVars, packets, wire, engineVars, mutes, historyVars>>

\* The tab counts itself in the call; the answer of the gateway is not read.
MediaGranted(s) ==
  /\ phase[s] = "asking"
  /\ phase' = [phase EXCEPT ![s] = "in"]
  /\ selfMuted' = [selfMuted EXCEPT ![s] = FALSE]
  /\ Send(s, [kind |-> "join"])
  /\ UNCHANGED <<serverVars, wire, peers, awaiting, drafts, humanVars, historyVars>>

MediaDenied(s) ==
  /\ phase[s] = "asking"
  /\ phase' = [phase EXCEPT ![s] = "out"]
  /\ UNCHANGED <<serverVars, packets, wire, engineVars, humanVars, historyVars>>

\* The connections would be forgotten and not closed.
TornDownUnclosed(s) ==
  /\ peers' = [peers EXCEPT ![s] = NoPeers]
  /\ UNCHANGED awaiting
\* Closing the connections ends what awaits them.
TornDown(s) ==
  /\ peers' = [peers EXCEPT ![s] = NoPeers]
  /\ awaiting' = [awaiting EXCEPT ![s] = {}]

LeaveClicked(s) ==
  /\ phase[s] = "in"
  /\ phase' = [phase EXCEPT ![s] = "out"]
  /\ selfMuted' = [selfMuted EXCEPT ![s] = FALSE]
  /\ TornDown(s)
  /\ Send(s, [kind |-> "leave"])
  /\ UNCHANGED <<serverVars, wire, drafts, humanVars, historyVars>>

\* The state would be sent before it is changed.
MuteFlagStale(s) == selfMuted[s]
MuteFlag(s) == ~selfMuted[s]

MuteToggled(s) ==
  /\ phase[s] = "in"
  /\ mutes < MaxMutes
  /\ mutes' = mutes + 1
  /\ selfMuted' = [selfMuted EXCEPT ![s] = ~@]
  /\ Send(s, [kind |-> "mute", muted |-> MuteFlag(s)])
  /\ UNCHANGED <<serverVars, wire, phase, peers, awaiting, drafts, joins, historyVars>>

\* The tab is closed; what it has sent still arrives.
Disconnected(s) ==
  /\ phase[s] # "closed"
  /\ phase' = [phase EXCEPT ![s] = "closed"]
  /\ TornDown(s)
  /\ Send(s, [kind |-> "disconnect"])
  /\ UNCHANGED <<serverVars, wire, selfMuted, drafts, humanVars, historyVars>>

-----------------------------------------------------------------------------
(* RealtimeGateway *)

\* The sockets in the voice room: a closed one has left it.
Room(list) == {s \in Ids(list) : phase[s] # "closed"}
Emit(to, message) == [s \in Sockets |-> IF s \in to THEN Append(wire[s], message) ELSE wire[s]]
Listed(list) == [kind |-> "participants", list |-> list]

Received(s, kinds) == packets[s] # <<>> /\ Head(packets[s]).kind \in kinds
Taken(s) == packets' = [packets EXCEPT ![s] = Tail(@)]

JoinReceived(s) ==
  /\ Received(s, {"join"})
  /\ Taken(s)
  /\ admitting' = [admitting EXCEPT ![s] = @ + 1]
  /\ UNCHANGED <<participants, wire, phase, engineVars, humanVars, historyVars>>

\* Map.set: a participant that is there keeps its place.
Entered(list, s) ==
  IF s \in Ids(list)
  THEN [i \in DOMAIN list |-> IF list[i].id = s THEN [id |-> s, muted |-> FALSE] ELSE list[i]]
  ELSE Append(list, [id |-> s, muted |-> FALSE])

Admitted(s) ==
  /\ admitting[s] > 0
  /\ admitting' = [admitting EXCEPT ![s] = @ - 1]
  /\ participants' = Entered(participants, s)
  /\ wire' = Emit(Room(participants'), Listed(participants'))
  /\ refused' = refused \ {s}
  /\ UNCHANGED <<packets, phase, engineVars, humanVars, overtaken>>

Forbidden(s) ==
  /\ admitting[s] > 0
  /\ admitting' = [admitting EXCEPT ![s] = @ - 1]
  /\ refused' = refused \cup {s}
  /\ UNCHANGED <<participants, packets, wire, phase, engineVars, humanVars, overtaken>>

Without(list, s) ==
  IF s \in Ids(list) THEN RemoveAt(list, CHOOSE i \in DOMAIN list : list[i].id = s) ELSE list

\* dropVoiceParticipant, for voice.leave and for a disconnect.
Dropped(s) ==
  /\ Received(s, {"leave", "disconnect"})
  /\ Taken(s)
  /\ participants' = Without(participants, s)
  /\ wire' = IF s \in Ids(participants)
             THEN Emit(Room(participants'), [kind |-> "left", id |-> s])
             ELSE wire
  /\ overtaken' = IF admitting[s] = 0 THEN overtaken \ {s} ELSE overtaken \cup {s}
  /\ UNCHANGED <<admitting, phase, engineVars, humanVars, refused>>

\* updateVoiceState; from a socket that is not in the call it is refused.
MuteReceived(s) ==
  /\ Received(s, {"mute"})
  /\ Taken(s)
  /\ participants' = [i \in DOMAIN participants |->
       IF participants[i].id = s THEN [id |-> s, muted |-> Head(packets[s]).muted]
                                 ELSE participants[i]]
  /\ wire' = IF s \in Ids(participants)
             THEN Emit(Room(participants), Listed(participants'))
             ELSE wire
  /\ overtaken' = IF admitting[s] = 0 THEN overtaken ELSE overtaken \cup {s}
  /\ UNCHANGED <<admitting, phase, engineVars, humanVars, refused>>

SdpRelayed(s) ==
  /\ Received(s, {"offer", "answer"})
  /\ Taken(s)
  /\ LET packet == Head(packets[s])
     IN  wire' = IF s \in Ids(participants) /\ phase[packet.to] # "closed"
                 THEN Emit({packet.to}, [kind |-> packet.kind, from |-> s, sdp |-> packet.sdp])
                 ELSE wire
  /\ UNCHANGED <<serverVars, phase, engineVars, humanVars, historyVars>>

-----------------------------------------------------------------------------
(* VoiceChat *)

Heard(s, kind) == wire[s] # <<>> /\ Head(wire[s]).kind = kind
Consumed(s) == wire' = [wire EXCEPT ![s] = Tail(@)]

\* Only a new peer would take the state of the list.
KnownOnce(entry, old) ==
  IF old.conn = "absent" THEN [old EXCEPT !.conn = "none", !.muted = entry.muted] ELSE old
Known(entry, old) ==
  [old EXCEPT !.conn = IF @ = "absent" THEN "none" ELSE @, !.muted = entry.muted]

\* Both sides of a pair would offer.
OffersAny(s, p, map) == s # p /\ map[p].conn \in {"absent", "none"}
\* A peer would be offered to again with every list.
OffersAgain(s, p, map) == s < p
\* Exactly one side of every pair offers, the one with the smaller id.
Offers(s, p, map) == s < p /\ map[p].conn \in {"absent", "none"}

\* One run of syncParticipants up to its next await or its end: the entries up
\* to the first peer that is to be offered to, or all of them, are known, and at
\* the end the peers that are not in the list are removed.
Reconciled(s, todo, alive, map, waiting) ==
  LET needs == {i \in DOMAIN todo : Offers(s, todo[i].id, map)}
      stop == IF needs = {} THEN Len(todo) ELSE CHOOSE i \in needs : \A j \in needs : i <= j
      seen == {i \in 1..stop : todo[i].id # s}
      known == [p \in Sockets |->
        IF \E i \in seen : todo[i].id = p
        THEN Known(todo[CHOOSE i \in seen : todo[i].id = p], map[p]) ELSE map[p]]
  IN  IF needs = {}
      THEN /\ peers' = [peers EXCEPT ![s] =
                [p \in Sockets |-> IF p \in alive THEN known[p] ELSE Absent]]
           /\ awaiting' = [awaiting EXCEPT ![s] = {t \in waiting : t.to \in alive}]
      ELSE /\ peers' = [peers EXCEPT ![s] = [known EXCEPT ![todo[stop].id].conn = "creating"]]
           /\ awaiting' = [awaiting EXCEPT ![s] = waiting \cup
                {[kind |-> "offer", to |-> todo[stop].id,
                  todo |-> SubSeq(todo, stop + 1, Len(todo)), alive |-> alive]}]

ParticipantsHeard(s) ==
  /\ Heard(s, "participants")
  /\ Consumed(s)
  /\ LET list == Head(wire[s]).list
     IN  IF phase[s] = "in"
         THEN Reconciled(s, list, Ids(list) \ {s}, peers[s], awaiting[s])
         ELSE UNCHANGED <<peers, awaiting>>
  /\ UNCHANGED <<serverVars, packets, phase, selfMuted, drafts, humanVars, historyVars>>

\* createOffer and setLocalDescription have come back: the offer goes out and
\* syncParticipants goes on with the list it was given then.
OfferReady(s, t) ==
  /\ t \in awaiting[s] /\ t.kind = "offer"
  /\ drafts' = [drafts EXCEPT ![s] = @ + 1]
  /\ Reconciled(s, t.todo, t.alive,
       [peers[s] EXCEPT ![t.to].conn = "offering", ![t.to].local = drafts'[s]],
       awaiting[s] \ {t})
  /\ Send(s, [kind |-> "offer", to |-> t.to, sdp |-> drafts'[s]])
  /\ UNCHANGED <<serverVars, wire, phase, selfMuted, humanVars, historyVars>>

OfferHeard(s) ==
  /\ Heard(s, "offer")
  /\ Consumed(s)
  /\ LET m == Head(wire[s])
     IN  IF phase[s] = "in"
         THEN /\ peers' = [peers EXCEPT ![s][m.from].conn = "answering"]
              /\ awaiting' = [awaiting EXCEPT ![s] = @ \cup
                   {[kind |-> "answer", to |-> m.from, sdp |-> m.sdp]}]
         ELSE UNCHANGED <<peers, awaiting>>
  /\ UNCHANGED <<serverVars, packets, phase, selfMuted, drafts, humanVars, historyVars>>

AnswerReady(s, t) ==
  /\ t \in awaiting[s] /\ t.kind = "answer"
  /\ drafts' = [drafts EXCEPT ![s] = @ + 1]
  /\ awaiting' = [awaiting EXCEPT ![s] = @ \ {t}]
  /\ peers' = [peers EXCEPT ![s][t.to] =
       [@ EXCEPT !.conn = "stable", !.local = drafts'[s], !.remote = t.sdp]]
  /\ Send(s, [kind |-> "answer", to |-> t.to, sdp |-> drafts'[s]])
  /\ UNCHANGED <<serverVars, wire, phase, selfMuted, humanVars, historyVars>>

\* Meaningful only while an offer of ours is pending.
AnswerHeard(s) ==
  /\ Heard(s, "answer")
  /\ Consumed(s)
  /\ LET m == Head(wire[s])
     IN  peers' = IF phase[s] = "in" /\ peers[s][m.from].conn = "offering"
                  THEN [peers EXCEPT ![s][m.from] = [@ EXCEPT !.conn = "stable", !.remote = m.sdp]]
                  ELSE peers
  /\ UNCHANGED <<serverVars, packets, phase, selfMuted, awaiting, drafts, humanVars, historyVars>>

LeftHeard(s) ==
  /\ Heard(s, "left")
  /\ Consumed(s)
  /\ LET gone == Head(wire[s]).id
     IN  IF phase[s] = "in"
         THEN /\ peers' = [peers EXCEPT ![s][gone] = Absent]
              /\ awaiting' = [awaiting EXCEPT ![s] = {t \in @ : t.to # gone}]
         ELSE UNCHANGED <<peers, awaiting>>
  /\ UNCHANGED <<serverVars, packets, phase, selfMuted, drafts, humanVars, historyVars>>

-----------------------------------------------------------------------------

Next == \E s \in Sockets :
  \/ JoinClicked(s) \/ MediaGranted(s) \/ MediaDenied(s)
  \/ LeaveClicked(s) \/ MuteToggled(s) \/ Disconnected(s)
  \/ JoinReceived(s) \/ Admitted(s) \/ Forbidden(s) \/ Dropped(s)
  \/ MuteReceived(s) \/ SdpRelayed(s)
  \/ ParticipantsHeard(s) \/ LeftHeard(s) \/ OfferHeard(s) \/ AnswerHeard(s)
  \/ \E t \in awaiting[s] : OfferReady(s, t) \/ AnswerReady(s, t)

Spec == Init /\ [][Next]_vars

-----------------------------------------------------------------------------
(* Properties *)

\* "No glare": of two tabs at most one has an offer to the other in preparation
\* or pending, whatever lists they reconcile at the same time.
NoGlare ==
  \A s, p \in Sockets :
    ~(peers[s][p].conn \in {"creating", "offering"} /\ peers[p][s].conn \in {"creating", "offering"})

\* Nothing is on its way and nothing in preparation.
Settled ==
  \A s \in Sockets :
    packets[s] = <<>> /\ wire[s] = <<>> /\ admitting[s] = 0 /\ awaiting[s] = {}

\* In the call for its person and for the gateway, in that order.
InCall(s) == phase[s] = "in" /\ s \in Ids(participants) \ overtaken

\* The list of the gateway shows the tabs that are in the call, their microphones
\* as they are, and no tab that is not: refused ones excepted, and those whose
\* leave, disconnect or mute was handled while their join waited.
ListIsTrue ==
  Settled => \A s \in Sockets \ overtaken :
    /\ s \in Ids(participants) <=> phase[s] = "in" /\ s \notin refused
    /\ \A i \in DOMAIN participants :
         participants[i].id = s => participants[i].muted = selfMuted[s]

\* "Reconcile the peer map against the authoritative participant list".
MeshFollowsList ==
  Settled => \A s \in Sockets : InCall(s) =>
    \A p \in Sockets \ {s} :
      /\ peers[s][p] # Absent <=> p \in Ids(participants)
      /\ \A i \in DOMAIN participants :
           participants[i].id = p => peers[s][p].muted = participants[i].muted

Joined(s, p) ==
  /\ peers[s][p].conn = "stable"
  /\ peers[s][p].local = peers[p][s].remote
  /\ peers[s][p].remote = peers[p][s].local

Apart(s, p) == s # p /\ InCall(s) /\ InCall(p) /\ ~Joined(s, p)

\* "every participant connects peer-to-peer to every other participant": each has
\* the description the other one has of itself.
FullMesh == Settled => \A s, p \in Sockets : ~Apart(s, p)

\* Of a call of two: tabs that call for the first time always connect.  Only in a
\* call joined again can lists, offers and answers of the one before arrive late.
FirstCallsConnect ==
  Settled => \A s, p \in Sockets : Apart(s, p) => joins[s] > 1 \/ joins[p] > 1

\* A tab that has left keeps no connection and prepares none.
NothingAfterLeaving ==
  \A s \in Sockets : phase[s] # "in" => peers[s] = NoPeers /\ awaiting[s] = {}
=============================================================================
