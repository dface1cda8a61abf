-------------------------- MODULE MeetingProofs --------------------------
(***************************************************************************)
(* Theorems about Meetings, for every value of its constants.              *)
(*                                                                         *)
(* First what a merge of notes keeps; then the kinds of steps, which are   *)
(* all that the invariants about rows and calls need to know; then the     *)
(* data: whose words stand where, and that no list has two notes of an id; *)
(* last the parts of the inductive invariant, one by one.                  *)
(***************************************************************************)
EXTENDS Meetings, SequenceTheorems, FiniteSetTheorems, TLAPS

(***************************************************************************)
(* Merging notes.  A merge is as many puts as there are notes, so what one *)
(* put keeps the merge keeps: by the least number of puts after which it   *)
(* would not.                                                              *)
(***************************************************************************)

\* The order of the numbers, as the library has it.
LEMMA NatOrder == IsWellFoundedOn(OpToRel(<, Nat), Nat)
BY NatLessThanWellFounded

\* Every set of numbers has a least one.
LEMMA HasLeast ==
  ASSUME NEW S \in SUBSET Nat, S # {}
  PROVE  \E m \in S : \A x \in S : m <= x
<1>1. PICK m \in S : \A x \in S : <<x, m>> \notin OpToRel(<, Nat)
  BY NatOrder, WFMin
<1>2. \A x \in S : ~(x < m)
  BY <1>1 DEF OpToRel
<1> QED BY <1>2

\* What holds at 0, and at each number if it does at the one before, holds up to n.
LEMMA UpTo ==
  ASSUME NEW n \in Nat, NEW T \in SUBSET (0..n), 0 \in T,
         \A m \in 1..n : m - 1 \in T => m \in T
  PROVE  T = 0..n
<1> SUFFICES ASSUME (0..n) \ T # {} PROVE FALSE
  OBVIOUS
<1>1. (0..n) \ T \in SUBSET Nat
  OBVIOUS
<1>2. PICK m \in (0..n) \ T : \A x \in (0..n) \ T : m <= x
  BY <1>1, HasLeast
<1>3. m \in 1..n /\ m - 1 \in 0..n /\ ~(m <= m - 1)
  BY <1>2
<1> QED BY <1>2, <1>3

\* f is what the list is after so many puts.
Merging(f, existing, incoming) ==
  f = [i \in 0..Len(incoming) |-> IF i = 0 THEN existing ELSE Put(f[i - 1], incoming[i])]

\* There is a function that follows the puts: one put more than a function up to there.
LEMMA PutsExist ==
  ASSUME NEW existing, NEW S, NEW incoming \in Seq(S)
  PROVE  \E f : Merging(f, existing, incoming)
<1> DEFINE n == Len(incoming)
           Upto(f, m) ==
             f = [i \in 0..m |-> IF i = 0 THEN existing ELSE Put(f[i - 1], incoming[i])]
           T == {m \in 0..n : \E f : Upto(f, m)}
<1>0. n \in Nat
  OBVIOUS
<1>1. 0 \in T
  <2>1. Upto([i \in 0..0 |-> existing], 0)
    OBVIOUS
  <2> HIDE DEF Upto
  <2>2. \E f : Upto(f, 0)
    BY <2>1
  <2> QED BY <1>0, <2>2
<1>2. ASSUME NEW m \in 1..n, m - 1 \in T PROVE m \in T
  <2>1. PICK f : Upto(f, m - 1)
    BY <1>2
  <2> DEFINE g == [i \in 0..m |-> IF i = m THEN Put(f[m - 1], incoming[m]) ELSE f[i]]
  <2>2. \A i \in 0..m : g[i] = IF i = 0 THEN existing ELSE Put(g[i - 1], incoming[i])
    <3> SUFFICES ASSUME NEW i \in 0..m
                 PROVE  g[i] = IF i = 0 THEN existing ELSE Put(g[i - 1], incoming[i])
      OBVIOUS
    <3>0. /\ m \in Nat /\ m # 0 /\ i \in Nat
          /\ i # 0 => i - 1 \in 0..m /\ i - 1 # m
          /\ i # m => i \in 0..(m - 1)
          /\ m - 1 \in 0..m /\ m - 1 # m
      BY <1>0
    <3>1. CASE i = m
      BY <3>0, <3>1
    <3>2. CASE i # m
      <4>1. f[i] = IF i = 0 THEN existing ELSE Put(f[i - 1], incoming[i])
        BY <2>1, <3>0, <3>2
      <4> QED BY <3>0, <3>2, <4>1
    <3> QED BY <3>1, <3>2
  <2>3. Upto(g, m)
    BY <2>2
  <2> HIDE DEF Upto, g
  <2>4. m \in 0..n /\ \E h : Upto(h, m)
    BY <1>0, <2>3
  <2> QED BY <2>4
<1> HIDE DEF n, Upto
<1>3. T = 0..n
  <2> HIDE DEF T
  <2>1. T \in SUBSET (0..n)
    BY DEF T
  <2> QED BY <1>0, <1>1, <1>2, <2>1, UpTo
<1>4. \E f : Upto(f, n)
  <2> HIDE DEF T
  <2>1. n \in 0..n
    BY <1>0
  <2>2. n \in T
    BY <1>3, <2>1
  <2> QED BY <2>2 DEF T
<1> QED BY <1>4 DEF Upto, Merging, n

\* So MergeNotes is what the list is after the last put.
LEMMA MergeIsPuts ==
  ASSUME NEW existing, NEW S, NEW incoming \in Seq(S)
  PROVE  \E f : Merging(f, existing, incoming) /\ MergeNotes(existing, incoming) = f[Len(incoming)]
<1> DEFINE g == CHOOSE f : Merging(f, existing, incoming)
<1>1. Merging(g, existing, incoming)
  BY PutsExist
<1>2. MergeNotes(existing, incoming) = g[Len(incoming)]
  BY DEF MergeNotes, Merging
<1> QED BY <1>1, <1>2

\* No two notes of a list have one id.
Distinct(list) == \A i, j \in DOMAIN list : list[i].id = list[j].id => i = j

\* What one put keeps.
LEMMA PutKeeps ==
  ASSUME NEW S, NEW list \in Seq(S), NEW n \in S
  PROVE  /\ Put(list, n) \in Seq(S)
         /\ Distinct(list) => Distinct(Put(list, n))
<1>0. Len(list) \in Nat /\ DOMAIN list = 1..Len(list) /\ \A i \in 1..Len(list) : list[i] \in S
  OBVIOUS
<1>1. CASE \E i \in DOMAIN list : list[i].id = n.id
  <2> DEFINE p == [i \in 1..Len(list) |-> IF list[i].id = n.id THEN n ELSE list[i]]
  <2>1. Put(list, n) = p
    BY <1>0, <1>1 DEF Put
  <2>2. p \in Seq(S) /\ DOMAIN p = 1..Len(list)
    BY <1>0
  <2>3. \A i \in 1..Len(list) : p[i].id = list[i].id
    OBVIOUS
  <2> HIDE DEF p
  <2> QED BY <1>0, <2>1, <2>2, <2>3 DEF Distinct
<1>2. CASE ~\E i \in DOMAIN list : list[i].id = n.id
  <2>1. Put(list, n) = Append(list, n)
    BY <1>2 DEF Put
  <2>2. /\ Append(list, n) \in Seq(S) /\ DOMAIN Append(list, n) = 1..(Len(list) + 1)
        /\ Append(list, n)[Len(list) + 1] = n
        /\ \A i \in 1..Len(list) : Append(list, n)[i] = list[i]
    BY <1>0
  <2>3. \A i \in 1..(Len(list) + 1) : i \in 1..Len(list) \/ i = Len(list) + 1
    BY <1>0
  <2> QED BY <1>0, <1>2, <2>1, <2>2, <2>3 DEF Distinct
<1> QED BY <1>1, <1>2

\* A merge keeps what its lists consist of, and adds no second note of an id.
LEMMA MergeKeeps ==
  ASSUME NEW S, NEW existing \in Seq(S), NEW incoming \in Seq(S)
  PROVE  /\ MergeNotes(existing, incoming) \in Seq(S)
         /\ Distinct(existing) => Distinct(MergeNotes(existing, incoming))
<1> DEFINE n == Len(incoming)
           Kept(list) == list \in Seq(S) /\ (Distinct(existing) => Distinct(list))
<1>1. PICK f : Merging(f, existing, incoming) /\ MergeNotes(existing, incoming) = f[n]
  BY MergeIsPuts
<1> DEFINE T == {i \in 0..n : Kept(f[i])}
<1>0. n \in Nat /\ 0 \in 0..n /\ n \in 0..n /\ T \in SUBSET (0..n)
  OBVIOUS
<1>2. 0 \in T
  <2>1. f[0] = existing
    BY <1>0, <1>1 DEF Merging
  <2> QED BY <1>0, <2>1
<1>3. ASSUME NEW m \in 1..n, m - 1 \in T PROVE m \in T
  <2>1. m \in 0..n /\ m # 0 /\ incoming[m] \in S
    BY <1>0
  <2>2. f[m] = Put(f[m - 1], incoming[m])
    BY <1>1, <2>1 DEF Merging
  <2>3. Kept(f[m - 1])
    BY <1>3
  <2>4. Kept(Put(f[m - 1], incoming[m]))
    BY <2>1, <2>3, PutKeeps
  <2> QED BY <2>1, <2>2, <2>4
<1>4. T = 0..n
  <2> HIDE DEF T, n
  <2> QED BY <1>0, <1>2, <1>3, UpTo
<1>5. Kept(f[n])
  BY <1>0, <1>4
<1> QED BY <1>1, <1>5

(***************************************************************************)
(* What a step does to the calls.                                          *)
(***************************************************************************)

Places == {"find", "participant", "note", "write", "audit", "answer"}
Ops == Operations \cup {"save"}

CallsTyped ==
  /\ call \in [Calls -> Busy \cup {Idle}]
  /\ \A k \in Calls : call[k] = Idle \/ call[k].id <= Len(notes)

\* No call begins, ends or goes on.
Same(k) ==
  \/ call[k] = Idle /\ call'[k] = Idle
  \/ /\ call[k] # Idle /\ call'[k] # Idle
     /\ call'[k].at = call[k].at /\ call'[k].op = call[k].op /\ call'[k].by = call[k].by
     /\ call'[k].text = call[k].text /\ call'[k].id = call[k].id /\ call'[k].view = call[k].view

Resting == UNCHANGED <<rows, history>> /\ \A k \in Calls : Same(k)

\* Call k went to the place to with the note id and the view; the others wait.
Went(k, to, id, view) ==
  /\ call[k] # Idle /\ call'[k] # Idle
  /\ call'[k].at = to /\ call'[k].op = call[k].op /\ call'[k].by = call[k].by
  /\ call'[k].text = call[k].text /\ call'[k].id = id /\ call'[k].view = view
  /\ \A j \in Calls \ {k} : call'[j] = call[j]

WentOn(k, to) == Went(k, to, call[k].id, call[k].view)

Ended(k) == call'[k] = Idle /\ \A j \in Calls \ {k} : call'[j] = call[j]

\* What a call is asked to save its person has typed, or the tab has it for typed.
Tells(p, text) ==
  text = Nothing \/ text \subseteq typed'[p] \/ (p \in Tabs /\ text \in {draft[p], timer[p]})

Began(k, op, p) ==
  /\ status # "none"
  /\ call[k] = Idle /\ call'[k] # Idle
  /\ call'[k].at = (IF op = "save" THEN "note" ELSE "find")
  /\ call'[k].op = op /\ call'[k].by = p /\ Tells(p, call'[k].text)
  /\ call'[k].id = 0 /\ call'[k].view = Unknown
  /\ \A j \in Calls \ {k} : call'[j] = call[j]
  /\ doubled' = (IF op = "save" /\ Saving(p) # {} THEN doubled \cup {p} ELSE doubled)
  /\ raced' = (raced \/ (op \in Transitions /\ \E j \in Calls :
                             call[j] # Idle /\ call[j].op \in Transitions))
  /\ UNCHANGED <<rows, reached>>

\* The ways of a call that write no row.
Walked(k) ==
  /\ \/ Ended(k)
     \/ WentOn(k, "participant") /\ call[k].op = "join"
     \/ WentOn(k, "write") /\ call[k].op \in Transitions /\ status \in Before[call[k].op]
     \/ WentOn(k, "write") /\ call[k].op = "join"
     \/ /\ Went(k, "write", NoteFound(call[k].by), call[k].view)
        /\ call[k].op = "save" /\ call[k].by \in joined \cup {host}
     \/ WentOn(k, "answer") /\ call[k].at = "audit"
  /\ UNCHANGED <<rows, history>>

StatusSet(k) ==
  /\ call[k].at = "write" /\ call[k].op \in Transitions
  /\ Went(k, "audit", call[k].id, [ViewNow EXCEPT !.status = status'])
  /\ status' = After[call[k].op]
  /\ reached' = reached \cup {status'}
  /\ UNCHANGED <<host, joined, notes, doubled, raced>>

RowJoined(k) ==
  /\ call[k].at = "write" /\ call[k].op = "join"
  /\ Ended(k) \/ WentOn(k, "answer")
  /\ joined' = joined \cup {call[k].by}
  /\ UNCHANGED <<status, host, notes, history>>

NoteSet(k) ==
  /\ call[k].at = "write" /\ call[k].op = "save"
  /\ Went(k, "answer", IF call[k].id = 0 THEN Len(notes') ELSE call[k].id, call[k].view)
  /\ notes' = IF call[k].id = 0
                THEN Append(notes, [by |-> call[k].by, text |-> call[k].text])
                ELSE [notes EXCEPT ![call[k].id].text = call[k].text]
  /\ UNCHANGED <<status, host, joined, history>>

\* What a call that is under way consists of.
LEMMA BusyCall ==
  ASSUME TypeOK, NEW k \in Calls, call[k] # Idle \/ call[k].at \in Places
  PROVE  /\ call[k] \in Busy /\ call[k] # Idle
         /\ call[k].at \in Places /\ call[k].op \in Ops /\ call[k].by \in People
         /\ call[k].text \in Texts /\ call[k].id \in Nat /\ call[k].id <= Len(notes)
         /\ call[k].view \in View
<1>1. call[k] # Idle
  BY DEF Idle, Places
<1>2. call[k] \in Busy /\ call[k].id <= Len(notes)
  BY <1>1 DEF TypeOK
<1> QED BY <1>1, <1>2 DEF Busy, Places, Ops

\* The calls stay typed when one is replaced by a call.
LEMMA CallReplaced ==
  ASSUME TypeOK, NEW k \in Calls, NEW r \in Busy, Len(notes') \in Nat,
         Len(notes) <= Len(notes'), r.id <= Len(notes'), call' = [call EXCEPT ![k] = r]
  PROVE  /\ CallsTyped'
         /\ call'[k] = r /\ r # Idle /\ \A j \in Calls \ {k} : call'[j] = call[j]
<1>1. r # Idle
  BY DEF Idle, Busy
<1>2. call' \in [Calls -> Busy \cup {Idle}]
  BY DEF TypeOK
<1>3. call'[k] = r /\ \A j \in Calls \ {k} : call'[j] = call[j]
  BY DEF TypeOK
<1>4. ASSUME NEW j \in Calls, call'[j] # Idle PROVE call'[j].id <= Len(notes')
  <2>1. CASE j = k
    BY <1>3, <2>1
  <2>2. CASE j # k
    <3>1. call'[j] = call[j] /\ call[j].id \in Nat /\ call[j].id <= Len(notes) /\ Len(notes) \in Nat
      BY <1>3, <1>4, <2>2, BusyCall DEF TypeOK
    <3> QED BY <3>1
  <2> QED BY <2>1, <2>2
<1> QED BY <1>1, <1>2, <1>3, <1>4 DEF CallsTyped

\* A call goes to another place with another id and view.
LEMMA WentEffect ==
  ASSUME TypeOK, NEW k \in Calls, call[k] # Idle, Len(notes') \in Nat, Len(notes) <= Len(notes'),
         NEW to \in Places, NEW id \in Nat, id <= Len(notes'), NEW view \in View,
         call' = [call EXCEPT ![k] =
           [[[call[k] EXCEPT !.at = to] EXCEPT !.id = id] EXCEPT !.view = view]]
  PROVE  CallsTyped' /\ Went(k, to, id, view)
<1> DEFINE r == [[[call[k] EXCEPT !.at = to] EXCEPT !.id = id] EXCEPT !.view = view]
<1>1. call[k] \in Busy
  BY BusyCall
<1>2. /\ r \in Busy /\ r.at = to /\ r.op = call[k].op /\ r.by = call[k].by
      /\ r.text = call[k].text /\ r.id = id /\ r.view = view
  BY <1>1 DEF Busy, Places
<1>3. call' = [call EXCEPT ![k] = r]
  OBVIOUS
<1> HIDE DEF r
<1>4. /\ CallsTyped'
      /\ call'[k] = r /\ r # Idle /\ \A j \in Calls \ {k} : call'[j] = call[j]
  BY <1>2, <1>3, CallReplaced
<1> QED BY <1>2, <1>4 DEF Went

\* No row is removed where none is written.
LEMMA NotesStay ==
  ASSUME TypeOK, notes' = notes
  PROVE  Len(notes') \in Nat /\ Len(notes) <= Len(notes') /\ Len(notes') = Len(notes)
BY DEF TypeOK

\* Step only moves the call.
LEMMA StepEffect ==
  ASSUME TypeOK, NEW k \in Calls, call[k] # Idle, NEW to \in Places, Step(k, to), notes' = notes
  PROVE  CallsTyped' /\ WentOn(k, to)
<1>1. /\ call[k] \in Busy /\ call[k].id \in Nat /\ call[k].id <= Len(notes)
      /\ call[k].view \in View
  BY BusyCall
<1>2. call' = [call EXCEPT ![k] =
        [[[call[k] EXCEPT !.at = to] EXCEPT !.id = call[k].id] EXCEPT !.view = call[k].view]]
  BY <1>1 DEF Step, Busy, TypeOK
<1> QED BY <1>1, <1>2, NotesStay, WentEffect DEF WentOn

\* Done only ends it.
LEMMA DoneEffect ==
  ASSUME TypeOK, NEW k \in Calls, Done(k), notes' = notes
  PROVE  CallsTyped' /\ Ended(k)
BY DEF TypeOK, CallsTyped, Done, Ended

\* Called begins one.
LEMMA CalledEffect ==
  ASSUME TypeOK, NEW k \in Calls, NEW p \in People, NEW op \in Ops, NEW text \in Texts,
         NEW busy \in BOOLEAN, Called(k, p, op, text, busy), Tells(p, text)
  PROVE  CallsTyped' /\ Began(k, op, p)
<1> DEFINE r == [at |-> IF op = "save" THEN "note" ELSE "find", op |-> op, by |-> p,
                 text |-> text, id |-> 0, view |-> Unknown, busy |-> busy]
<1>1. r \in Busy
  BY DEF Busy, Places, Ops, Unknown, View
<1>2. call' = [call EXCEPT ![k] = r] /\ notes' = notes /\ call[k] = Idle
  BY DEF Called, rows
<1>3. /\ r.at = (IF op = "save" THEN "note" ELSE "find") /\ r.op = op /\ r.by = p
      /\ r.text = text /\ r.id = 0 /\ r.view = Unknown
  OBVIOUS
<1> HIDE DEF r
<1>4. Len(notes') \in Nat /\ Len(notes) <= Len(notes') /\ r.id <= Len(notes')
  BY <1>2, <1>3, NotesStay
<1>5. /\ CallsTyped'
      /\ call'[k] = r /\ r # Idle /\ \A j \in Calls \ {k} : call'[j] = call[j]
  BY <1>1, <1>2, <1>4, CallReplaced
<1> QED
  BY <1>2, <1>3, <1>5 DEF Called, Began

\* A new view changes nothing of a call but whether it is waited for.
LEMMA ViewReplacedEffect ==
  ASSUME TypeOK, NEW t, ViewReplaced(t), notes' = notes
  PROVE  CallsTyped' /\ \A k \in Calls : Same(k)
<1>1. ASSUME NEW k \in Calls
      PROVE  Same(k) /\ call'[k] \in Busy \cup {Idle}
  <2>1. CASE k \in CallsOf(t)
    <3>1. call[k] \in Busy /\ call[k] # Idle
      BY <2>1, BusyCall DEF CallsOf
    <3>2. call'[k] = [call[k] EXCEPT !.busy = FALSE]
      BY <2>1 DEF ViewReplaced
    <3>3. /\ call'[k] \in Busy
          /\ call'[k].at = call[k].at /\ call'[k].op = call[k].op /\ call'[k].by = call[k].by
          /\ call'[k].text = call[k].text /\ call'[k].id = call[k].id
          /\ call'[k].view = call[k].view
      BY <3>1, <3>2 DEF Busy
    <3>4. call'[k] # Idle
      BY <3>3 DEF Busy, Idle
    <3> QED BY <3>1, <3>3, <3>4 DEF Same
  <2>2. CASE k \notin CallsOf(t)
    BY <2>2 DEF ViewReplaced, Same, TypeOK
  <2> QED BY <2>1, <2>2
<1>2. call' \in [Calls -> Busy \cup {Idle}]
  BY <1>1 DEF ViewReplaced
<1> QED BY <1>1, <1>2 DEF CallsTyped, Same, TypeOK

NoteRows == [by : People, text : Texts]

\* The table after a note is added, or written anew.
LEMMA RowAdded ==
  ASSUME NEW list \in Seq(NoteRows), NEW row \in NoteRows
  PROVE  LET new == Append(list, row) IN
         /\ new \in Seq(NoteRows) /\ Len(new) = Len(list) + 1
         /\ DOMAIN new = 1..(Len(list) + 1) /\ new[Len(list) + 1] = row
         /\ \A i \in 1..Len(list) : new[i] = list[i]
OBVIOUS

LEMMA RowChanged ==
  ASSUME NEW list \in Seq(NoteRows), NEW n \in 1..Len(list), NEW text \in Texts
  PROVE  LET new == [list EXCEPT ![n].text = text] IN
         /\ new \in Seq(NoteRows) /\ Len(new) = Len(list) /\ DOMAIN new = 1..Len(list)
         /\ new[n].text = text
         /\ \A i \in 1..Len(list) : new[i].by = list[i].by /\ (i # n => new[i] = list[i])
<1> DEFINE new == [list EXCEPT ![n].text = text]
<1>1. /\ Len(list) \in Nat /\ DOMAIN list = 1..Len(list)
      /\ \A i \in 1..Len(list) : list[i] \in NoteRows
  OBVIOUS
<1>2. new = [i \in 1..Len(list) |-> IF i = n THEN [list[n] EXCEPT !.text = text] ELSE list[i]]
  BY <1>1
<1> HIDE DEF new
<1>3. /\ [list[n] EXCEPT !.text = text] \in NoteRows
      /\ [list[n] EXCEPT !.text = text].text = text
      /\ [list[n] EXCEPT !.text = text].by = list[n].by
  BY <1>1 DEF NoteRows
<1>4. new \in Seq(NoteRows) /\ Len(new) = Len(list) /\ DOMAIN new = 1..Len(list)
  BY <1>1, <1>2, <1>3
<1>5. \A i \in 1..Len(list) : new[i].by = list[i].by /\ (i # n => new[i] = list[i])
  BY <1>2, <1>3
<1>6. new[n].text = text
  BY <1>2, <1>3
<1> QED BY <1>4, <1>5, <1>6 DEF new

\* The notes an answer carries are those of the table, with their places as ids.
LEMMA NotesNowShape ==
  ASSUME TypeOK
  PROVE  /\ NotesNow \in Seq(Shown) /\ Distinct(NotesNow)
         /\ DOMAIN NotesNow = DOMAIN notes
         /\ \A i \in DOMAIN notes : /\ NotesNow[i].id = i /\ NotesNow[i].by = notes[i].by
                                    /\ NotesNow[i].text = notes[i].text
<1>1. /\ Len(notes) \in Nat /\ DOMAIN notes = 1..Len(notes)
      /\ \A i \in 1..Len(notes) : notes[i] \in NoteRows
  <2>1. notes \in Seq(NoteRows)
    BY DEF TypeOK, NoteRows
  <2> QED BY <2>1
<1>2. \A i \in 1..Len(notes) : [id |-> i, by |-> notes[i].by, text |-> notes[i].text] \in Shown
  BY <1>1 DEF Shown, NoteRows
<1>3. NotesNow \in Seq(Shown)
  BY <1>1, <1>2 DEF NotesNow
<1> QED BY <1>1, <1>3 DEF NotesNow, Distinct

\* A view of the meeting carries them, whatever status it is given.
LEMMA ViewNowShape ==
  ASSUME TypeOK
  PROVE  /\ ViewNow \in View /\ ViewNow.notes = NotesNow
         /\ \A s \in Statuses : /\ [ViewNow EXCEPT !.status = s] \in View
                                /\ [ViewNow EXCEPT !.status = s].notes = NotesNow
<1>1. NotesNow \in Seq(Shown)
  BY NotesNowShape
<1> QED BY <1>1 DEF TypeOK, ViewNow, View

\* The first of a person's notes is one of them.
LEMMA FirstIsOwn ==
  ASSUME NEW S, NEW list \in Seq(S), NEW p, OwnNotes(list, p) # {}
  PROVE  /\ FirstNote(list, p) \in DOMAIN list /\ list[FirstNote(list, p)].by = p
         /\ FirstNote(list, p) \in 1..Len(list)
<1> DEFINE O == OwnNotes(list, p)
<1>1. O \in SUBSET Nat /\ O \subseteq 1..Len(list) /\ \A i \in O : list[i].by = p /\ i \in DOMAIN list
  BY DEF OwnNotes
<1>2. \E i \in O : \A j \in O : i <= j
  <2> HIDE DEF O
  <2> QED BY <1>1, HasLeast DEF O
<1>3. FirstNote(list, p) \in O
  BY <1>2 DEF FirstNote
<1> QED BY <1>1, <1>3

\* What a save finds is a note of its person, or that there is none.
LEMMA FoundIsOwn ==
  ASSUME TypeOK, NEW p
  PROVE  /\ NoteFound(p) \in Nat /\ NoteFound(p) <= Len(notes)
         /\ NoteFound(p) = 0 => OwnNotes(notes, p) = {}
         /\ NoteFound(p) # 0 => NoteFound(p) \in DOMAIN notes /\ notes[NoteFound(p)].by = p
<1>1. notes \in Seq([by : People, text : Texts]) /\ Len(notes) \in Nat
  BY DEF TypeOK
<1>2. CASE OwnNotes(notes, p) = {}
  BY <1>1, <1>2 DEF NoteFound
<1>3. CASE OwnNotes(notes, p) # {}
  <2>1. /\ FirstNote(notes, p) \in DOMAIN notes /\ notes[FirstNote(notes, p)].by = p
        /\ FirstNote(notes, p) \in 1..Len(notes)
    BY <1>1, <1>3, FirstIsOwn
  <2>2. NoteFound(p) = FirstNote(notes, p)
    BY <1>3 DEF NoteFound
  <2> QED BY <1>1, <2>1, <2>2
<1> QED BY <1>2, <1>3

(***************************************************************************)
(* The kinds of steps; which one it is is all that the invariants about    *)
(* the rows need to know.                                                  *)
(***************************************************************************)

\* The calls fit what they do.
CallShape ==
  \A k \in Calls :
    /\ call[k].at = "find" => call[k].op # "save"
    /\ call[k].at = "participant" => call[k].op = "join"
    /\ call[k].at = "note" => call[k].op = "save"
    /\ call[k].at = "audit" => call[k].op \in Transitions

Moves(k) == Walked(k) \/ StatusSet(k) \/ RowJoined(k) \/ NoteSet(k)

\* Of which kind the steps of a call are.
LEMMA FoundKinds ==
  ASSUME TypeOK, CallShape, NEW k \in Calls, Found(k)
  PROVE  CallsTyped' /\ Moves(k)
<1>1. call[k] # Idle /\ call[k].op \in Ops \ {"save"} /\ notes' = notes /\ UNCHANGED <<rows, history>>
  BY BusyCall DEF Found, At, Places, CallShape, rows
<1>2. CASE Allowed(call[k].op) /\ call[k].op = "join"
  BY <1>1, <1>2, StepEffect DEF Found, Moves, Walked, Places
<1>3. CASE Allowed(call[k].op) /\ call[k].op # "join"
  <2>1. call[k].op \in Transitions
    BY <1>1, <1>3, MeetingConstants DEF Ops, Transitions
  <2>2. Step(k, "write") /\ "write" \in Places
    BY <1>3 DEF Found, Places
  <2>3. CallsTyped' /\ WentOn(k, "write")
    BY <1>1, <2>2, StepEffect
  <2> QED BY <1>1, <1>3, <2>1, <2>3 DEF Moves, Walked, Allowed
<1>4. CASE ~Allowed(call[k].op)
  BY <1>1, <1>4, DoneEffect DEF Found, Moves, Walked
<1> QED BY <1>2, <1>3, <1>4

LEMMA LookedUpKinds ==
  ASSUME TypeOK, CallShape, NEW k \in Calls, NoteLookedUp(k)
  PROVE  CallsTyped' /\ Moves(k)
<1>1. /\ call[k] # Idle /\ call[k] \in Busy /\ call[k].view \in View
      /\ call[k].op = "save" /\ notes' = notes /\ UNCHANGED <<rows, history>>
  BY BusyCall DEF NoteLookedUp, At, Places, CallShape, rows
<1>2. CASE MayGoOn("save", call[k].by)
  <2> DEFINE id == NoteFound(call[k].by)
  <2>1. id \in Nat /\ id <= Len(notes')
    BY <1>1, FoundIsOwn
  <2>2. call' = [call EXCEPT ![k] =
          [[[call[k] EXCEPT !.at = "write"] EXCEPT !.id = id] EXCEPT !.view = call[k].view]]
    <3> HIDE DEF id
    <3>1. call' = [call EXCEPT ![k].at = "write", ![k].id = id]
      BY <1>2 DEF NoteLookedUp, id
    <3> QED BY <1>1, <3>1 DEF Busy, TypeOK
  <2> HIDE DEF id
  <2>3. CallsTyped' /\ Went(k, "write", id, call[k].view)
    BY <1>1, <2>1, <2>2, NotesStay, WentEffect DEF Places
  <2> QED BY <1>1, <1>2, <2>3 DEF MayGoOn, Moves, Walked, id
<1>3. CASE ~MayGoOn("save", call[k].by)
  BY <1>1, <1>3, DoneEffect DEF NoteLookedUp, Moves, Walked
<1> QED BY <1>2, <1>3

LEMMA StatusKinds ==
  ASSUME TypeOK, NEW k \in Calls, StatusWritten(k)
  PROVE  CallsTyped' /\ Moves(k)
<1>1. /\ call[k] # Idle /\ call[k] \in Busy /\ call[k].id \in Nat /\ call[k].id <= Len(notes)
      /\ notes' = notes
  BY BusyCall DEF StatusWritten, At, Places
<1>2. PICK s \in Statuses : s = status'
  BY DEF StatusWritten, Transitions, After, Statuses
<1> DEFINE view == [ViewNow EXCEPT !.status = s]
<1>3. view \in View
  BY <1>2, ViewNowShape
<1>4. call' = [call EXCEPT ![k] =
        [[[call[k] EXCEPT !.at = "audit"] EXCEPT !.id = call[k].id] EXCEPT !.view = view]]
  <2> HIDE DEF view
  <2>1. call' = [call EXCEPT ![k].at = "audit", ![k].view = view]
    BY <1>2 DEF StatusWritten, view
  <2> QED BY <1>1, <2>1 DEF Busy, TypeOK
<1> HIDE DEF view
<1>5. CallsTyped' /\ Went(k, "audit", call[k].id, view)
  BY <1>1, <1>3, <1>4, NotesStay, WentEffect DEF Places
<1> QED BY <1>2, <1>5 DEF StatusWritten, At, Moves, StatusSet, view

LEMMA NoteKinds ==
  ASSUME TypeOK, NEW k \in Calls, NoteWritten(k)
  PROVE  CallsTyped' /\ Moves(k)
<1> DEFINE c == call[k]
           added == [by |-> c.by, text |-> c.text]
           id == IF c.id = 0 THEN Len(notes') ELSE c.id
<1>1. /\ c # Idle /\ c \in Busy /\ c.id \in Nat /\ c.id <= Len(notes) /\ c.view \in View
      /\ c.by \in People /\ c.text \in Texts
  BY BusyCall DEF NoteWritten, At, Places
<1>2. notes \in Seq(NoteRows) /\ Len(notes) \in Nat
  BY DEF TypeOK, NoteRows
<1>3. notes' = IF c.id = 0 THEN Append(notes, added) ELSE [notes EXCEPT ![c.id].text = c.text]
  BY DEF NoteWritten
<1>4. Len(notes') \in Nat /\ Len(notes) <= Len(notes')
  <2>1. CASE c.id = 0
    <3>1. added \in NoteRows
      BY <1>1 DEF NoteRows
    <3>2. Len(notes') = Len(notes) + 1
      BY <1>2, <1>3, <2>1, <3>1, RowAdded
    <3> QED BY <1>2, <3>2
  <2>2. CASE c.id # 0
    <3>1. Len(notes') = Len(notes)
      BY <1>1, <1>2, <1>3, <2>2, RowChanged
    <3> QED BY <1>2, <3>1
  <2> QED BY <2>1, <2>2
<1>5. id \in Nat /\ id <= Len(notes')
  BY <1>1, <1>2, <1>4
<1>6. call' = [call EXCEPT ![k] =
        [[[call[k] EXCEPT !.at = "answer"] EXCEPT !.id = id] EXCEPT !.view = call[k].view]]
  <2> HIDE DEF id
  <2>1. call' = [call EXCEPT ![k].at = "answer", ![k].id = id]
    BY DEF NoteWritten, id, c
  <2> QED BY <1>1, <2>1 DEF Busy, TypeOK
<1>7. CallsTyped' /\ Went(k, "answer", id, call[k].view)
  <2> HIDE DEF id
  <2> QED BY <1>1, <1>4, <1>5, <1>6, WentEffect DEF Places
<1> QED BY <1>7 DEF NoteWritten, At, Moves, NoteSet

LEMMA ContinuedKinds ==
  ASSUME TypeOK, CallShape, NEW k \in Calls, Continued(k)
  PROVE  CallsTyped' /\ Moves(k)
<1>1. CASE Found(k) \/ NoteLookedUp(k) \/ StatusWritten(k) \/ NoteWritten(k)
  BY <1>1, FoundKinds, LookedUpKinds, StatusKinds, NoteKinds
<1>2. CASE ParticipantFound(k)
  <2>1. call[k] # Idle /\ call[k].op = "join" /\ notes' = notes /\ UNCHANGED <<rows, history>>
    BY <1>2, BusyCall DEF ParticipantFound, At, Places, CallShape, rows
  <2>2. CASE MayGoOn("join", call[k].by)
    BY <1>2, <2>1, <2>2, StepEffect DEF ParticipantFound, Moves, Walked, Places
  <2>3. CASE ~MayGoOn("join", call[k].by)
    BY <1>2, <2>1, <2>3, DoneEffect DEF ParticipantFound, Moves, Walked
  <2> QED BY <2>2, <2>3
<1>3. CASE AuditWritten(k)
  <2>1. call[k] # Idle /\ notes' = notes /\ UNCHANGED <<rows, history>>
    BY <1>3, BusyCall DEF AuditWritten, At, Places, rows
  <2> QED BY <1>3, <2>1, StepEffect DEF AuditWritten, At, Moves, Walked, Places
<1>4. CASE Joined(k)
  <2>1. call[k] # Idle /\ notes' = notes
    BY <1>4, BusyCall DEF Joined, At, Places
  <2>2. CallsTyped' /\ (Ended(k) \/ WentOn(k, "answer"))
    BY <1>4, <2>1, StepEffect, DoneEffect DEF Joined, Places
  <2> QED BY <1>4, <2>2 DEF Joined, At, Moves, RowJoined
<1>5. CASE Answered(k)
  BY <1>5, DoneEffect DEF Answered, Moves, Walked, rows
<1>6. CASE CallFailed(k)
  BY <1>6, DoneEffect DEF CallFailed, Moves, Walked, rows
<1> QED BY <1>1, <1>2, <1>3, <1>4, <1>5, <1>6 DEF Continued

Created == \E p \in People : MeetingCreated(p)

\* Of which kind a step is.
LEMMA NextKinds ==
  ASSUME TypeOK, CallShape, [Next]_vars
  PROVE  /\ CallsTyped'
         /\ \/ Created
            \/ Resting
            \/ \E k \in Calls, op \in Ops, p \in People : Began(k, op, p)
            \/ \E k \in Calls : Moves(k)
<1> USE DEF rows, tabVars, fieldVars, history
<1>1. ASSUME UNCHANGED <<call, notes>> PROVE CallsTyped' /\ \A k \in Calls : Same(k)
  BY <1>1 DEF TypeOK, CallsTyped, Same
<1>2. ASSUME NEW p \in People, MeetingCreated(p) PROVE CallsTyped'
  BY <1>1, <1>2 DEF MeetingCreated
<1>3. Operations \subseteq Ops /\ Tabs \subseteq People /\ "save" \in Ops /\ Nothing \in Texts
  BY MeetingConstants DEF Ops, Nothing, Texts
<1>4. ASSUME NEW k \in Calls, NEW p \in People, NEW op \in Operations, CalledDirectly(k, p, op)
      PROVE  CallsTyped' /\ Began(k, op, p)
  BY <1>3, <1>4, CalledEffect DEF CalledDirectly, Tells
<1>5. ASSUME NEW k \in Calls, NEW p \in People, SavedDirectly(k, p)
      PROVE  CallsTyped' /\ Began(k, "save", p)
  <2>1. PICK n \in NextTyped : typed' = [typed EXCEPT ![p] = {n}]
    BY <1>5 DEF SavedDirectly
  <2>2. typed'[p] \in Texts
    BY <2>1 DEF NextTyped, Texts, TypeOK
  <2>3. PICK text \in Texts : text = typed'[p]
    BY <2>2
  <2>4. Called(k, p, "save", text, FALSE) /\ Tells(p, text)
    BY <1>5, <2>3 DEF SavedDirectly, Tells
  <2> QED BY <1>3, <2>4, CalledEffect
<1>6. ASSUME NEW k \in Calls, NEW t \in Tabs, NEW op \in Operations, ButtonClicked(k, t, op)
      PROVE  CallsTyped' /\ Began(k, op, t)
  BY <1>3, <1>6, CalledEffect DEF ButtonClicked, Tells
<1>7. ASSUME NEW k \in Calls, NEW t \in Tabs, TimerFired(k, t) \/ Blurred(k, t)
      PROVE  CallsTyped' /\ Began(k, "save", t)
  <2>1. PICK text \in Texts : text \in {draft[t], timer[t]} /\ Called(k, t, "save", text, FALSE)
    BY <1>7 DEF TimerFired, Blurred, TypeOK
  <2> QED BY <1>3, <2>1, CalledEffect DEF Tells
<1>8. ASSUME NEW t \in Tabs, WorkspaceOpened(t) \/ ViewReopened(t)
      PROVE  CallsTyped' /\ Resting
  BY <1>8, ViewReplacedEffect DEF WorkspaceOpened, ViewReopened, Resting
<1>9. ASSUME NEW t \in Tabs, MeetingLeft(t) \/ MeetingOpened(t) \/ Typed(t)
      PROVE  CallsTyped' /\ Resting
  BY <1>1, <1>9 DEF MeetingLeft, MeetingOpened, Typed, Resting
<1>10. ASSUME NEW t \in Tabs, NEW q \in Polls,
              PollRead(t, q) \/ PollMerged(t, q) \/ PollFailed(t, q)
       PROVE  CallsTyped' /\ Resting
  BY <1>1, <1>10 DEF PollRead, PollMerged, PollFailed, Resting
<1>11. CASE UNCHANGED vars
  BY <1>1, <1>11 DEF vars, Resting
<1>12. CASE Next
  <2>1. CASE \E p \in People : MeetingCreated(p)
    BY <1>2, <2>1 DEF Created
  <2>2. CASE \E k \in Calls : Continued(k)
    BY <2>2, ContinuedKinds
  <2>3. CASE \E k \in Calls, p \in People, op \in Operations : CalledDirectly(k, p, op)
    BY <1>3, <1>4, <2>3
  <2>4. CASE \E k \in Calls, p \in People : SavedDirectly(k, p)
    BY <1>3, <1>5, <2>4
  <2>5. CASE \E k \in Calls, t \in Tabs, op \in Operations : ButtonClicked(k, t, op)
    BY <1>3, <1>6, <2>5
  <2>6. CASE \E k \in Calls, t \in Tabs : TimerFired(k, t)
    BY <1>3, <1>7, <2>6
  <2>7. ASSUME NEW t \in Tabs, Fidgeted(t)
        PROVE  CallsTyped' /\ (Resting \/ \E k \in Calls : Began(k, "save", t))
    BY <1>7, <1>8, <1>9, <2>7 DEF Fidgeted
  <2>8. CASE \E t \in Tabs :
               \/ WorkspaceOpened(t) \/ MeetingLeft(t) \/ Fidgeted(t) \/ Typed(t)
               \/ \E q \in Polls : PollRead(t, q) \/ PollMerged(t, q) \/ PollFailed(t, q)
    BY <1>3, <1>8, <1>9, <1>10, <2>7, <2>8
  <2> QED
    BY <1>12, <2>1, <2>2, <2>3, <2>4, <2>5, <2>6, <2>8 DEF Next
<1> QED BY <1>11, <1>12

(***************************************************************************)
(* What is shown and kept of the notes.                                    *)
(***************************************************************************)

\* Notes whose words their author has typed, and lists of such notes.
TrueNotes == {n \in Shown : n.text \subseteq typed[n.by]}
Lists(N) == {l \in Seq(N) : Distinct(l)}
Views(N) == [status : Statuses \cup {"none"}, joined : SUBSET People, notes : Lists(N)]

TabShape(N) ==
  /\ copy \in [Tabs -> Views(N)]
  /\ shown \in [Tabs -> Lists(N)]
  /\ poll \in [Tabs -> [Polls -> {Idle} \cup [at : {"read"}, notes : Lists(N)]]]

RowsTrue == \A i \in DOMAIN notes : notes[i].text \subseteq typed[notes[i].by]

\* A save that has found its note has found one of its person.
CallsTrue ==
  \A k \in Calls : call[k] # Idle =>
    /\ call[k].text \subseteq typed[call[k].by]
    /\ call[k].view \in Views(TrueNotes)
    /\ call[k].op = "save" /\ call[k].at \in {"write", "answer"} =>
         \/ call[k].at = "write" /\ call[k].id = 0
         \/ call[k].id \in DOMAIN notes /\ notes[call[k].id].by = call[k].by

FieldsTrue == \A t \in Tabs : draft[t] \subseteq typed[t] /\ timer[t] \subseteq typed[t]

WordsInv == RowsTrue /\ CallsTrue /\ TabShape(TrueNotes) /\ FieldsTrue

\* More notes, more lists.
LEMMA ListsGrow ==
  ASSUME NEW N, NEW M, N \subseteq M
  PROVE  Lists(N) \subseteq Lists(M) /\ Views(N) \subseteq Views(M)
<1>1. Seq(N) \subseteq Seq(M)
  BY SeqMonotonic
<1> QED BY <1>1 DEF Lists, Views

TypedGrows == \A p \in People : typed[p] \subseteq typed'[p]

\* Nothing that was typed is forgotten.
LEMMA TypedStep ==
  ASSUME TypeOK, [Next]_vars
  PROVE  typed' \in [People -> Texts] /\ TypedGrows
<1> USE DEF tabVars, fieldVars, TypedGrows, TypeOK
<1>1. ASSUME NEW p \in People, NEW n \in NextTyped, typed' = [typed EXCEPT ![p] = @ \cup {n}]
      PROVE  typed' \in [People -> Texts] /\ TypedGrows
  BY <1>1 DEF NextTyped, Texts
<1>2. Tabs \subseteq People
  BY MeetingConstants
<1>3. ASSUME NEW t \in Tabs, Typed(t) PROVE typed' \in [People -> Texts] /\ TypedGrows
  BY <1>1, <1>2, <1>3 DEF Typed
<1>4. ASSUME NEW p \in People, NEW k \in Calls, SavedDirectly(k, p)
      PROVE  typed' \in [People -> Texts] /\ TypedGrows
  <2>1. PICK n \in NextTyped : typed' = [typed EXCEPT ![p] = {n}]
    BY <1>4 DEF SavedDirectly
  <2>2. typed[p] = {}
    BY <1>4 DEF SavedDirectly, Nothing
  <2> QED BY <1>1, <2>1, <2>2
<1>5. CASE typed' = typed
  BY <1>5
<1> QED
  BY <1>3, <1>4, <1>5 DEF Next, Fidgeted, MeetingCreated, Continued, CalledDirectly, ButtonClicked,
     TimerFired, WorkspaceOpened, MeetingLeft, MeetingOpened, ViewReopened, Blurred, PollRead,
     PollMerged, PollFailed, Found, ParticipantFound, NoteLookedUp, StatusWritten, AuditWritten,
     Joined, NoteWritten, Answered, CallFailed, CopyUpdated, NotesSet, vars

\* What was true of a note's words stays true.
LEMMA TrueNotesGrow ==
  ASSUME TypedGrows
  PROVE  TrueNotes \subseteq TrueNotes'
BY DEF TypedGrows, TrueNotes, Shown

\* What a field is filled with is what it holds, nothing, or a note of the person.
LEMMA OwnTextFrom ==
  ASSUME NEW S, NEW list \in Seq(S), NEW t
  PROVE  /\ \/ OwnText(list, t) = Nothing
            \/ \E n \in S : n.by = t /\ OwnText(list, t) = n.text
         /\ \/ Synced(list, t) = draft[t]
            \/ \E n \in S : n.by = t /\ Synced(list, t) = n.text
<1>1. CASE OwnNotes(list, t) = {}
  BY <1>1 DEF OwnText, Synced
<1>2. CASE OwnNotes(list, t) # {}
  <2>1. FirstNote(list, t) \in 1..Len(list) /\ list[FirstNote(list, t)].by = t
    BY <1>2, FirstIsOwn
  <2>2. PICK n \in S : n = list[FirstNote(list, t)]
    BY <2>1
  <2>3. OwnText(list, t) = n.text /\ Synced(list, t) = n.text
    BY <1>2, <2>2 DEF OwnText, Synced
  <2> QED BY <2>1, <2>2, <2>3
<1> QED BY <1>1, <1>2

\* So a field that held what its person typed is filled with what that person typed.
LEMMA OwnTextTrue ==
  ASSUME TypeOK, FieldsTrue, NEW list \in Lists(TrueNotes), NEW t \in Tabs
  PROVE  /\ OwnText(list, t) \in Texts /\ OwnText(list, t) \subseteq typed[t]
         /\ Synced(list, t) \in Texts /\ Synced(list, t) \subseteq typed[t]
<1>1. list \in Seq(TrueNotes)
  BY DEF Lists
<1>2. \A n \in TrueNotes : n.text \in Texts /\ n.text \subseteq typed[n.by]
  BY DEF TrueNotes, Shown
<1>3. draft[t] \in Texts /\ draft[t] \subseteq typed[t] /\ Nothing \in Texts /\ Nothing \subseteq typed[t]
  BY DEF TypeOK, FieldsTrue, Nothing, Texts
<1> QED BY <1>1, <1>2, <1>3, OwnTextFrom

\* True rows are read as true notes.
LEMMA NotesNowTrue ==
  ASSUME TypeOK, RowsTrue
  PROVE  NotesNow \in Lists(TrueNotes)
<1>1. NotesNow \in Seq(Shown) /\ Distinct(NotesNow)
  BY NotesNowShape
<1>2. Len(NotesNow) \in Nat /\ DOMAIN NotesNow = 1..Len(NotesNow)
  BY <1>1
<1>3. \A i \in 1..Len(NotesNow) : NotesNow[i] \in TrueNotes
  <2> SUFFICES ASSUME NEW i \in 1..Len(NotesNow) PROVE NotesNow[i] \in TrueNotes
    OBVIOUS
  <2>1. NotesNow[i] \in Shown
    BY <1>1
  <2>2. i \in DOMAIN notes /\ NotesNow[i].text = notes[i].text /\ NotesNow[i].by = notes[i].by
    BY <1>2, NotesNowShape
  <2> QED BY <2>1, <2>2 DEF RowsTrue, TrueNotes
<1>4. NotesNow \in Seq(TrueNotes)
  <2>1. NotesNow \in [1..Len(NotesNow) -> TrueNotes]
    BY <1>1, <1>2, <1>3
  <2> QED BY <1>2, <2>1, SeqDef
<1> QED BY <1>1, <1>4 DEF Lists

\* The note an answered save brings.
LEMMA SavedTrue ==
  ASSUME TypeOK, CallsTrue, NEW k \in Calls, call[k].at = "answer", call[k].op = "save"
  PROVE  <<[NotesNow[call[k].id] EXCEPT !.text = call[k].text]>> \in Seq(TrueNotes)
<1>1. call[k] # Idle /\ call[k].text \in Texts
  BY BusyCall DEF Places
<1>2. /\ call[k].id \in DOMAIN notes /\ notes[call[k].id].by = call[k].by
      /\ call[k].text \subseteq typed[call[k].by]
  BY <1>1 DEF CallsTrue
<1>3. NotesNow[call[k].id] \in Shown /\ NotesNow[call[k].id].by = call[k].by
  <2>1. NotesNow \in Seq(Shown) /\ call[k].id \in DOMAIN NotesNow
    BY <1>2, NotesNowShape
  <2>2. NotesNow[call[k].id] \in Shown
    BY <2>1
  <2> QED BY <1>2, <2>2, NotesNowShape
<1>4. PICK n \in Shown : n = NotesNow[call[k].id]
  BY <1>3
<1>5. PICK saved : saved = [n EXCEPT !.text = call[k].text]
  OBVIOUS
<1>6. saved \in Shown /\ saved.by = n.by /\ saved.text = call[k].text
  BY <1>1, <1>5 DEF Shown
<1>7. saved \in TrueNotes
  BY <1>2, <1>3, <1>4, <1>6 DEF TrueNotes
<1> QED BY <1>4, <1>5, <1>7

\* Merging true notes gives true notes.
LEMMA MergedTrue ==
  ASSUME NEW N, NEW a \in Lists(N), NEW b \in Seq(N)
  PROVE  MergeNotes(a, b) \in Lists(N)
BY MergeKeeps DEF Lists

\* The list and the copy a tab begins with.
LEMMA EmptyList == ASSUME NEW N PROVE <<>> \in Lists(N) /\ Unknown \in Views(N)
<1>1. <<>> \in Seq(N) /\ DOMAIN <<>> = {}
  OBVIOUS
<1>2. <<>> \in Lists(N)
  BY <1>1 DEF Lists, Distinct
<1> QED BY <1>2 DEF Views, Unknown

\* A list that is set is shown in its tab.
LEMMA NoteShownWhere ==
  ASSUME TypeOK, NEW N, TabShape(N), NEW t \in Tabs, NEW list \in Lists(N), NotesSet(t, list)
  PROVE  shown' \in [Tabs -> Lists(N)]
BY DEF NotesSet, TabShape

\* An answer changes the copy, or the list that is shown.
LEMMA AnswerShown ==
  ASSUME TypeOK, NEW N, TabShape(N), NEW k \in Calls, Answered(k),
         call[k].view \in Views(N),
         call[k].op = "save" =>
           <<[NotesNow[call[k].id] EXCEPT !.text = call[k].text]>> \in Seq(N)
  PROVE  TabShape(N)'
<1> DEFINE t == call[k].by
<1>1. CASE t \notin Tabs
  BY <1>1 DEF Answered, tabVars, TabShape
<1>2. CASE t \in Tabs /\ call[k].op = "save"
  <2> DEFINE list == MergeNotes(shown[t], <<[NotesNow[call[k].id] EXCEPT !.text = call[k].text]>>)
  <2>1. list \in Lists(N)
    BY <1>2, MergedTrue DEF TabShape
  <2>2. NotesSet(t, list) /\ UNCHANGED <<copy, poll>>
    BY <1>2 DEF Answered
  <2> HIDE DEF list
  <2>3. shown' \in [Tabs -> Lists(N)]
    BY <1>2, <2>1, <2>2, NoteShownWhere
  <2> QED BY <2>2, <2>3 DEF TabShape
<1>3. CASE t \in Tabs /\ call[k].op # "save"
  <2>1. copy[t] \in Views(N)
    BY <1>3 DEF TabShape
  <2>2. [copy[t] EXCEPT !.joined = @ \cup {t}] \in Views(N)
    BY <1>3, <2>1, MeetingConstants DEF Views
  <2>3. PICK view \in Views(N) : CopyUpdated(t, view) /\ UNCHANGED <<shown, poll>>
    <3>1. CASE call[k].op = "join"
      BY <1>3, <2>2, <3>1 DEF Answered
    <3>2. CASE call[k].op # "join"
      BY <1>3, <3>2 DEF Answered
    <3> QED BY <3>1, <3>2
  <2> QED BY <2>1, <2>3 DEF CopyUpdated, TabShape
<1> QED BY <1>1, <1>2, <1>3

\* Copies, lists and polls stay lists of true notes without two of one id.
LEMMA TabShapeStep ==
  ASSUME TypeOK, WordsInv, [Next]_vars
  PROVE  TabShape(TrueNotes)'
<1> USE DEF tabVars, fieldVars
<1>1. PICK N : N = TrueNotes
  OBVIOUS
<1>2. TabShape(N) /\ NotesNow \in Lists(N) /\ <<>> \in Lists(N) /\ Unknown \in Views(N)
  BY <1>1, NotesNowTrue, EmptyList DEF WordsInv
<1>3. ViewNow \in Views(N)
  BY <1>2 DEF ViewNow, Views, TypeOK
<1>4. ASSUME NEW p \in People, MeetingCreated(p) PROVE TabShape(N)'
  <2>1. [Unknown EXCEPT !.status = "SCHEDULED"] \in Views(N)
    BY <1>2 DEF Views, Statuses
  <2> QED BY <1>2, <1>4, <2>1 DEF MeetingCreated, TabShape
<1>5. ASSUME NEW t \in Tabs, WorkspaceOpened(t) PROVE TabShape(N)'
  BY <1>2, <1>3, <1>5 DEF WorkspaceOpened, PollsCancelled, TabShape
<1>6. ASSUME NEW t \in Tabs, MeetingOpened(t) PROVE TabShape(N)'
  <2>1. copy[t].notes \in Lists(N)
    BY <1>2 DEF TabShape, Views
  <2> QED BY <1>2, <1>6, <2>1 DEF MeetingOpened, TabShape
<1>7. ASSUME NEW t \in Tabs, MeetingLeft(t) PROVE TabShape(N)'
  BY <1>2, <1>7 DEF MeetingLeft, PollsCancelled, TabShape
<1>8. ASSUME NEW t \in Tabs, NEW q \in Polls, PollRead(t, q) \/ PollFailed(t, q)
      PROVE  TabShape(N)'
  <2>1. PICK p \in {Idle} \cup [at : {"read"}, notes : Lists(N)] :
          poll' = [poll EXCEPT ![t][q] = p] /\ UNCHANGED <<copy, shown>>
    BY <1>2, <1>8 DEF PollRead, PollFailed
  <2> QED BY <1>2, <2>1 DEF TabShape
<1>9. ASSUME NEW t \in Tabs, NEW q \in Polls, PollMerged(t, q)
      PROVE  TabShape(N)'
  <2> DEFINE list == MergeNotes(shown[t], poll[t][q].notes)
  <2>1. poll[t][q].notes \in Lists(N) /\ shown[t] \in Lists(N)
    BY <1>2, <1>9 DEF PollMerged, TabShape
  <2>2. list \in Lists(N)
    BY <2>1, MergedTrue DEF Lists
  <2>3. NotesSet(t, list) /\ poll' = [poll EXCEPT ![t][q] = Idle] /\ copy' = copy
    BY <1>9 DEF PollMerged
  <2> HIDE DEF list
  <2>4. shown' \in [Tabs -> Lists(N)]
    BY <1>2, <2>2, <2>3, NoteShownWhere
  <2> QED BY <1>2, <2>3, <2>4 DEF TabShape
<1>10. ASSUME NEW k \in Calls, Answered(k) PROVE TabShape(N)'
  <2>1. call[k] # Idle /\ call[k].at = "answer"
    BY <1>10, BusyCall DEF Answered, At, Places
  <2>2. call[k].view \in Views(N)
    BY <1>1, <2>1 DEF WordsInv, CallsTrue
  <2>3. call[k].op = "save" =>
          <<[NotesNow[call[k].id] EXCEPT !.text = call[k].text]>> \in Seq(N)
    BY <1>1, <2>1, SavedTrue DEF WordsInv
  <2> QED BY <1>2, <1>10, <2>2, <2>3, AnswerShown
<1>11. ASSUME UNCHANGED <<copy, shown, poll>> PROVE TabShape(N)'
  BY <1>2, <1>11 DEF TabShape
<1>12. TabShape(N)'
  BY <1>4, <1>5, <1>6, <1>7, <1>8, <1>9, <1>10, <1>11 DEF Next, Fidgeted, Continued,
     CalledDirectly, SavedDirectly, ButtonClicked, TimerFired, ViewReopened, Blurred, Typed,
     Found, ParticipantFound, NoteLookedUp, StatusWritten, AuditWritten, Joined, NoteWritten,
     CallFailed, vars
<1>13. N \subseteq TrueNotes'
  BY <1>1, TypedStep, TrueNotesGrow
<1>14. PICK M : M = TrueNotes'
  OBVIOUS
<1>15. Lists(N) \subseteq Lists(M) /\ Views(N) \subseteq Views(M)
  BY <1>13, <1>14, ListsGrow
<1>16. TabShape(M)'
  BY <1>12, <1>15 DEF TabShape
<1> QED BY <1>14, <1>16

\* The note field and its timer.
LEMMA FieldsStep ==
  ASSUME TypeOK, WordsInv, [Next]_vars
  PROVE  draft' \in [Tabs -> Texts] /\ timer' \in [Tabs -> Texts] /\ FieldsTrue'
<1> USE DEF tabVars, fieldVars
<1>0. /\ typed' \in [People -> Texts] /\ TypedGrows /\ Tabs \subseteq People
      /\ FieldsTrue /\ TabShape(TrueNotes)
      /\ Nothing \in Texts /\ \A p \in People : Nothing \subseteq typed[p]
  BY TypedStep, MeetingConstants DEF WordsInv, Nothing, Texts
<1> DEFINE Filled(f, g) == /\ g \in [Tabs -> Texts]
                           /\ \A s \in Tabs : g[s] = f[s] \/ g[s] \subseteq typed'[s]
<1>1. ASSUME Filled(draft, draft'), Filled(timer, timer')
      PROVE  draft' \in [Tabs -> Texts] /\ timer' \in [Tabs -> Texts] /\ FieldsTrue'
  BY <1>0, <1>1 DEF FieldsTrue, TypedGrows
<1>2. ASSUME NEW t \in Tabs, NEW text \in Texts, text \subseteq typed[t],
             draft' = [draft EXCEPT ![t] = text], UNCHANGED timer \/ timer' = [timer EXCEPT ![t] = Nothing]
      PROVE  Filled(draft, draft') /\ Filled(timer, timer')
  BY <1>0, <1>2 DEF TypeOK, TypedGrows
<1>3. ASSUME NEW t \in Tabs, NEW list \in Lists(TrueNotes), NotesSet(t, list), UNCHANGED timer
      PROVE  Filled(draft, draft') /\ Filled(timer, timer')
  <2>1. PICK text \in Texts : /\ text \subseteq typed[t] /\ draft' = [draft EXCEPT ![t] = text]
    BY <1>0, <1>3, OwnTextTrue DEF NotesSet, TypeOK, FieldsTrue
  <2> QED BY <1>2, <1>3, <2>1
<1>4. ASSUME NEW t \in Tabs, WorkspaceOpened(t) \/ MeetingLeft(t)
      PROVE  Filled(draft, draft') /\ Filled(timer, timer')
  BY <1>0, <1>2, <1>4 DEF WorkspaceOpened, MeetingLeft
<1>5. ASSUME NEW t \in Tabs, MeetingOpened(t) \/ ViewReopened(t)
      PROVE  Filled(draft, draft') /\ Filled(timer, timer')
  <2>1. copy[t].notes \in Lists(TrueNotes) /\ shown[t] \in Lists(TrueNotes)
    BY <1>0 DEF TabShape, Views
  <2>2. PICK text \in Texts : text \subseteq typed[t] /\ draft' = [draft EXCEPT ![t] = text]
    BY <1>0, <1>5, <2>1, OwnTextTrue DEF MeetingOpened, ViewReopened
  <2>3. UNCHANGED timer \/ timer' = [timer EXCEPT ![t] = Nothing]
    BY <1>5 DEF MeetingOpened, ViewReopened
  <2> QED BY <1>2, <2>2, <2>3
<1>6. ASSUME NEW t \in Tabs, NEW q \in Polls, PollMerged(t, q)
      PROVE  Filled(draft, draft') /\ Filled(timer, timer')
  <2>1. poll[t][q].notes \in Lists(TrueNotes) /\ shown[t] \in Lists(TrueNotes)
    BY <1>0, <1>6 DEF PollMerged, TabShape
  <2>2. MergeNotes(shown[t], poll[t][q].notes) \in Lists(TrueNotes)
    BY <2>1, MergedTrue DEF Lists
  <2>3. PICK list \in Lists(TrueNotes) : list = MergeNotes(shown[t], poll[t][q].notes)
    BY <2>2
  <2> QED BY <1>3, <1>6, <2>3 DEF PollMerged
<1>7. ASSUME NEW t \in Tabs, Typed(t)
      PROVE  Filled(draft, draft') /\ Filled(timer, timer')
  <2>1. PICK n \in NextTyped : draft' = [draft EXCEPT ![t] = @ \cup {n}]
                               /\ typed' = [typed EXCEPT ![t] = @ \cup {n}]
    BY <1>7 DEF Typed
  <2>2. draft[t] \cup {n} \in Texts /\ draft[t] \cup {n} \subseteq typed'[t]
    BY <1>0, <2>1 DEF NextTyped, Texts, TypeOK, FieldsTrue
  <2>3. PICK text \in Texts : text = draft[t] \cup {n}
    BY <2>2
  <2>4. draft' = [draft EXCEPT ![t] = text] /\ timer' = [timer EXCEPT ![t] = text]
    BY <1>7, <2>1, <2>3 DEF Typed, TypeOK
  <2> QED BY <1>0, <2>2, <2>3, <2>4 DEF TypeOK
<1>8. ASSUME NEW t \in Tabs, NEW k \in Calls, TimerFired(k, t)
      PROVE  Filled(draft, draft') /\ Filled(timer, timer')
  BY <1>0, <1>8 DEF TimerFired, TypeOK, TypedGrows
<1>9. ASSUME NEW k \in Calls, Answered(k)
      PROVE  Filled(draft, draft') /\ Filled(timer, timer')
  <2> DEFINE t == call[k].by
  <2>1. CASE t \in Tabs /\ call[k].op = "save"
    <3>1. <<[NotesNow[call[k].id] EXCEPT !.text = call[k].text]>> \in Seq(TrueNotes)
      BY <1>9, <2>1, SavedTrue DEF WordsInv, Answered, At
    <3>2. MergeNotes(shown[t], <<[NotesNow[call[k].id] EXCEPT !.text = call[k].text]>>)
            \in Lists(TrueNotes)
      BY <1>0, <2>1, <3>1, MergedTrue DEF TabShape
    <3>3. PICK list \in Lists(TrueNotes) :
            list = MergeNotes(shown[t], <<[NotesNow[call[k].id] EXCEPT !.text = call[k].text]>>)
      BY <3>2
    <3>4. NotesSet(t, list) /\ UNCHANGED timer
      BY <1>9, <2>1, <3>3 DEF Answered
    <3> QED BY <1>3, <2>1, <3>4
  <2>2. CASE ~(t \in Tabs /\ call[k].op = "save")
    <3>1. UNCHANGED <<draft, timer>>
      BY <1>9, <2>2 DEF Answered
    <3> QED BY <3>1 DEF TypeOK
  <2> QED BY <2>1, <2>2
<1>10. ASSUME UNCHANGED <<draft, timer>> PROVE Filled(draft, draft') /\ Filled(timer, timer')
  BY <1>10 DEF TypeOK
<1> HIDE DEF Filled
<1> QED
  BY <1>1, <1>4, <1>5, <1>6, <1>7, <1>8, <1>9, <1>10 DEF Next, Fidgeted, Continued, MeetingCreated,
     CalledDirectly, SavedDirectly, ButtonClicked, Blurred, PollRead, PollFailed,
     Found, ParticipantFound, NoteLookedUp, StatusWritten, AuditWritten, Joined, NoteWritten,
     CallFailed, vars

(***************************************************************************)
(* The parts of the invariant that are about rows and calls.               *)
(***************************************************************************)

NothingBefore == status = "none" => notes = <<>> /\ \A k \in Calls : call[k] = Idle

\* What a call that is about to write the status has seen has been.
Earned ==
  /\ status # "none" => status \in reached
  /\ NoStageSkipped
  /\ \A k \in Calls : call[k].at = "write" =>
       /\ call[k].op = "end" => "ACTIVE" \in reached
       /\ call[k].op = "archive" => "ENDED" \in reached

\* As long as no two changes of the status overlapped there is one at most, and
\* the status is still the one it found.
Alone ==
  ~raced =>
    /\ \A j, k \in Calls :
         (/\ call[j] # Idle /\ call[j].op \in Transitions
          /\ call[k] # Idle /\ call[k].op \in Transitions) => j = k
    /\ \A k \in Calls :
         (call[k].at = "write" /\ call[k].op \in Transitions) => status \in Before[call[k].op]

\* Who is about to write a note is still involved.
Involved ==
  /\ OnlyTheInvolvedWrite
  /\ \A k \in Calls :
       (call[k].at = "write" /\ call[k].op = "save") => call[k].by \in joined \cup {host}

\* A person whose saves do not overlap has one note at most, and none while a save
\* that found none is about to write.
SavesApart ==
  \A p \in People \ doubled :
    /\ \A j, k \in Saving(p) : j = k
    /\ \A k \in Saving(p) : call[k].at = "write" /\ call[k].id = 0 => OwnNotes(notes, p) = {}
    /\ \A i, j \in OwnNotes(notes, p) : i = j

IInv ==
  /\ TypeOK /\ CallShape /\ NothingBefore
  /\ Earned /\ Alone /\ Involved /\ SavesApart /\ WordsInv

\* What a step leaves alone of the calls.
LEMMA OtherCalls ==
  ASSUME NEW k \in Calls, Moves(k), NEW j \in Calls \ {k}
  PROVE  call'[j] = call[j]
  BY DEF Moves, Walked, StatusSet, RowJoined, NoteSet, Went, WentOn, Ended

\* A call stays in places that fit what it does.
LEMMA CallShapeStep == IInv /\ [Next]_vars => CallShape'
<1> SUFFICES ASSUME IInv, [Next]_vars PROVE CallShape'
  OBVIOUS
<1>1. TypeOK /\ CallShape
  BY DEF IInv
<1> DEFINE Fits(k) ==
      /\ call'[k].at = "find" => call'[k].op # "save"
      /\ call'[k].at = "participant" => call'[k].op = "join"
      /\ call'[k].at = "note" => call'[k].op = "save"
      /\ call'[k].at = "audit" => call'[k].op \in Transitions
<1>2. ASSUME NEW k \in Calls, Same(k) \/ call'[k] = call[k] PROVE Fits(k)
  BY <1>1, <1>2 DEF CallShape, Same
<1>3. ASSUME Created PROVE \A k \in Calls : Fits(k)
  BY <1>2, <1>3 DEF Created, MeetingCreated
<1>4. ASSUME Resting PROVE \A k \in Calls : Fits(k)
  BY <1>2, <1>4 DEF Resting
<1>5. ASSUME NEW k \in Calls, NEW op \in Ops, NEW p \in People, Began(k, op, p)
      PROVE  \A j \in Calls : Fits(j)
  <2>1. Fits(k)
    BY <1>5 DEF Began
  <2> QED
    BY <1>2, <1>5, <2>1 DEF Began
<1>6. ASSUME NEW k \in Calls, Moves(k) PROVE \A j \in Calls : Fits(j)
  <2>1. Fits(k)
    BY <1>6, <1>1 DEF Moves, Walked, StatusSet, RowJoined, NoteSet, Went, WentOn, Ended, Idle
  <2> QED
    BY <1>2, <1>6, <2>1, OtherCalls
<1>7. \A k \in Calls : Fits(k)
  BY <1>1, <1>3, <1>4, <1>5, <1>6, NextKinds
<1> QED
  BY <1>7 DEF CallShape

\* Nothing is called before there is a meeting.
LEMMA NothingBeforeStep == IInv /\ [Next]_vars => NothingBefore'
<1> SUFFICES ASSUME IInv, [Next]_vars PROVE NothingBefore'
  OBVIOUS
<1> USE DEF rows
<1>0. TypeOK /\ CallShape /\ NothingBefore
  BY DEF IInv
<1>1. CASE Created
  BY <1>1 DEF Created, MeetingCreated, NothingBefore
<1>2. CASE Resting
  BY <1>0, <1>2 DEF Resting, NothingBefore, Same
<1>3. ASSUME NEW k \in Calls, NEW op \in Ops, NEW p \in People, Began(k, op, p)
      PROVE  NothingBefore'
  BY <1>3 DEF Began, NothingBefore
<1>4. ASSUME NEW k \in Calls, Moves(k) PROVE NothingBefore'
  <2>0. CASE status = "none"
    <3>1. call[k] = Idle
      BY <1>0, <2>0 DEF NothingBefore
    <3>2. Ended(k) /\ UNCHANGED rows
      BY <1>4, <3>1 DEF Moves, Walked, StatusSet, RowJoined, NoteSet, Went, WentOn, Idle
    <3> QED
      BY <1>0, <2>0, <3>2 DEF NothingBefore, Ended
  <2>1. CASE status # "none"
    <3>1. status' # "none"
      BY <1>4, <2>1 DEF Moves, Walked, StatusSet, RowJoined, NoteSet, Transitions, After
    <3> QED BY <3>1 DEF NothingBefore
  <2> QED BY <2>0, <2>1
<1> QED
  BY <1>0, <1>1, <1>2, <1>3, <1>4, NextKinds

\* A call that is about to write a status has seen the one before it.
LEMMA EarnedStep == IInv /\ [Next]_vars => Earned'
<1> SUFFICES ASSUME IInv, [Next]_vars PROVE Earned'
  OBVIOUS
<1> USE DEF rows, history
<1>0. TypeOK /\ CallShape /\ NothingBefore /\ Earned
  BY DEF IInv
<1>1. CASE Created
  BY <1>0, <1>1 DEF Created, MeetingCreated, NothingBefore, Earned, NoStageSkipped, Idle
<1>2. CASE Resting
  BY <1>0, <1>2 DEF Resting, Earned, NoStageSkipped, Same
<1>3. ASSUME NEW k \in Calls, NEW op \in Ops, NEW p \in People, Began(k, op, p)
      PROVE  Earned'
  BY <1>0, <1>3 DEF Began, Earned, NoStageSkipped
<1>4. ASSUME NEW k \in Calls, Moves(k) PROVE Earned'
  <2>1. CASE Walked(k)
    BY <1>0, <2>1 DEF Walked, Went, WentOn, Ended, Earned, NoStageSkipped, Transitions, Before, Idle
  <2>2. CASE StatusSet(k)
    BY <1>0, <2>2 DEF StatusSet, Went, Earned, NoStageSkipped, Transitions, After
  <2>3. CASE RowJoined(k)
    BY <1>0, <2>3 DEF RowJoined, Went, WentOn, Ended, Earned, NoStageSkipped, Idle
  <2>4. CASE NoteSet(k)
    BY <1>0, <2>4 DEF NoteSet, Went, Earned, NoStageSkipped
  <2> QED
    BY <1>4, <2>1, <2>2, <2>3, <2>4 DEF Moves
<1> QED
  BY <1>0, <1>1, <1>2, <1>3, <1>4, NextKinds

\* Two changes of the status that are under way have been noted as racing.
LEMMA AloneStep == IInv /\ [Next]_vars => Alone'
<1> SUFFICES ASSUME IInv, [Next]_vars PROVE Alone'
  OBVIOUS
<1> USE DEF rows, history
<1>0. TypeOK /\ CallShape /\ NothingBefore /\ Alone
  BY DEF IInv
<1>1. CASE Created
  BY <1>0, <1>1 DEF Created, MeetingCreated, NothingBefore, Alone, Idle
<1>2. CASE Resting
  BY <1>0, <1>2 DEF Resting, Alone, Same
<1>3. ASSUME NEW k \in Calls, NEW op \in Ops, NEW p \in People, Began(k, op, p)
      PROVE  Alone'
  BY <1>0, <1>3 DEF Began, Alone
<1>4. ASSUME NEW k \in Calls, Moves(k) PROVE Alone'
  <2>1. CASE Walked(k)
    BY <1>0, <2>1 DEF Walked, Went, WentOn, Ended, Alone, Idle, Transitions
  <2>2. CASE StatusSet(k)
    BY <1>0, <2>2 DEF StatusSet, Went, Alone, Idle
  <2>3. CASE RowJoined(k)
    BY <1>0, <2>3 DEF RowJoined, Went, WentOn, Ended, Alone, Idle
  <2>4. CASE NoteSet(k)
    BY <1>0, <2>4 DEF NoteSet, Went, Alone, Idle
  <2> QED
    BY <1>4, <2>1, <2>2, <2>3, <2>4 DEF Moves
<1> QED
  BY <1>0, <1>1, <1>2, <1>3, <1>4, NextKinds

\* A note is added at the end by the person who saves, or its words are replaced.
LEMMA NoteSetEffect ==
  ASSUME TypeOK, NEW k \in Calls, NoteSet(k)
  PROVE  LET n == call'[k].id IN
         /\ notes' \in Seq(NoteRows) /\ n \in DOMAIN notes' /\ DOMAIN notes \subseteq DOMAIN notes'
         /\ notes'[n].text = call[k].text
         /\ IF call[k].id = 0 THEN n \notin DOMAIN notes /\ notes'[n].by = call[k].by
                              ELSE n = call[k].id /\ n \in DOMAIN notes
         /\ \A i \in DOMAIN notes' : i # n => i \in DOMAIN notes /\ notes'[i] = notes[i]
         /\ \A i \in DOMAIN notes : notes'[i].by = notes[i].by
<1> DEFINE c == call[k]
           added == [by |-> c.by, text |-> c.text]
<1>1. /\ c.id \in Nat /\ c.id <= Len(notes) /\ c.by \in People /\ c.text \in Texts
  BY BusyCall DEF NoteSet, Places
<1>2. notes \in Seq(NoteRows) /\ Len(notes) \in Nat /\ DOMAIN notes = 1..Len(notes)
  <2>1. notes \in Seq(NoteRows)
    BY DEF TypeOK, NoteRows
  <2> QED BY <2>1
<1>3. CASE c.id = 0
  <2>1. added \in NoteRows /\ added.by = c.by /\ added.text = c.text
    BY <1>1 DEF NoteRows
  <2>2. notes' = Append(notes, added) /\ call'[k].id = Len(notes')
    BY <1>3 DEF NoteSet, Went
  <2> HIDE DEF added, c
  <2>3. /\ notes' \in Seq(NoteRows) /\ Len(notes') = Len(notes) + 1
        /\ DOMAIN notes' = 1..(Len(notes) + 1) /\ notes'[Len(notes) + 1] = added
        /\ \A i \in 1..Len(notes) : notes'[i] = notes[i]
    BY <1>2, <2>1, <2>2, RowAdded
  <2> QED BY <1>2, <1>3, <2>1, <2>2, <2>3 DEF c
<1>4. CASE c.id # 0
  <2>1. c.id \in 1..Len(notes)
    BY <1>1, <1>2, <1>4
  <2>2. notes' = [notes EXCEPT ![c.id].text = c.text] /\ call'[k].id = c.id
    BY <1>4 DEF NoteSet, Went
  <2> HIDE DEF c
  <2>3. PICK n, text : n = c.id /\ text = c.text
    OBVIOUS
  <2>4. n \in 1..Len(notes) /\ text \in Texts /\ notes' = [notes EXCEPT ![n].text = text]
    BY <1>1, <2>1, <2>2, <2>3
  <2>5. /\ notes' \in Seq(NoteRows) /\ Len(notes') = Len(notes) /\ DOMAIN notes' = 1..Len(notes)
        /\ notes'[n].text = text
        /\ \A i \in 1..Len(notes) : notes'[i].by = notes[i].by /\ (i # n => notes'[i] = notes[i])
    BY <1>2, <2>4, RowChanged
  <2> QED BY <1>2, <1>4, <2>1, <2>2, <2>3, <2>5 DEF c
<1> QED BY <1>3, <1>4

\* Nobody who has joined leaves between the check and the write.
LEMMA InvolvedStep == IInv /\ [Next]_vars => Involved'
<1> SUFFICES ASSUME IInv, [Next]_vars PROVE Involved'
  OBVIOUS
<1> USE DEF rows, history
<1>0. TypeOK /\ CallShape /\ NothingBefore /\ Involved
  BY DEF IInv
<1>1. CASE Created
  BY <1>0, <1>1 DEF Created, MeetingCreated, NothingBefore, Involved, OnlyTheInvolvedWrite, Idle
<1>2. CASE Resting
  BY <1>0, <1>2 DEF Resting, Involved, OnlyTheInvolvedWrite, Same
<1>3. ASSUME NEW k \in Calls, NEW op \in Ops, NEW p \in People, Began(k, op, p)
      PROVE  Involved'
  BY <1>0, <1>3 DEF Began, Involved, OnlyTheInvolvedWrite
<1>4. ASSUME NEW k \in Calls, Moves(k) PROVE Involved'
  <2>1. CASE Walked(k)
    BY <1>0, <2>1 DEF Walked, Went, WentOn, Ended, Involved, OnlyTheInvolvedWrite, Idle, Transitions
  <2>2. CASE StatusSet(k)
    BY <1>0, <2>2 DEF StatusSet, Went, Involved, OnlyTheInvolvedWrite
  <2>3. CASE RowJoined(k)
    BY <1>0, <2>3 DEF RowJoined, Went, WentOn, Ended, Involved, OnlyTheInvolvedWrite, Idle
  <2>4. CASE NoteSet(k)
    <3>1. call[k].by \in joined \cup {host}
      BY <1>0, <2>4 DEF NoteSet, Involved
    <3>2. \A i \in DOMAIN notes' :
            notes'[i].by = call[k].by \/ (i \in DOMAIN notes /\ notes'[i].by = notes[i].by)
      BY <1>0, <2>4, NoteSetEffect
    <3>3. OnlyTheInvolvedWrite'
      BY <1>0, <2>4, <3>1, <3>2 DEF NoteSet, Involved, OnlyTheInvolvedWrite
    <3> QED
      BY <1>0, <2>4, <3>3 DEF NoteSet, Went, Involved
  <2> QED
    BY <1>4, <2>1, <2>2, <2>3, <2>4 DEF Moves
<1> QED
  BY <1>0, <1>1, <1>2, <1>3, <1>4, NextKinds

\* Between the search of a save and its write nobody else adds a note of that person.
LEMMA SavesApartStep == IInv /\ [Next]_vars => SavesApart'
<1> SUFFICES ASSUME IInv, [Next]_vars, NEW p \in People, p \notin doubled'
             PROVE  /\ \A j, k \in Saving(p)' : j = k
                    /\ \A k \in Saving(p)' :
                         call'[k].at = "write" /\ call'[k].id = 0 => OwnNotes(notes', p) = {}
                    /\ \A i, j \in OwnNotes(notes', p) : i = j
  BY DEF SavesApart
<1> USE DEF rows, history
<1>0. TypeOK /\ CallShape /\ SavesApart
  BY DEF IInv
<1>1. \A k : /\ k \in Saving(p) <=> k \in Calls /\ call[k] # Idle /\ call[k].by = p /\ call[k].op = "save"
             /\ k \in Saving(p)' <=>
                  k \in Calls /\ call'[k] # Idle /\ call'[k].by = p /\ call'[k].op = "save"
  BY DEF Saving, CallsOf
<1>2. ASSUME p \notin doubled
      PROVE  /\ \A j, k \in Saving(p) : j = k
             /\ \A k \in Saving(p) : call[k].at = "write" /\ call[k].id = 0 => OwnNotes(notes, p) = {}
             /\ \A i, j \in OwnNotes(notes, p) : i = j
  BY <1>0, <1>2 DEF SavesApart
<1>3. CASE Created
  BY <1>1, <1>2, <1>3 DEF Created, MeetingCreated
<1>4. CASE Resting
  BY <1>1, <1>2, <1>4 DEF Resting, Same
<1>5. ASSUME NEW k \in Calls, NEW op \in Ops, NEW q \in People, Began(k, op, q)
      PROVE  /\ \A i, j \in Saving(p)' : i = j
             /\ \A j \in Saving(p)' :
                  call'[j].at = "write" /\ call'[j].id = 0 => OwnNotes(notes', p) = {}
             /\ \A i, j \in OwnNotes(notes', p) : i = j
  <2>1. p \notin doubled /\ notes' = notes /\ (op = "save" /\ q = p => Saving(p) = {})
    BY <1>5 DEF Began
  <2>2. \A j \in Saving(p)' :
          (j \in Saving(p) /\ call'[j] = call[j]) \/ (j = k /\ op = "save" /\ q = p)
    BY <1>1, <1>5 DEF Began
  <2>3. k \notin Saving(p) /\ call'[k].at # "write"
    BY <1>1, <1>5 DEF Began
  <2> QED BY <1>2, <2>1, <2>2, <2>3
<1>6. ASSUME NEW k \in Calls, Moves(k)
      PROVE  /\ \A i, j \in Saving(p)' : i = j
             /\ \A j \in Saving(p)' :
                  call'[j].at = "write" /\ call'[j].id = 0 => OwnNotes(notes', p) = {}
             /\ \A i, j \in OwnNotes(notes', p) : i = j
  <2>0. p \notin doubled
    BY <1>6 DEF Moves, Walked, StatusSet, RowJoined, NoteSet
  <2>1. \A j \in Saving(p)' : j \in Saving(p) /\ (j # k => call'[j] = call[j])
    <3>1. \A j \in Calls \ {k} : call'[j] = call[j]
      BY <1>6, OtherCalls
    <3>2. k \in Saving(p)' => k \in Saving(p)
      BY <1>0, <1>1, <1>6 DEF Moves, Walked, StatusSet, RowJoined, NoteSet, Went, WentOn, Ended
    <3> QED BY <1>1, <3>1, <3>2
  <2>2. CASE Walked(k)
    <3>1. k \in Saving(p)' /\ call'[k].at = "write" /\ call'[k].id = 0 => OwnNotes(notes, p) = {}
      BY <1>0, <1>1, <2>2, FoundIsOwn DEF Walked, WentOn, Went, Ended, Transitions
    <3> QED BY <1>2, <2>0, <2>1, <2>2, <3>1 DEF Walked
  <2>3. CASE StatusSet(k) \/ RowJoined(k)
    <3>1. notes' = notes /\ call[k].op # "save"
      BY <2>3 DEF StatusSet, RowJoined, Transitions
    <3> QED BY <1>1, <1>2, <2>0, <2>1, <3>1
  <2>4. CASE NoteSet(k)
    <3>1. call'[k].at = "answer" /\ call[k].op = "save" /\ call[k].at = "write" /\ call[k] # Idle
      BY <2>4 DEF NoteSet, Went
    <3>2. \A i : i \in OwnNotes(notes', p) =>
            \/ i \in OwnNotes(notes, p)
            \/ call[k].id = 0 /\ call[k].by = p /\ i = call'[k].id
      BY <1>0, <2>4, NoteSetEffect DEF OwnNotes
    <3>3. CASE call[k].by = p
      <4>1. k \in Saving(p)
        BY <1>1, <3>1, <3>3
      <4>2. call[k].id = 0 => OwnNotes(notes, p) = {}
        BY <1>2, <2>0, <3>1, <4>1
      <4> QED BY <1>2, <2>0, <2>1, <3>1, <3>2, <4>1, <4>2
    <3>4. CASE call[k].by # p
      <4>1. k \notin Saving(p)
        BY <1>1, <3>4
      <4>2. OwnNotes(notes', p) \subseteq OwnNotes(notes, p)
        BY <3>2, <3>4
      <4> QED BY <1>2, <2>0, <2>1, <4>1, <4>2
    <3> QED BY <3>3, <3>4
  <2> QED BY <1>6, <2>2, <2>3, <2>4 DEF Moves
<1> QED BY <1>0, <1>3, <1>4, <1>5, <1>6, NextKinds

\* A step keeps the rows of notes and adds at most one, of what was typed.
LEMMA NotesStep ==
  ASSUME IInv, [Next]_vars
  PROVE  /\ notes' \in Seq(NoteRows)
         /\ \A i \in DOMAIN notes : i \in DOMAIN notes' /\ notes'[i].by = notes[i].by
         /\ RowsTrue'
<1>0. TypeOK /\ CallShape /\ NothingBefore /\ RowsTrue /\ CallsTrue /\ TypedGrows
  BY TypedStep DEF IInv, WordsInv
<1>1. notes \in Seq(NoteRows)
  BY <1>0 DEF TypeOK, NoteRows
<1>2. \A i \in DOMAIN notes : notes[i].by \in People
  <2>1. \A i \in DOMAIN notes : notes[i] \in NoteRows
    BY <1>1
  <2> QED BY <2>1 DEF NoteRows
<1>3. CASE notes' = notes
  BY <1>0, <1>1, <1>2, <1>3 DEF RowsTrue, TypedGrows
<1>4. ASSUME NEW k \in Calls, NoteSet(k)
      PROVE  /\ notes' \in Seq(NoteRows)
             /\ \A i \in DOMAIN notes : i \in DOMAIN notes' /\ notes'[i].by = notes[i].by
             /\ RowsTrue'
  <2>1. PICK n : n = call'[k].id
    OBVIOUS
  <2>2. /\ notes' \in Seq(NoteRows) /\ n \in DOMAIN notes' /\ DOMAIN notes \subseteq DOMAIN notes'
        /\ notes'[n].text = call[k].text
        /\ IF call[k].id = 0 THEN n \notin DOMAIN notes /\ notes'[n].by = call[k].by
                             ELSE n = call[k].id /\ n \in DOMAIN notes
        /\ \A i \in DOMAIN notes' : i # n => i \in DOMAIN notes /\ notes'[i] = notes[i]
        /\ \A i \in DOMAIN notes : notes'[i].by = notes[i].by
    BY <1>0, <1>4, <2>1, NoteSetEffect
  <2>3. call[k] # Idle /\ call[k].op = "save" /\ call[k].at = "write" /\ call[k].by \in People
    BY <1>0, <1>4, BusyCall DEF NoteSet, Places
  <2>4. /\ call[k].text \subseteq typed[call[k].by]
        /\ call[k].id = 0 \/ notes[call[k].id].by = call[k].by
    BY <1>0, <2>3 DEF CallsTrue
  <2>5. notes'[n].by = call[k].by
    BY <2>2, <2>4
  <2>6. ASSUME NEW i \in DOMAIN notes' PROVE notes'[i].text \subseteq typed'[notes'[i].by]
    <3>1. CASE i = n
      BY <1>0, <2>2, <2>3, <2>4, <2>5, <3>1 DEF TypedGrows
    <3>2. CASE i # n
      BY <1>0, <1>2, <2>2, <3>2 DEF TypedGrows, RowsTrue
    <3> QED BY <3>1, <3>2
  <2> QED BY <2>2, <2>6 DEF RowsTrue
<1>5. notes' = notes \/ \E k \in Calls : NoteSet(k)
  BY <1>0, NextKinds DEF Created, MeetingCreated, Resting, Began, Moves, Walked, StatusSet, RowJoined, rows
<1> QED BY <1>3, <1>4, <1>5

\* A call is about what its person has typed, and names a note of that person.
LEMMA CallsTrueStep ==
  ASSUME IInv, [Next]_vars
  PROVE  CallsTrue'
<1>0. TypeOK /\ CallShape /\ RowsTrue /\ CallsTrue /\ FieldsTrue /\ TypedGrows
  BY TypedStep DEF IInv, WordsInv
<1>1. \A i \in DOMAIN notes : i \in DOMAIN notes' /\ notes'[i].by = notes[i].by
  BY NotesStep
<1>2. PICK M : M = TrueNotes'
  OBVIOUS
<1>3. Views(TrueNotes) \subseteq Views(M) /\ Unknown \in Views(M)
  BY <1>0, <1>2, TrueNotesGrow, ListsGrow, EmptyList
<1> DEFINE Own(j, id) == id \in DOMAIN notes' /\ notes'[id].by = call'[j].by
           TrueCall(j) == call'[j] # Idle =>
             /\ call'[j].text \subseteq typed'[call'[j].by]
             /\ call'[j].view \in Views(M)
             /\ call'[j].op = "save" /\ call'[j].at \in {"write", "answer"} =>
                  (call'[j].at = "write" /\ call'[j].id = 0) \/ Own(j, call'[j].id)
<1>4. ASSUME NEW j \in Calls, call[j] # Idle
      PROVE  /\ call[j].text \subseteq typed'[call[j].by]
             /\ call[j].view \in Views(M)
             /\ call[j].op = "save" /\ call[j].at \in {"write", "answer"} =>
                  \/ call[j].at = "write" /\ call[j].id = 0
                  \/ call[j].id \in DOMAIN notes' /\ notes'[call[j].id].by = call[j].by
  <2>1. call[j].by \in People
    BY <1>0, <1>4, BusyCall
  <2> QED BY <1>0, <1>1, <1>3, <1>4, <2>1 DEF CallsTrue, TypedGrows
<1>5. ASSUME NEW j \in Calls, Same(j) \/ call'[j] = call[j] PROVE TrueCall(j)
  <2>1. CASE call[j] = Idle
    BY <1>5, <2>1 DEF Same
  <2>2. CASE call[j] # Idle
    BY <1>4, <1>5, <2>2 DEF Same
  <2> QED BY <2>1, <2>2
<1>6. ASSUME Created PROVE \A j \in Calls : TrueCall(j)
  BY <1>5, <1>6 DEF Created, MeetingCreated
<1>7. ASSUME Resting PROVE \A j \in Calls : TrueCall(j)
  BY <1>5, <1>7 DEF Resting
<1>8. ASSUME NEW k \in Calls, NEW op \in Ops, NEW p \in People, Began(k, op, p)
      PROVE  \A j \in Calls : TrueCall(j)
  <2>1. call'[k].text \subseteq typed'[p]
    BY <1>0, <1>8 DEF Began, Tells, FieldsTrue, TypedGrows, Nothing
  <2>2. TrueCall(k)
    BY <1>3, <1>8, <2>1 DEF Began
  <2>3. \A j \in Calls \ {k} : TrueCall(j)
    BY <1>5, <1>8 DEF Began
  <2> QED BY <2>2, <2>3
<1>9. ASSUME NEW k \in Calls, Moves(k) PROVE \A j \in Calls : TrueCall(j)
  <2>1. \A j \in Calls \ {k} : TrueCall(j)
    BY <1>5, <1>9, OtherCalls
  <2>2. ASSUME Ended(k) PROVE TrueCall(k)
    BY <2>2 DEF Ended
  <2>3. ASSUME ~Ended(k)
        PROVE  /\ call[k] # Idle
               /\ call'[k].op = call[k].op /\ call'[k].by = call[k].by
               /\ call'[k].text = call[k].text
    BY <1>9, <2>3 DEF Moves, Walked, StatusSet, RowJoined, NoteSet, WentOn, Went
  <2>4. ASSUME ~Ended(k), Walked(k) PROVE TrueCall(k)
    <3>1. call'[k].view = call[k].view
      BY <2>4 DEF Walked, WentOn, Went
    <3>2. CASE call[k].op # "save"
      BY <1>4, <2>3, <2>4, <3>1, <3>2
    <3>3. CASE call[k].op = "save"
      <4>1. call'[k].at = "write" /\ call'[k].id = NoteFound(call[k].by)
        BY <1>0, <2>4, <3>3 DEF Walked, WentOn, Went, CallShape, Transitions
      <4>2. call'[k].id = 0 \/ Own(k, call'[k].id)
        BY <1>0, <1>1, <2>3, <2>4, <4>1, FoundIsOwn
      <4> QED BY <1>4, <2>3, <2>4, <3>1, <4>1, <4>2
    <3> QED BY <3>2, <3>3
  <2>5. ASSUME ~Ended(k), StatusSet(k) PROVE TrueCall(k)
    <3>1. PICK s \in Statuses : s = status'
      BY <2>5 DEF StatusSet, Transitions, After, Statuses
    <3>2. NotesNow \in Lists(TrueNotes) /\ [ViewNow EXCEPT !.status = s] \in View
          /\ [ViewNow EXCEPT !.status = s].notes = NotesNow
      BY <1>0, NotesNowTrue, ViewNowShape
    <3>3. PICK view : view = [ViewNow EXCEPT !.status = s]
      OBVIOUS
    <3>4. view \in Views(TrueNotes)
      BY <3>2, <3>3 DEF View, Views
    <3>5. call'[k].view = view /\ call[k].op # "save"
      BY <2>5, <3>1, <3>3 DEF StatusSet, Went, Transitions
    <3> QED BY <1>3, <1>4, <2>3, <2>5, <3>4, <3>5
  <2>6. ASSUME ~Ended(k), RowJoined(k) PROVE TrueCall(k)
    <3>1. call'[k].view = call[k].view /\ call[k].op # "save"
      BY <2>6 DEF RowJoined, WentOn, Went
    <3> QED BY <1>4, <2>3, <2>6, <3>1
  <2>7. ASSUME ~Ended(k), NoteSet(k) PROVE TrueCall(k)
    <3>1. call'[k].view = call[k].view /\ call[k].op = "save" /\ call[k].at = "write"
      BY <2>7 DEF NoteSet, Went
    <3>2. PICK n : n = call'[k].id
      OBVIOUS
    <3>3. /\ n \in DOMAIN notes' /\ \A i \in DOMAIN notes : notes'[i].by = notes[i].by
          /\ IF call[k].id = 0 THEN notes'[n].by = call[k].by
                               ELSE n = call[k].id /\ n \in DOMAIN notes
      BY <1>0, <2>7, <3>2, NoteSetEffect
    <3>4. call[k].id = 0 \/ notes[call[k].id].by = call[k].by
      BY <1>0, <2>3, <2>7, <3>1 DEF CallsTrue
    <3>5. Own(k, call'[k].id)
      BY <2>3, <2>7, <3>2, <3>3, <3>4
    <3> QED BY <1>4, <2>3, <2>7, <3>1, <3>5
  <2>8. TrueCall(k)
    BY <1>9, <2>2, <2>4, <2>5, <2>6, <2>7 DEF Moves
  <2> QED BY <2>1, <2>8
<1>10. \A j \in Calls : TrueCall(j)
  BY <1>0, <1>6, <1>7, <1>8, <1>9, NextKinds
<1> QED BY <1>2, <1>10 DEF CallsTrue

(***************************************************************************)
(* The types, and the theorems.                                            *)
(***************************************************************************)

\* Only tabs have the meeting open.
LEMMA OpenStep ==
  ASSUME TypeOK, [Next]_vars
  PROVE  open' \subseteq Tabs
BY DEF TypeOK, Next, Fidgeted, Continued, MeetingCreated, CalledDirectly, SavedDirectly,
   ButtonClicked, TimerFired, WorkspaceOpened, MeetingLeft, MeetingOpened, ViewReopened,
   Blurred, Typed, PollRead, PollMerged, PollFailed, Found, ParticipantFound, NoteLookedUp,
   StatusWritten, AuditWritten, Joined, NoteWritten, Answered, CallFailed, tabVars, fieldVars, vars

\* The rows and the history stay what they are declared to be.
LEMMA RowTypesStep ==
  ASSUME TypeOK, CallShape, [Next]_vars
  PROVE  /\ status' \in Statuses \cup {"none"} /\ host' \in People \cup {Nobody}
         /\ joined' \subseteq People /\ reached' \subseteq Statuses
         /\ doubled' \subseteq People /\ raced' \in BOOLEAN
<1> USE DEF rows, history
<1>0. /\ status \in Statuses \cup {"none"} /\ host \in People \cup {Nobody}
      /\ joined \subseteq People /\ reached \subseteq Statuses
      /\ doubled \subseteq People /\ raced \in BOOLEAN
  BY DEF TypeOK
<1>1. CASE Created
  BY <1>0, <1>1, MeetingConstants DEF Created, MeetingCreated, Statuses
<1>2. CASE Resting
  BY <1>0, <1>2 DEF Resting
<1>3. ASSUME NEW k \in Calls, NEW op \in Ops, NEW p \in People, Began(k, op, p)
      PROVE  /\ status' \in Statuses \cup {"none"} /\ host' \in People \cup {Nobody}
             /\ joined' \subseteq People /\ reached' \subseteq Statuses
             /\ doubled' \subseteq People /\ raced' \in BOOLEAN
  BY <1>0, <1>3 DEF Began
<1>4. ASSUME NEW k \in Calls, Moves(k)
      PROVE  /\ status' \in Statuses \cup {"none"} /\ host' \in People \cup {Nobody}
             /\ joined' \subseteq People /\ reached' \subseteq Statuses
             /\ doubled' \subseteq People /\ raced' \in BOOLEAN
  <2>1. CASE Walked(k) \/ NoteSet(k)
    BY <1>0, <2>1 DEF Walked, NoteSet
  <2>2. CASE StatusSet(k)
    <3>1. status' \in Statuses
      BY <2>2 DEF StatusSet, Transitions, After, Statuses
    <3> QED BY <1>0, <2>2, <3>1 DEF StatusSet
  <2>3. CASE RowJoined(k)
    <3>1. call[k].by \in People
      BY <2>3, BusyCall DEF RowJoined, Places
    <3> QED BY <1>0, <2>3, <3>1 DEF RowJoined
  <2> QED BY <1>4, <2>1, <2>2, <2>3 DEF Moves
<1> QED BY <1>1, <1>2, <1>3, <1>4, NextKinds

\* True notes are notes.
LEMMA ShapesTyped ==
  ASSUME NEW N, N \subseteq Shown
  PROVE  /\ Lists(N) \subseteq Seq(Shown) /\ Views(N) \subseteq View
         /\ {Idle} \cup [at : {"read"}, notes : Lists(N)] \subseteq PollStates
<1>1. Seq(N) \subseteq Seq(Shown)
  BY SeqMonotonic
<1>2. Lists(N) \subseteq Seq(Shown)
  BY <1>1 DEF Lists
<1> QED BY <1>2 DEF Views, View, PollStates

\* The types, from the parts.
LEMMA TypeOKStep ==
  ASSUME IInv, [Next]_vars
  PROVE  TypeOK'
<1>0. TypeOK /\ CallShape /\ WordsInv
  BY DEF IInv
<1>1. CallsTyped'
  BY <1>0, NextKinds
<1>2. notes' \in Seq([by : People, text : Texts])
  BY NotesStep DEF NoteRows
<1>3. /\ copy' \in [Tabs -> View] /\ shown' \in [Tabs -> Seq(Shown)]
      /\ poll' \in [Tabs -> [Polls -> PollStates]]
  <2>1. PICK M : M = TrueNotes'
    OBVIOUS
  <2>2. M \subseteq Shown /\ TabShape(M)'
    BY <1>0, <2>1, TabShapeStep DEF TrueNotes
  <2>3. copy' \in [Tabs -> View] /\ shown' \in [Tabs -> Seq(Shown)]
    BY <2>2, ShapesTyped DEF TabShape
  <2>4. poll' \in [Tabs -> [Polls -> PollStates]]
    BY <2>2, ShapesTyped DEF TabShape
  <2> QED BY <2>3, <2>4
<1>4. /\ draft' \in [Tabs -> Texts] /\ timer' \in [Tabs -> Texts]
      /\ typed' \in [People -> Texts] /\ open' \subseteq Tabs
  BY <1>0, FieldsStep, TypedStep, OpenStep
<1> QED BY <1>0, <1>1, <1>2, <1>3, <1>4, RowTypesStep DEF TypeOK, CallsTyped

\* The invariant holds at the start, and at every step.
LEMMA IInvInit == Init => IInv
<1> SUFFICES ASSUME Init PROVE IInv
  OBVIOUS
<1> USE DEF Init
<1>0. \A k \in Calls : call[k] = Idle
  OBVIOUS
<1>1. <<>> \in Seq(NoteRows) /\ DOMAIN <<>> = {}
  OBVIOUS
<1>2. TabShape(TrueNotes)
  <2>1. PICK N : N = TrueNotes
    OBVIOUS
  <2>2. <<>> \in Lists(N) /\ Unknown \in Views(N)
    BY EmptyList
  <2>3. TabShape(N)
    BY <2>2 DEF TabShape
  <2> QED BY <2>1, <2>3
<1>3. WordsInv
  BY <1>0, <1>1, <1>2 DEF WordsInv, RowsTrue, CallsTrue, FieldsTrue, Nothing
<1>4. /\ copy \in [Tabs -> View] /\ shown \in [Tabs -> Seq(Shown)]
      /\ poll \in [Tabs -> [Polls -> PollStates]]
  <2>1. <<>> \in Seq(Shown)
    OBVIOUS
  <2> QED BY <2>1 DEF View, Unknown, PollStates
<1>5. TypeOK
  BY <1>0, <1>1, <1>4 DEF TypeOK, NoteRows, Nothing, Texts
<1>6. CallShape /\ NothingBefore /\ Earned /\ Alone /\ Involved
  BY <1>0, <1>1 DEF CallShape, NothingBefore, Earned, NoStageSkipped, Alone, Involved,
     OnlyTheInvolvedWrite, Idle
<1>7. SavesApart
  BY <1>0, <1>1 DEF SavesApart, Saving, CallsOf, OwnNotes
<1> QED BY <1>3, <1>5, <1>6, <1>7 DEF IInv

LEMMA IInvAlways == Spec => []IInv
<1>1. IInv /\ [Next]_vars => IInv'
  <2> SUFFICES ASSUME IInv, [Next]_vars PROVE IInv'
    OBVIOUS
  <2>1. WordsInv'
    BY NotesStep, CallsTrueStep, TabShapeStep, FieldsStep DEF IInv, WordsInv
  <2>2. TypeOK'
    BY TypeOKStep
  <2>3. CallShape' /\ NothingBefore' /\ Earned' /\ Alone' /\ Involved' /\ SavesApart'
    BY CallShapeStep, NothingBeforeStep, EarnedStep, AloneStep, InvolvedStep, SavesApartStep
  <2> QED BY <2>1, <2>2, <2>3 DEF IInv
<1> QED
  BY <1>1, IInvInit, PTL DEF Spec

\* The rows, the calls, the tabs and what is on the way to them are what the
\* declarations say, whatever is merged, polled or filled in.
THEOREM TypeCorrect == Spec => []TypeOK
<1>1. IInv => TypeOK
  BY DEF IInv
<1> QED
  BY <1>1, IInvAlways, PTL

\* However many managers start, end and archive the meeting at once, it has been
\* active before it has been ended, and ended before it has been archived.
THEOREM StagesInOrder == Spec => []NoStageSkipped
<1>1. IInv => NoStageSkipped
  BY DEF IInv, Earned
<1> QED
  BY <1>1, IInvAlways, PTL

\* However the checks of a save are taken apart from its write, and whatever
\* happens in between, every note is by the host or by someone who has joined.
THEOREM NotesOfTheInvolved == Spec => []OnlyTheInvolvedWrite
<1>1. IInv => OnlyTheInvolvedWrite
  BY DEF IInv, Involved
<1> QED
  BY <1>1, IInvAlways, PTL

\* The search of a save and its write are two queries and the table has no unique
\* key for the pair: a person still has one note as long as no two saves of that
\* person overlap, whatever everyone else saves.
THEOREM OneNoteAlways == Spec => []OneNoteEach
<1>1. IInv => OneNoteEach
  <2> SUFFICES ASSUME IInv, NEW p \in People \ doubled
               PROVE  Cardinality(OwnNotes(notes, p)) <= 1
    BY DEF OneNoteEach
  <2>1. \A i, j \in OwnNotes(notes, p) : i = j
    BY DEF IInv, SavesApart
  <2>2. CASE OwnNotes(notes, p) = {}
    <3>1. Cardinality({}) = 0
      BY FS_EmptySet
    <3> QED BY <2>2, <3>1
  <2>3. CASE OwnNotes(notes, p) # {}
    <3>1. PICK i : OwnNotes(notes, p) = {i}
      BY <2>1, <2>3
    <3>2. Cardinality({i}) = 1
      BY FS_Singleton
    <3> QED BY <3>1, <3>2
  <2> QED BY <2>2, <2>3
<1> QED
  BY <1>1, IInvAlways, PTL

\* Neither a merge of late notes, nor a poll, nor the refill of a field brings what
\* one person typed under the name, or into the field, of another.
THEOREM WordsAlwaysTheirs == Spec => []WordsAreTheirs
<1>1. IInv => WordsAreTheirs
  <2> SUFFICES ASSUME IInv PROVE WordsAreTheirs
    OBVIOUS
  <2>1. RowsTrue /\ FieldsTrue /\ TabShape(TrueNotes)
    BY DEF IInv, WordsInv
  <2>2. ASSUME NEW t \in Tabs, NEW i \in DOMAIN shown[t]
        PROVE  shown[t][i].text \subseteq typed[shown[t][i].by]
    <3>1. shown[t] \in Seq(TrueNotes)
      BY <2>1 DEF TabShape, Lists
    <3>2. shown[t][i] \in TrueNotes
      BY <3>1
    <3> QED BY <3>2 DEF TrueNotes
  <2> QED BY <2>1, <2>2 DEF WordsAreTheirs, RowsTrue, FieldsTrue
<1> QED
  BY <1>1, IInvAlways, PTL

\* A merge adds a note whose id the list does not have, and only such: a note is
\* shown once, in whatever order polls, answers and the copy bring it.
THEOREM ShownAlwaysOnce == Spec => []ShownOnce
<1>1. IInv => ShownOnce
  <2> SUFFICES ASSUME IInv, NEW t \in Tabs PROVE Distinct(shown[t])
    BY DEF ShownOnce, Distinct
  <2>1. shown[t] \in Lists(TrueNotes)
    BY DEF IInv, WordsInv, TabShape
  <2> QED BY <2>1 DEF Lists
<1> QED
  BY <1>1, IInvAlways, PTL

\* As long as no two changes of the status have overlapped it has only moved
\* forward.
THEOREM ForwardUnlessRaced == Spec => LifecycleForward
<1>1. IInv /\ [Next]_vars => [~raced => Stage[status] <= Stage[status']]_vars
  <2> SUFFICES ASSUME IInv, [Next]_vars, ~raced PROVE Stage[status] <= Stage[status']
    OBVIOUS
  <2>0. CallShape /\ TypeOK /\ Alone
    BY DEF IInv
  <2>1. CASE status' = status
    <3>1. status \in Statuses \cup {"none"}
      BY <2>0 DEF TypeOK
    <3> QED BY <2>1, <3>1 DEF Statuses, Stage
  <2>2. CASE Created
    BY <2>2 DEF Created, MeetingCreated, Stage
  <2>3. ASSUME NEW k \in Calls, StatusSet(k) PROVE Stage[status] <= Stage[status']
    <3>1. status \in Before[call[k].op] /\ call[k].op \in Transitions
      BY <2>0, <2>3 DEF StatusSet, Alone
    <3> QED
      BY <2>3, <3>1 DEF StatusSet, Transitions, Before, After, Stage
  <2>4. status' = status \/ Created \/ \E k \in Calls : StatusSet(k)
    BY <2>0, NextKinds DEF rows, Resting, Began, Moves, Walked, RowJoined, NoteSet
  <2> QED
    BY <2>1, <2>2, <2>3, <2>4
<1> QED
  BY <1>1, IInvAlways, PTL DEF Spec, LifecycleForward
=============================================================================
