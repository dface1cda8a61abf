---------------------------- MODULE MessageProofs ----------------------------
(***************************************************************************)
(* For any number of clients, messages and operations in progress: no      *)
(* client shows a message twice, none misses what it is owed, and a client *)
(* that was there when a message was created ends up with the message as   *)
(* the database has it.                                                    *)
(*                                                                         *)
(* What is on its way to a client is a sequence of events.  The proofs say *)
(* where it leads: Reaches(S, w, R, m) when the events of w make R of the  *)
(* copies S of message m.  An event that is sent extends the way at its    *)
(* end, one that is handled shortens it at its beginning.                  *)
(***************************************************************************)
EXTENDS MessageSync, SequenceTheorems, FiniteSetTheorems, TLAPS

\* The order of the numbers, as the library has it.
LEMMA NatOrder == IsWellFoundedOn(OpToRel(<, Nat), Nat)
BY NatLessThanWellFounded

\* Every set of numbers has a least one.
LEMMA HasLeast ==
  ASSUME NEW S \in SUBSET Nat, S # {}
  PROVE  \E m \in S : \A x \in S : m <= x
<1>1. PICK m \in S : \A x \in S : <<x, m>> \notin OpToRel(<, Nat)
  BY NatOrder, WFMin
<1>2. \A x \in S : ~(x < m)
  BY <1>1 DEF OpToRel
<1> QED BY <1>2

\* What holds at 0, and at each number if it does at the one before, holds up to n.
LEMMA UpTo ==
  ASSUME NEW n \in Nat, NEW T \in SUBSET (0..n), 0 \in T,
         \A m \in 1..n : m - 1 \in T => m \in T
  PROVE  T = 0..n
<1> SUFFICES ASSUME (0..n) \ T # {} PROVE FALSE
  OBVIOUS
<1>1. (0..n) \ T \in SUBSET Nat
  OBVIOUS
<1>2. PICK m \in (0..n) \ T : \A x \in (0..n) \ T : m <= x
  BY <1>1, HasLeast
<1>3. m \in 1..n /\ m - 1 \in 0..n /\ ~(m <= m - 1)
  BY <1>2
<1> QED BY <1>2, <1>3

(***************************************************************************)
(* The operations of the store on a list without two copies of a message.  *)
(***************************************************************************)

Distinct(l) == \A i, j \in DOMAIN l : l[i].id = l[j].id => i = j
Lists(N) == {l \in Seq(N) : Distinct(l)}
ShownOf(l, m) == {copy \in ToSet(l) : copy.id = m}

\* s has the elements of S by their places.
Sorted(s, S) ==
  /\ \A copy \in S : \E i \in DOMAIN s : s[i] = copy
  /\ \A i, j \in DOMAIN s : i < j => s[i].at < s[j].at

\* Copies with places of their own can be put in order: those up to a place, for
\* one place after the other.
LEMMA OrderExists ==
  ASSUME NEW S, NEW K \in Nat, \A x \in S : x.at \in 0..K,
         \A x, y \in S : x.at = y.at => x = y
  PROVE  IsFiniteSet(S) /\ \E s \in [1..Cardinality(S) -> S] : Sorted(s, S)
<1> DEFINE Up(k) == {x \in S : x.at <= k}
           Orders(s, n, U) ==
             /\ IsFiniteSet(U) /\ n \in Nat /\ Cardinality(U) = n
             /\ s \in [1..n -> U] /\ Sorted(s, U)
           T == {k \in 0..K : \E s, n : Orders(s, n, Up(k))}
<1>1. ASSUME NEW U, NEW x \in S, NEW s, NEW n, U \subseteq S, Orders(s, n, U),
             \A y \in U : y.at < x.at
      PROVE  \E t : Orders(t, n + 1, U \cup {x})
  <2> DEFINE t == [i \in 1..(n + 1) |-> IF i = n + 1 THEN x ELSE s[i]]
  <2>0. n \in Nat /\ n + 1 \in Nat /\ x \notin U /\ x.at \in Nat
    BY <1>1
  <2>1. IsFiniteSet(U \cup {x}) /\ Cardinality(U \cup {x}) = n + 1
    BY <1>1, <2>0, FS_AddElement
  <2>2. \A i \in 1..(n + 1) : i = n + 1 \/ i \in 1..n
    BY <2>0
  <2>3. t \in [1..(n + 1) -> U \cup {x}]
    BY <1>1, <2>2
  <2>4. \A y \in U \cup {x} : \E i \in 1..(n + 1) : t[i] = y
    <3>1. n + 1 \in 1..(n + 1) /\ t[n + 1] = x
      BY <2>0
    <3>2. ASSUME NEW y \in U PROVE \E i \in 1..(n + 1) : t[i] = y
      <4>1. PICK i \in 1..n : s[i] = y
        BY <1>1 DEF Sorted
      <4>2. i \in 1..(n + 1) /\ i # n + 1
        BY <2>0
      <4> QED BY <4>1, <4>2
    <3> HIDE DEF t
    <3> QED BY <3>1, <3>2
  <2>5. ASSUME NEW i \in 1..(n + 1), NEW j \in 1..(n + 1), i < j PROVE t[i].at < t[j].at
    <3>1. i \in 1..n /\ i # n + 1
      BY <2>0, <2>5
    <3>2. CASE j = n + 1
      BY <1>1, <3>1, <3>2
    <3>3. CASE j # n + 1
      <4>1. j \in 1..n
        BY <2>2, <3>3
      <4> QED BY <1>1, <2>5, <3>1, <3>3, <4>1 DEF Sorted
    <3> QED BY <3>2, <3>3
  <2> HIDE DEF t
  <2>6. DOMAIN t = 1..(n + 1)
    BY <2>3
  <2>7. Orders(t, n + 1, U \cup {x})
    BY <2>0, <2>1, <2>3, <2>4, <2>5, <2>6 DEF Sorted
  <2> HIDE DEF Orders
  <2> QED BY <2>7
<1>2. \E s, n : Orders(s, n, {})
  <2>1. IsFiniteSet({}) /\ Cardinality({}) = 0
    BY FS_EmptySet
  <2>2. Orders([i \in 1..0 |-> 0], 0, {})
    BY <2>1 DEF Sorted
  <2> HIDE DEF Orders
  <2> QED BY <2>2
<1>3. ASSUME NEW U, NEW V, U \subseteq S, V \subseteq S, \E s, n : Orders(s, n, U),
             V = U \/ \E x \in S : V = U \cup {x} /\ \A y \in U : y.at < x.at
      PROVE  \E s, n : Orders(s, n, V)
  <2> HIDE DEF Orders
  <2>1. PICK s, n : Orders(s, n, U)
    BY <1>3
  <2>2. CASE V = U
    BY <2>1, <2>2
  <2>3. ASSUME NEW x \in S, V = U \cup {x}, \A y \in U : y.at < x.at
        PROVE  \E t, k : Orders(t, k, V)
    <3>1. \E t : Orders(t, n + 1, U \cup {x})
      BY <1>1, <1>3, <2>1, <2>3
    <3> QED BY <2>3, <3>1
  <2> QED BY <1>3, <2>2, <2>3
<1>4. ASSUME NEW k \in Nat, NEW W \in SUBSET S, \A y \in W : y.at < k, W = {x \in S : x.at < k}
      PROVE  Up(k) = W \/ \E x \in S : Up(k) = W \cup {x} /\ \A y \in W : y.at < x.at
  <2>1. CASE \E x \in S : x.at = k
    <3>1. PICK x \in S : x.at = k
      BY <2>1
    <3>2. Up(k) = W \cup {x}
      BY <1>4, <3>1
    <3> QED BY <1>4, <3>1, <3>2
  <2>2. CASE ~\E x \in S : x.at = k
    BY <1>4, <2>2
  <2> QED BY <2>1, <2>2
<1> HIDE DEF Orders
<1>5. 0 \in T
  <2>1. Up(0) = {} \/ \E x \in S : Up(0) = {} \cup {x} /\ \A y \in {} : y.at < x.at
    BY <1>4
  <2>2. \E s, n : Orders(s, n, Up(0))
    BY <1>2, <1>3, <2>1
  <2>3. 0 \in 0..K
    OBVIOUS
  <2> HIDE DEF Up
  <2> QED BY <2>2, <2>3
<1>6. ASSUME NEW k \in 1..K, k - 1 \in T PROVE k \in T
  <2>1. /\ \A y \in Up(k - 1) : y.at < k
        /\ Up(k - 1) = {x \in S : x.at < k}
    OBVIOUS
  <2>2. Up(k) = Up(k - 1) \/ \E x \in S : Up(k) = Up(k - 1) \cup {x} /\ \A y \in Up(k - 1) : y.at < x.at
    BY <1>4, <2>1
  <2>3. \E s, n : Orders(s, n, Up(k - 1))
    BY <1>6
  <2> HIDE DEF Up
  <2>4. Up(k) \subseteq S /\ Up(k - 1) \subseteq S
    BY DEF Up
  <2>5. \E s, n : Orders(s, n, Up(k))
    BY <1>3, <2>2, <2>3, <2>4
  <2> QED BY <2>5
<1>7. T = 0..K
  <2> HIDE DEF T
  <2>1. T \in SUBSET (0..K)
    BY DEF T
  <2> QED BY <1>5, <1>6, <2>1, UpTo
<1>8. Up(K) = S
  OBVIOUS
<1>9. PICK s, n : Orders(s, n, S)
  <2> HIDE DEF Up
  <2>1. K \in T
    BY <1>7
  <2>2. \E s, n : Orders(s, n, Up(K))
    BY <2>1
  <2> QED BY <1>8, <2>2
<1> QED BY <1>9 DEF Orders

\* So a page can be merged, and merging neither loses a message nor doubles one.
LEMMA InOrderIs ==
  ASSUME NEW S, NEW K \in Nat, \A x \in S : x.at \in 0..K,
         \A x, y \in S : x.at = y.at => x = y
  PROVE  /\ InOrder(S) \in Seq(S) /\ ToSet(InOrder(S)) = S
         /\ \A i, j \in DOMAIN InOrder(S) : InOrder(S)[i] = InOrder(S)[j] => i = j
<1>1. Cardinality(S) \in Nat /\ \E s \in [1..Cardinality(S) -> S] : Sorted(s, S)
  BY OrderExists, FS_CardinalityType
<1>2. PICK s : s = InOrder(S)
  OBVIOUS
<1>3. s \in [1..Cardinality(S) -> S] /\ Sorted(s, S)
  BY <1>1, <1>2 DEF InOrder, Sorted
<1>4. s \in Seq(S)
  BY <1>1, <1>3, SeqDef
<1>5. ToSet(s) = S
  BY <1>3 DEF ToSet, Sorted
<1>6. \A i, j \in DOMAIN s : s[i] = s[j] => i = j
  <2> SUFFICES ASSUME NEW i \in 1..Cardinality(S), NEW j \in 1..Cardinality(S), s[i] = s[j], i < j
               PROVE  FALSE
    BY <1>1, <1>3
  <2>1. s[i].at < s[j].at /\ s[i] \in S
    BY <1>3 DEF Sorted
  <2> QED BY <2>1
<1> QED BY <1>2, <1>4, <1>5, <1>6

\* A list with one more copy at its end.
LEMMA AppendIs ==
  ASSUME NEW S, NEW l \in Seq(S), NEW x \in S
  PROVE  /\ Append(l, x) \in Seq(S) /\ ToSet(Append(l, x)) = ToSet(l) \cup {x}
         /\ Distinct(l) /\ (\A y \in ToSet(l) : y.id # x.id) => Distinct(Append(l, x))
<1>1. PICK a : a = Append(l, x)
  OBVIOUS
<1>2. Len(l) \in Nat /\ DOMAIN l = 1..Len(l)
  OBVIOUS
<1>3. /\ a \in Seq(S) /\ DOMAIN a = 1..(Len(l) + 1) /\ a[Len(l) + 1] = x
      /\ \A i \in 1..Len(l) : a[i] = l[i]
  BY <1>1, <1>2
<1>4. /\ \A i \in 1..(Len(l) + 1) : i \in 1..Len(l) \/ i = Len(l) + 1
      /\ \A i \in 1..Len(l) : i \in 1..(Len(l) + 1)
      /\ Len(l) + 1 \in 1..(Len(l) + 1)
  BY <1>2
<1>5. ToSet(a) = ToSet(l) \cup {x}
  BY <1>2, <1>3, <1>4 DEF ToSet
<1>6. Distinct(l) /\ (\A y \in ToSet(l) : y.id # x.id) => Distinct(a)
  <2>1. \A i \in 1..Len(l) : l[i] \in ToSet(l)
    BY <1>2 DEF ToSet
  <2> QED BY <1>2, <1>3, <1>4, <2>1 DEF Distinct
<1> QED BY <1>1, <1>3, <1>5, <1>6

\* f is what is kept of the list up to a place.
Deleting(f, l, m) ==
  f = [i \in 0..Len(l) |->
        IF i = 0 THEN <<>>
        ELSE IF l[i].id = m THEN f[i - 1] ELSE Append(f[i - 1], l[i])]

\* There is such a function: one place after the other.
LEMMA DeletingExists ==
  ASSUME NEW S, NEW l \in Seq(S), NEW m
  PROVE  \E f : Deleting(f, l, m)
<1> DEFINE n == Len(l)
           Next1(rest, i) == IF l[i].id = m THEN rest ELSE Append(rest, l[i])
           Upto(f, k) == f = [i \in 0..k |-> IF i = 0 THEN <<>> ELSE Next1(f[i - 1], i)]
           T == {k \in 0..n : \E f : Upto(f, k)}
<1>0. n \in Nat
  OBVIOUS
<1> HIDE DEF Next1
<1>1. 0 \in T
  <2>1. Upto([i \in 0..0 |-> <<>>], 0)
    OBVIOUS
  <2> HIDE DEF Upto
  <2>2. \E f : Upto(f, 0)
    BY <2>1
  <2> QED BY <1>0, <2>2
<1>2. ASSUME NEW k \in 1..n, k - 1 \in T PROVE k \in T
  <2>1. PICK f : Upto(f, k - 1)
    BY <1>2
  <2> DEFINE g == [i \in 0..k |-> IF i = k THEN Next1(f[k - 1], k) ELSE f[i]]
  <2>2. \A i \in 0..k : g[i] = IF i = 0 THEN <<>> ELSE Next1(g[i - 1], i)
    <3> SUFFICES ASSUME NEW i \in 0..k
                 PROVE  g[i] = IF i = 0 THEN <<>> ELSE Next1(g[i - 1], i)
      OBVIOUS
    <3>0. /\ k \in Nat /\ k # 0 /\ i \in Nat
          /\ i # 0 => i - 1 \in 0..k /\ i - 1 # k
          /\ i # k => i \in 0..(k - 1)
          /\ k - 1 \in 0..k /\ k - 1 # k
      BY <1>0
    <3>1. CASE i = k
      BY <3>0, <3>1
    <3>2. CASE i # k
      <4>1. f[i] = IF i = 0 THEN <<>> ELSE Next1(f[i - 1], i)
        BY <2>1, <3>0, <3>2
      <4> QED BY <3>0, <3>2, <4>1
    <3> QED BY <3>1, <3>2
  <2>3. Upto(g, k)
    BY <2>2
  <2> HIDE DEF Upto, g
  <2>4. k \in 0..n /\ \E h : Upto(h, k)
    BY <1>0, <2>3
  <2> QED BY <2>4
<1> HIDE DEF n, Upto
<1>3. T = 0..n
  <2> HIDE DEF T
  <2>1. T \in SUBSET (0..n)
    BY DEF T
  <2> QED BY <1>0, <1>1, <1>2, <2>1, UpTo
<1>4. \E f : Upto(f, n)
  <2> HIDE DEF T
  <2>1. n \in 0..n
    BY <1>0
  <2>2. n \in T
    BY <1>3, <2>1
  <2> QED BY <2>2 DEF T
<1> QED BY <1>4 DEF Upto, Next1, Deleting, n

\* Deleting leaves the other messages.
LEMMA DeleteIs ==
  ASSUME NEW S, NEW l \in Seq(S), NEW m
  PROVE  /\ DeleteMessage(l, m) \in Seq(S)
         /\ ToSet(DeleteMessage(l, m)) = {x \in ToSet(l) : x.id # m}
         /\ Distinct(l) => Distinct(DeleteMessage(l, m))
<1> DEFINE n == Len(l)
           g == CHOOSE f : Deleting(f, l, m)
<1>0. n \in Nat /\ DOMAIN l = 1..n /\ 0 \in 0..n /\ n \in 0..n
  OBVIOUS
<1>1. Deleting(g, l, m)
  BY DeletingExists
<1>2. DeleteMessage(l, m) = g[n]
  BY DEF DeleteMessage, Deleting
<1>3. PICK f : f = g
  OBVIOUS
<1>4. /\ f[0] = <<>>
      /\ \A i \in 1..n : f[i] = IF l[i].id = m THEN f[i - 1] ELSE Append(f[i - 1], l[i])
  <2>1. Deleting(f, l, m)
    BY <1>1, <1>3
  <2>2. \A i \in 1..n : i \in 0..n /\ i # 0
    BY <1>0
  <2> QED BY <1>0, <2>1, <2>2 DEF Deleting
<1> HIDE DEF g, n
<1> DEFINE Kept(r, i) == /\ r \in Seq(S)
                         /\ ToSet(r) = {l[j] : j \in {k \in 1..i : l[k].id # m}}
                         /\ Distinct(l) => Distinct(r)
           T == {i \in 0..n : Kept(f[i], i)}
<1>5. 0 \in T
  <2>1. <<>> \in Seq(S) /\ DOMAIN <<>> = {}
    OBVIOUS
  <2>2. Kept(<<>>, 0)
    BY <2>1 DEF ToSet, Distinct
  <2> QED BY <1>0, <1>4, <2>2
<1>6. ASSUME NEW i \in 1..n, i - 1 \in T PROVE i \in T
  <2>1. Kept(f[i - 1], i - 1)
    BY <1>6
  <2>2. PICK r : r = f[i - 1]
    OBVIOUS
  <2>3. r \in Seq(S) /\ (Distinct(l) => Distinct(r))
    BY <2>1, <2>2
  <2>4. ToSet(r) = {l[j] : j \in {k \in 1..(i - 1) : l[k].id # m}}
    BY <2>1, <2>2
  <2>5. i \in 0..n /\ l[i] \in S /\ \A k \in 1..i : k = i \/ k \in 1..(i - 1)
    BY <1>0
  <2>6. \A k \in 1..(i - 1) : k \in 1..i /\ k # i /\ k \in DOMAIN l
    BY <1>0
  <2>7. CASE l[i].id = m
    <3>1. f[i] = r
      BY <1>4, <2>2, <2>7
    <3>2. {k \in 1..i : l[k].id # m} = {k \in 1..(i - 1) : l[k].id # m}
      BY <2>5, <2>6, <2>7
    <3>3. Kept(r, i)
      BY <2>3, <2>4, <3>2
    <3> QED BY <2>5, <3>1, <3>3
  <2>8. CASE l[i].id # m
    <3>1. f[i] = Append(r, l[i])
      BY <1>4, <2>2, <2>8
    <3>2. ToSet(Append(r, l[i])) = ToSet(r) \cup {l[i]} /\ Append(r, l[i]) \in Seq(S)
      BY <2>3, <2>5, AppendIs
    <3>3. {k \in 1..i : l[k].id # m} = {k \in 1..(i - 1) : l[k].id # m} \cup {i}
      BY <2>5, <2>6, <2>8
    <3>4. ToSet(Append(r, l[i])) = {l[j] : j \in {k \in 1..i : l[k].id # m}}
      BY <2>4, <3>2, <3>3
    <3>5. ASSUME Distinct(l) PROVE Distinct(Append(r, l[i]))
      <4>1. \A y \in ToSet(r) : y.id # l[i].id
        BY <1>0, <2>4, <2>5, <2>6, <3>5 DEF Distinct
      <4> QED BY <2>3, <2>5, <3>5, <4>1, AppendIs
    <3>6. Kept(Append(r, l[i]), i)
      BY <3>2, <3>4, <3>5
    <3> QED BY <2>5, <3>1, <3>6
  <2> QED BY <2>7, <2>8
<1>7. T = 0..n
  <2> HIDE DEF T
  <2>1. T \in SUBSET (0..n)
    BY DEF T
  <2> QED BY <1>0, <1>5, <1>6, <2>1, UpTo
<1>8. Kept(f[n], n)
  BY <1>0, <1>7
<1>9. ToSet(f[n]) = {x \in ToSet(l) : x.id # m}
  BY <1>0, <1>8 DEF ToSet
<1> QED BY <1>2, <1>3, <1>8, <1>9

\* Copies that agree on where each message stands, whatever its text and status.
Places(N) ==
  /\ N \subseteq Copies
  /\ \A x \in N, s \in Statuses : [x EXCEPT !.status = s] \in N
  /\ \A x, y \in N : x.at = y.at <=> x.id = y.id
  /\ \E K \in Nat : \A x \in N : x.at \in 0..K

\* Events about messages of C, with copies of N.
EventsOf(N, C) ==
  [kind : {"created", "updated"}, copy : N]
  \cup [kind : {"deleted"}, id : C]
  \cup [kind : {"moderated"}, id : C, status : Statuses]

\* What an event makes of the copies of message m that are shown.
AppliedTo(S, e, m) ==
  CASE e.kind = "created"   -> IF e.copy.id = m /\ S = {} THEN {e.copy} ELSE S
    [] e.kind = "updated"   -> IF e.copy.id = m /\ S # {} THEN {e.copy} ELSE S
    [] e.kind = "moderated" -> IF e.id = m THEN {[x EXCEPT !.status = e.status] : x \in S} ELSE S
    [] e.kind = "deleted"   -> IF e.id = m THEN {} ELSE S

\* Merging a page keeps a list a list, with what it had and what the page has.
LEMMA MergeIs ==
  ASSUME NEW N, Places(N), NEW l \in Lists(N), NEW rows \in SUBSET N,
         \A x, y \in rows : x.id = y.id => x = y
  PROVE  /\ MergePage(l, rows) \in Lists(N)
         /\ Ids(MergePage(l, rows)) = Ids(l) \cup {x.id : x \in rows}
<1> DEFINE new == {x \in rows : x.id \notin Ids(l)}
           S == ToSet(l) \cup new
<1>1. l \in Seq(N) /\ Distinct(l)
  BY DEF Lists
<1>2. ToSet(l) \subseteq N /\ Ids(l) = {x.id : x \in ToSet(l)}
  BY <1>1 DEF ToSet, Ids
<1>3. \A x, y \in ToSet(l) : x.id = y.id => x = y
  BY <1>1 DEF ToSet, Distinct
<1>4. \A x, y \in S : x.id = y.id => x = y
  BY <1>2, <1>3
<1>5. S \subseteq N
  BY <1>2
<1>6. \A x, y \in S : x.at = y.at => x = y
  BY <1>4, <1>5 DEF Places
<1>7. PICK K \in Nat : \A x \in N : x.at \in 0..K
  BY DEF Places
<1> HIDE DEF S
<1>8. PICK s : s = InOrder(S)
  OBVIOUS
<1>9. /\ s \in Seq(S) /\ ToSet(s) = S
      /\ \A i, j \in DOMAIN s : s[i] = s[j] => i = j
  BY <1>5, <1>6, <1>7, <1>8, InOrderIs
<1>10. s \in Seq(N)
  BY <1>5, <1>9, SeqMonotonic
<1>11. Distinct(s)
  BY <1>4, <1>9 DEF Distinct, ToSet
<1>12. Ids(s) = {x.id : x \in S}
  BY <1>9 DEF ToSet, Ids
<1>13. {x.id : x \in S} = Ids(l) \cup {x.id : x \in rows}
  BY <1>2 DEF S
<1>14. MergePage(l, rows) = s
  BY <1>8 DEF MergePage, S
<1> QED BY <1>10, <1>11, <1>12, <1>13, <1>14 DEF Lists

\* A message that is not there is appended, one that is there stays.
LEMMA AppendMessageIs ==
  ASSUME NEW N, NEW l \in Lists(N), NEW x \in N
  PROVE  /\ AppendMessage(l, x) \in Lists(N)
         /\ \A m : ShownOf(AppendMessage(l, x), m) =
                     IF x.id = m /\ ShownOf(l, m) = {} THEN {x} ELSE ShownOf(l, m)
<1>1. l \in Seq(N) /\ Distinct(l) /\ Ids(l) = {y.id : y \in ToSet(l)}
  BY DEF Lists, Ids, ToSet
<1>2. CASE x.id \in Ids(l)
  <2>1. AppendMessage(l, x) = l
    BY <1>2 DEF AppendMessage
  <2>2. ShownOf(l, x.id) # {}
    BY <1>1, <1>2 DEF ShownOf
  <2> QED BY <2>1, <2>2
<1>3. CASE x.id \notin Ids(l)
  <2>1. AppendMessage(l, x) = Append(l, x)
    BY <1>3 DEF AppendMessage
  <2>2. /\ Append(l, x) \in Seq(N) /\ ToSet(Append(l, x)) = ToSet(l) \cup {x}
        /\ Distinct(Append(l, x))
    BY <1>1, <1>3, AppendIs
  <2> QED BY <1>1, <1>3, <2>1, <2>2 DEF ShownOf, Lists
<1> QED BY <1>2, <1>3

\* Changing copies in their places.
LEMMA ChangedIs ==
  ASSUME NEW N, NEW l \in Lists(N), NEW m, NEW r,
         DOMAIN r = DOMAIN l, r = [i \in DOMAIN l |-> r[i]],
         \A i \in DOMAIN l : r[i] \in N /\ r[i].id = l[i].id /\ (l[i].id # m => r[i] = l[i])
  PROVE  /\ r \in Lists(N)
         /\ \A n : n # m => ShownOf(r, n) = ShownOf(l, n)
         /\ ShownOf(r, m) = {r[i] : i \in {j \in DOMAIN l : l[j].id = m}}
<1>1. l \in Seq(N) /\ Distinct(l) /\ DOMAIN l = 1..Len(l) /\ Len(l) \in Nat
  BY DEF Lists
<1>2. r \in Seq(N)
  BY <1>1, SeqDef
<1>3. Distinct(r)
  BY <1>1 DEF Distinct
<1>4. \A n : n # m => ShownOf(r, n) = ShownOf(l, n)
  BY DEF ShownOf, ToSet
<1>5. ShownOf(r, m) = {r[i] : i \in {j \in DOMAIN l : l[j].id = m}}
  BY DEF ShownOf, ToSet
<1> QED BY <1>2, <1>3, <1>4, <1>5 DEF Lists

\* The copy of the message that is there is replaced.
LEMMA UpdateIs ==
  ASSUME NEW N, NEW l \in Lists(N), NEW x \in N
  PROVE  /\ UpdateMessage(l, x) \in Lists(N)
         /\ \A m : ShownOf(UpdateMessage(l, x), m) =
                     IF x.id = m /\ ShownOf(l, m) # {} THEN {x} ELSE ShownOf(l, m)
<1>1. \A i \in DOMAIN l : l[i] \in N
  BY DEF Lists
<1>2. PICK r : r = UpdateMessage(l, x)
  OBVIOUS
<1>3. r = [i \in DOMAIN l |-> IF l[i].id = x.id THEN x ELSE l[i]]
  BY <1>2 DEF UpdateMessage
<1>4. /\ DOMAIN r = DOMAIN l /\ r = [i \in DOMAIN l |-> r[i]]
      /\ \A i \in DOMAIN l : r[i] \in N /\ r[i].id = l[i].id /\ (l[i].id # x.id => r[i] = l[i])
  BY <1>1, <1>3
<1>0. PICK id : id = x.id
  OBVIOUS
<1>5. /\ r \in Lists(N)
      /\ \A n : n # id => ShownOf(r, n) = ShownOf(l, n)
      /\ ShownOf(r, id) = {r[i] : i \in {j \in DOMAIN l : l[j].id = id}}
  <2>1. \A i \in DOMAIN l : r[i] \in N /\ r[i].id = l[i].id /\ (l[i].id # id => r[i] = l[i])
    BY <1>0, <1>4
  <2>2. DOMAIN r = DOMAIN l /\ r = [i \in DOMAIN l |-> r[i]]
    BY <1>4
  <2> QED BY <2>1, <2>2, ChangedIs
<1>6. ShownOf(r, x.id) = IF ShownOf(l, x.id) # {} THEN {x} ELSE {}
  <2>1. \A i \in DOMAIN l : l[i].id = x.id => r[i] = x
    BY <1>3
  <2>2. ShownOf(l, x.id) = {l[i] : i \in {j \in DOMAIN l : l[j].id = x.id}}
    BY DEF ShownOf, ToSet
  <2> QED BY <1>0, <1>5, <2>1, <2>2
<1> QED BY <1>0, <1>2, <1>5, <1>6

\* The status of the copies of the message is replaced.
LEMMA StatusIs ==
  ASSUME NEW N, Places(N), NEW l \in Lists(N), NEW m, NEW s \in Statuses
  PROVE  /\ UpdateMessageStatus(l, m, s) \in Lists(N)
         /\ \A n : ShownOf(UpdateMessageStatus(l, m, s), n) =
                     IF n = m THEN {[x EXCEPT !.status = s] : x \in ShownOf(l, n)} ELSE ShownOf(l, n)
<1>1. \A i \in DOMAIN l : /\ l[i] \in N /\ [l[i] EXCEPT !.status = s] \in N
                          /\ [l[i] EXCEPT !.status = s].id = l[i].id
  <2>1. \A i \in DOMAIN l : l[i] \in N
    BY DEF Lists
  <2>2. \A x \in N : [x EXCEPT !.status = s] \in N /\ [x EXCEPT !.status = s].id = x.id
    BY DEF Places, Copies
  <2> QED BY <2>1, <2>2
<1>2. PICK r : r = UpdateMessageStatus(l, m, s)
  OBVIOUS
<1>3. r = [i \in DOMAIN l |-> IF l[i].id = m THEN [l[i] EXCEPT !.status = s] ELSE l[i]]
  BY <1>2 DEF UpdateMessageStatus
<1>4. /\ DOMAIN r = DOMAIN l /\ r = [i \in DOMAIN l |-> r[i]]
      /\ \A i \in DOMAIN l : r[i] \in N /\ r[i].id = l[i].id /\ (l[i].id # m => r[i] = l[i])
  BY <1>1, <1>3
<1>5. /\ r \in Lists(N)
      /\ \A n : n # m => ShownOf(r, n) = ShownOf(l, n)
      /\ ShownOf(r, m) = {r[i] : i \in {j \in DOMAIN l : l[j].id = m}}
  BY <1>4, ChangedIs
<1>6. ShownOf(r, m) = {[x EXCEPT !.status = s] : x \in ShownOf(l, m)}
  <2>1. \A i \in DOMAIN l : l[i].id = m => r[i] = [l[i] EXCEPT !.status = s]
    BY <1>3
  <2>2. ShownOf(l, m) = {l[i] : i \in {j \in DOMAIN l : l[j].id = m}}
    BY DEF ShownOf, ToSet
  <2>3. {r[i] : i \in {j \in DOMAIN l : l[j].id = m}} =
          {[l[i] EXCEPT !.status = s] : i \in {j \in DOMAIN l : l[j].id = m}}
    BY <2>1
  <2>4. {[x EXCEPT !.status = s] : x \in {l[i] : i \in {j \in DOMAIN l : l[j].id = m}}} =
          {[l[i] EXCEPT !.status = s] : i \in {j \in DOMAIN l : l[j].id = m}}
    OBVIOUS
  <2> QED BY <1>5, <2>2, <2>3, <2>4
<1> QED BY <1>2, <1>5, <1>6

\* Applying an event keeps a list a list, and does to each message what it should.
LEMMA ApplyIs ==
  ASSUME NEW N, Places(N), NEW C, NEW l \in Lists(N), NEW e \in EventsOf(N, C)
  PROVE  /\ Apply(l, e) \in Lists(N)
         /\ \A m : ShownOf(Apply(l, e), m) = AppliedTo(ShownOf(l, m), e, m)
<1>1. CASE e \in [kind : {"created"}, copy : N]
  <2>1. Apply(l, e) = AppendMessage(l, e.copy) /\ e.copy \in N
    BY <1>1 DEF Apply
  <2>2. \A m : AppliedTo(ShownOf(l, m), e, m) =
          IF e.copy.id = m /\ ShownOf(l, m) = {} THEN {e.copy} ELSE ShownOf(l, m)
    BY <1>1 DEF AppliedTo
  <2>3. PICK x \in N : x = e.copy
    BY <2>1
  <2>4. AppendMessage(l, x) \in Lists(N)
    BY AppendMessageIs
  <2>5. \A m : ShownOf(AppendMessage(l, x), m) =
          IF x.id = m /\ ShownOf(l, m) = {} THEN {x} ELSE ShownOf(l, m)
    BY AppendMessageIs
  <2> QED BY <2>1, <2>2, <2>3, <2>4, <2>5
<1>2. CASE e \in [kind : {"updated"}, copy : N]
  <2>1. Apply(l, e) = UpdateMessage(l, e.copy) /\ e.copy \in N
    BY <1>2 DEF Apply
  <2>2. \A m : AppliedTo(ShownOf(l, m), e, m) =
          IF e.copy.id = m /\ ShownOf(l, m) # {} THEN {e.copy} ELSE ShownOf(l, m)
    BY <1>2 DEF AppliedTo
  <2>3. PICK x \in N : x = e.copy
    BY <2>1
  <2>4. UpdateMessage(l, x) \in Lists(N)
    BY UpdateIs
  <2>5. \A m : ShownOf(UpdateMessage(l, x), m) =
          IF x.id = m /\ ShownOf(l, m) # {} THEN {x} ELSE ShownOf(l, m)
    BY UpdateIs
  <2> QED BY <2>1, <2>2, <2>3, <2>4, <2>5
<1>3. CASE e \in [kind : {"deleted"}, id : C]
  <2>1. Apply(l, e) = DeleteMessage(l, e.id)
    BY <1>3 DEF Apply
  <2>2. \A m : AppliedTo(ShownOf(l, m), e, m) = IF e.id = m THEN {} ELSE ShownOf(l, m)
    BY <1>3 DEF AppliedTo
  <2>3. /\ DeleteMessage(l, e.id) \in Lists(N)
        /\ ToSet(DeleteMessage(l, e.id)) = {x \in ToSet(l) : x.id # e.id}
    BY DeleteIs DEF Lists
  <2> QED BY <2>1, <2>2, <2>3 DEF ShownOf
<1>4. CASE e \in [kind : {"moderated"}, id : C, status : Statuses]
  <2>1. Apply(l, e) = UpdateMessageStatus(l, e.id, e.status) /\ e.status \in Statuses
    BY <1>4 DEF Apply
  <2>2. PICK s \in Statuses : s = e.status
    BY <2>1
  <2>3. PICK n : n = e.id
    OBVIOUS
  <2>4. \A m : AppliedTo(ShownOf(l, m), e, m) =
          IF m = n THEN {[x EXCEPT !.status = s] : x \in ShownOf(l, m)} ELSE ShownOf(l, m)
    BY <1>4, <2>2, <2>3 DEF AppliedTo
  <2>5. UpdateMessageStatus(l, n, s) \in Lists(N)
    BY StatusIs
  <2>6. \A m : ShownOf(UpdateMessageStatus(l, n, s), m) =
          IF m = n THEN {[x EXCEPT !.status = s] : x \in ShownOf(l, m)} ELSE ShownOf(l, m)
    BY StatusIs
  <2> QED BY <2>1, <2>2, <2>3, <2>4, <2>5, <2>6
<1> QED BY <1>1, <1>2, <1>3, <1>4 DEF EventsOf

(***************************************************************************)
(* The inductive invariant.                                                *)
(***************************************************************************)

\* Copies of the rows there are, with any text and status.
Known ==
  {x \in Copies : x.id \in Created /\ x.at = table[x.id].at}

\* A row has its own place, among as many as there are rows.
RowsFit ==
  /\ table \in [Messages -> Rows \cup {Absent}]
  /\ IsFiniteSet(Created)
  /\ \A m \in Created : table[m].id = m /\ table[m].at \in 1..Cardinality(Created)
  /\ \A m, n \in Created : table[m].at = table[n].at => m = n

About(e) == IF e.kind \in {"created", "updated"} THEN e.copy.id ELSE e.id

\* What an operation may be at, when there are rows for C.
CallsOf(N, C) ==
  {Idle}
  \cup [at : {"insert"}, op : {"send"}, id : Messages \ C]
  \cup [at : {"find", "write"}, op : Operations, id : C]
  \cup {b \in [at : {"broadcast"}, op : Operations \cup {"send"}, id : C,
               event : EventsOf(N, C)] : About(b.event) = b.id}

TrueDeletion(e) == e.kind = "deleted" => table[e.id].gone

\* Two operations on one message are neither in progress before its row is
\* there, nor without its being recorded.
Apart ==
  \A j, k \in Calls :
    (/\ call[j] # Idle /\ call[k] # Idle /\ call[j].id = call[k].id
     /\ call[k].id \in Created => call[k].id \notin overlapped) => j = k

CallsFit ==
  /\ call = [k \in Calls |-> call[k]]
  /\ \A k \in Calls : call[k] \in CallsOf(Known, Created)
  /\ \A k \in Calls : At(k, "broadcast") => TrueDeletion(call[k].event)
  /\ Apart

TabForms ==
  /\ link = [c \in Clients |-> link[c]] /\ view = [c \in Clients |-> view[c]]
  /\ wire = [c \in Clients |-> wire[c]] /\ page = [c \in Clients |-> page[c]]
  /\ list = [c \in Clients |-> list[c]] /\ live = [c \in Clients |-> live[c]]
  /\ covered \subseteq Clients /\ cleared \subseteq Clients /\ overlapped \subseteq Messages

\* A client has copies and events of rows there are.
Holds(c, N, C) ==
  /\ link[c] \in {"out", "leaving", "joining", "in"}
  /\ view[c] \in {"closed", "loading", "read", "merged"}
  /\ wire[c] \in Seq(EventsOf(N, C))
  /\ page[c] \subseteq N /\ \A x, y \in page[c] : x.id = y.id => x = y
  /\ list[c] \in Lists(N)
  /\ live[c] \subseteq C

\* What the client gets from here on depends on the room and the page.
Following(c) ==
  /\ c \in covered => link[c] = "in" /\ view[c] \in {"read", "merged"}
  /\ live[c] # {} => link[c] = "in" /\ view[c] = "merged"

Brings(e, m) == e.kind = "created" /\ e.copy.id = m

\* The page would show it to c now, and would have ever since it was created.
Due(c, m) == Listed(c, table[m]) /\ (c \in Moderators \/ "approve" \notin Operations)

OnItsWay(c, m) ==
  \/ ShownOf(list[c], m) # {}
  \/ view[c] = "read" /\ \E x \in page[c] : x.id = m
  \/ \E i \in DOMAIN wire[c] : Brings(wire[c][i], m)
  \/ \E k \in Calls : At(k, "broadcast") /\ Brings(call[k].event, m)

NoneLost(c) == c \in covered \ cleared => \A m \in Created : Due(c, m) => OnItsWay(c, m)

\* From S the events of w lead to R.
Reaches(S, w, R, m) ==
  \E f : /\ f[0] = S /\ f[Len(w)] = R
         /\ \A i \in 1..Len(w) : f[i] = AppliedTo(f[i - 1], w[i], m)

TruthOf(row) == IF row.gone THEN {} ELSE {CopyOf(row)}
Truth(m) == TruthOf(table[m])
Sending(k, m) == At(k, "broadcast") /\ call[k].id = m

\* R is what the database has of m, but for a broadcast that is still to come.
Current(R, m) ==
  /\ \A k \in Calls : Sending(k, m) => AppliedTo(R, call[k].event, m) = Truth(m)
  /\ (\A k \in Calls : ~Sending(k, m)) => R = Truth(m)

Exact(c) ==
  \A m \in live[c] \ overlapped :
    \E R : Reaches(ShownOf(list[c], m), wire[c], R, m) /\ Current(R, m)

TabFits(c) ==
  /\ Holds(c, Known, Created)
  /\ \A i \in DOMAIN wire[c] : TrueDeletion(wire[c][i])
  /\ Following(c)
  /\ NoneLost(c)
  /\ Exact(c)

Inv == RowsFit /\ CallsFit /\ TabForms /\ \A c \in Clients : TabFits(c)

\* The copies of the rows have places as they should.
LEMMA KnownIs ==
  ASSUME RowsFit
  PROVE  /\ Places(Known) /\ Created \subseteq Messages /\ \A x \in Known : x.id \in Created
         /\ \A m \in Created : CopyOf(table[m]) \in Known /\ CopyOf(table[m]).id = m
<1>1. Created \subseteq Messages /\ \A m \in Created : table[m] \in Rows
  BY DEF RowsFit, Created
<1>2. Known \subseteq Copies /\ \A x \in Known : x.id \in Created /\ x.at = table[x.id].at
  BY DEF Known
<1>3. \A x \in Known, s \in Statuses : [x EXCEPT !.status = s] \in Known
  BY DEF Known, Copies
<1>4. \A x, y \in Known : x.at = y.at <=> x.id = y.id
  BY <1>2 DEF RowsFit
<1>5. \E K \in Nat : \A x \in Known : x.at \in 0..K
  <2>1. Cardinality(Created) \in Nat
    BY FS_CardinalityType DEF RowsFit
  <2>2. \A x \in Known : x.at \in 0..Cardinality(Created)
    BY <1>2, <2>1 DEF RowsFit
  <2> QED BY <2>1, <2>2
<1>6. \A m \in Created : CopyOf(table[m]) \in Known /\ CopyOf(table[m]).id = m
  BY <1>1 DEF CopyOf, Known, Copies, Rows, RowsFit
<1> QED BY <1>1, <1>2, <1>3, <1>4, <1>5, <1>6 DEF Places

\* More rows do not make an event or a list wrong.
LEMMA MoreRows ==
  ASSUME NEW N, NEW C, NEW M, NEW D, N \subseteq M, C \subseteq D
  PROVE  /\ EventsOf(N, C) \subseteq EventsOf(M, D) /\ Lists(N) \subseteq Lists(M)
         /\ Seq(EventsOf(N, C)) \subseteq Seq(EventsOf(M, D))
<1>1. EventsOf(N, C) \subseteq EventsOf(M, D)
  BY DEF EventsOf
<1>2. Seq(EventsOf(N, C)) \subseteq Seq(EventsOf(M, D)) /\ Seq(N) \subseteq Seq(M)
  BY <1>1, SeqMonotonic
<1> QED BY <1>1, <1>2 DEF Lists

\* Nothing on its way leads nowhere else.
LEMMA ReachesHere ==
  ASSUME NEW S, NEW R, NEW m, Reaches(S, <<>>, R, m)
  PROVE  R = S
BY DEF Reaches

\* Events that change nothing lead nowhere else.
LEMMA ReachesSame ==
  ASSUME NEW E, NEW w \in Seq(E), NEW S, NEW m,
         \A i \in DOMAIN w : AppliedTo(S, w[i], m) = S
  PROVE  Reaches(S, w, S, m)
<1> DEFINE f == [i \in 0..Len(w) |-> S]
<1>1. Len(w) \in Nat /\ DOMAIN w = 1..Len(w)
  OBVIOUS
<1>2. 0 \in 0..Len(w) /\ Len(w) \in 0..Len(w) /\ \A i \in 1..Len(w) : i \in 0..Len(w) /\ i - 1 \in 0..Len(w)
  BY <1>1
<1>3. f[0] = S /\ f[Len(w)] = S /\ \A i \in 1..Len(w) : f[i] = S /\ f[i - 1] = S
  BY <1>2
<1> HIDE DEF f
<1>4. \A i \in 1..Len(w) : f[i] = AppliedTo(f[i - 1], w[i], m)
  BY <1>1, <1>3
<1> QED BY <1>3, <1>4 DEF Reaches

\* An event that is handled is no longer on its way.
LEMMA ReachesNext ==
  ASSUME NEW E, NEW w \in Seq(E), w # <<>>, NEW S, NEW R, NEW m, Reaches(S, w, R, m)
  PROVE  Reaches(AppliedTo(S, Head(w), m), Tail(w), R, m)
<1>1. PICK f : /\ f[0] = S /\ f[Len(w)] = R
               /\ \A i \in 1..Len(w) : f[i] = AppliedTo(f[i - 1], w[i], m)
  BY DEF Reaches
<1>2. /\ Len(w) \in Nat /\ Len(w) # 0 /\ Len(Tail(w)) = Len(w) - 1 /\ Head(w) = w[1]
      /\ \A i \in 1..(Len(w) - 1) : Tail(w)[i] = w[i + 1]
  OBVIOUS
<1> DEFINE g == [i \in 0..(Len(w) - 1) |-> f[i + 1]]
<1>3. /\ 0 \in 0..(Len(w) - 1) /\ Len(w) - 1 \in 0..(Len(w) - 1)
      /\ (Len(w) - 1) + 1 = Len(w) /\ 1 \in 1..Len(w) /\ 1 - 1 = 0
      /\ \A i \in 1..(Len(w) - 1) : /\ i \in 0..(Len(w) - 1) /\ i - 1 \in 0..(Len(w) - 1)
                                   /\ i + 1 \in 1..Len(w) /\ (i + 1) - 1 = i /\ (i - 1) + 1 = i
  BY <1>2
<1>4. f[1] = AppliedTo(S, Head(w), m)
  BY <1>1, <1>2, <1>3
<1>5. g[0] = f[1] /\ g[Len(w) - 1] = R
  BY <1>1, <1>3
<1>6. \A i \in 1..(Len(w) - 1) : g[i] = f[i + 1] /\ g[i - 1] = f[i]
  BY <1>3
<1> HIDE DEF g
<1>7. \A i \in 1..(Len(w) - 1) : g[i] = AppliedTo(g[i - 1], Tail(w)[i], m)
  BY <1>1, <1>2, <1>3, <1>6
<1>8. Len(Tail(w)) = Len(w) - 1
  BY <1>2
<1> QED BY <1>4, <1>5, <1>7, <1>8 DEF Reaches

\* An event that is sent comes after those on their way.
LEMMA ReachesLast ==
  ASSUME NEW E, NEW w \in Seq(E), NEW e \in E, NEW S, NEW R, NEW m, Reaches(S, w, R, m)
  PROVE  Reaches(S, Append(w, e), AppliedTo(R, e, m), m)
<1>1. PICK f : /\ f[0] = S /\ f[Len(w)] = R
               /\ \A i \in 1..Len(w) : f[i] = AppliedTo(f[i - 1], w[i], m)
  BY DEF Reaches
<1>2. PICK n : n = Len(w)
  OBVIOUS
<1>3. PICK v : v = Append(w, e)
  OBVIOUS
<1>4. /\ n \in Nat /\ Len(v) = n + 1 /\ v[n + 1] = e
      /\ \A i \in 1..n : v[i] = w[i]
  BY <1>2, <1>3
<1>5. PICK Q : Q = AppliedTo(R, e, m)
  OBVIOUS
<1> DEFINE g == [i \in 0..(n + 1) |-> IF i = n + 1 THEN Q ELSE f[i]]
<1>6. /\ 0 \in 0..(n + 1) /\ n + 1 \in 0..(n + 1) /\ 0 # n + 1
      /\ \A i \in 1..(n + 1) : /\ i \in 0..(n + 1) /\ i - 1 \in 0..(n + 1) /\ i - 1 # n + 1
                              /\ i # n + 1 => i \in 1..n
      /\ (n + 1) - 1 = n
  BY <1>4
<1>7. g[0] = S /\ g[n + 1] = Q
  BY <1>1, <1>6
<1>8. \A i \in 1..(n + 1) : g[i - 1] = f[i - 1] /\ (i # n + 1 => g[i] = f[i])
  BY <1>6
<1> HIDE DEF g
<1>9. ASSUME NEW i \in 1..(n + 1) PROVE g[i] = AppliedTo(g[i - 1], v[i], m)
  <2>1. CASE i = n + 1
    BY <1>1, <1>2, <1>4, <1>5, <1>6, <1>7, <1>8, <2>1
  <2>2. CASE i # n + 1
    BY <1>1, <1>2, <1>4, <1>6, <1>8, <2>2
  <2> QED BY <2>1, <2>2
<1>10. Reaches(S, v, Q, m)
  BY <1>4, <1>7, <1>9 DEF Reaches
<1> QED BY <1>3, <1>5, <1>10

(***************************************************************************)
(* The steps keep the invariant.                                           *)
(***************************************************************************)

\* Nothing is anywhere yet.
LEMMA Initially == Init => Inv
<1> SUFFICES ASSUME Init PROVE Inv
  OBVIOUS
<1>1. Created = {}
  BY DEF Init, Created
<1>2. RowsFit
  BY <1>1, FS_EmptySet DEF Init, RowsFit
<1>3. CallsFit
  BY DEF Init, CallsFit, CallsOf, At, Idle, Apart
<1>4. TabForms
  BY DEF Init, TabForms
<1>5. ASSUME NEW c \in Clients PROVE TabFits(c)
  <2>1. Holds(c, Known, Created)
    <3>1. \A N : <<>> \in Seq(N) /\ DOMAIN <<>> = {}
      OBVIOUS
    <3>2. <<>> \in Lists(Known)
      BY <3>1 DEF Lists, Distinct
    <3> QED BY <3>1, <3>2 DEF Init, Holds
  <2>2. \A i \in DOMAIN wire[c] : TrueDeletion(wire[c][i])
    BY DEF Init
  <2>3. Following(c) /\ NoneLost(c) /\ Exact(c)
    BY DEF Init, Following, NoneLost, Exact
  <2> QED BY <2>1, <2>2, <2>3 DEF TabFits
<1> QED BY <1>2, <1>3, <1>4, <1>5 DEF Inv

\* What is current stays so while rows and operations do.
LEMMA CurrentSame ==
  ASSUME UNCHANGED <<table, call>>, NEW R, NEW m, Current(R, m)
  PROVE  Current(R, m)'
BY DEF Current, Sending, Truth, TruthOf, At, CopyOf

\* A step that changes nothing of c.
LEMMA TabSame ==
  ASSUME NEW c \in Clients, TabFits(c), UNCHANGED <<table, call, overlapped>>,
         link'[c] = link[c], view'[c] = view[c], wire'[c] = wire[c], page'[c] = page[c],
         list'[c] = list[c], live'[c] = live[c],
         c \in covered' <=> c \in covered, c \in cleared' <=> c \in cleared
  PROVE  TabFits(c)'
<1>1. Created' = Created /\ Known' = Known
  BY DEF Created, Known
<1>2. Holds(c, Known, Created)'
  BY <1>1 DEF TabFits, Holds
<1>3. (\A i \in DOMAIN wire[c] : TrueDeletion(wire[c][i]))'
  BY DEF TabFits, TrueDeletion
<1>4. Following(c)'
  BY DEF TabFits, Following
<1>5. NoneLost(c)'
  BY <1>1 DEF TabFits, NoneLost, Due, OnItsWay, Listed, At
<1>6. Exact(c)'
  <2> SUFFICES ASSUME NEW m \in live[c] \ overlapped
               PROVE  \E R : Reaches(ShownOf(list'[c], m), wire'[c], R, m) /\ Current(R, m)'
    BY DEF Exact
  <2>1. PICK R : Reaches(ShownOf(list[c], m), wire[c], R, m) /\ Current(R, m)
    BY DEF TabFits, Exact
  <2>2. Current(R, m)'
    BY <2>1, CurrentSame
  <2> QED BY <2>1, <2>2
<1> QED BY <1>2, <1>3, <1>4, <1>5, <1>6 DEF TabFits

\* A step of one client.
LEMMA OneTab ==
  ASSUME Inv, NEW c \in Clients, UNCHANGED <<table, call, overlapped>>,
         TabForms', TabFits(c)',
         \A d \in Clients \ {c} :
           /\ link'[d] = link[d] /\ view'[d] = view[d] /\ wire'[d] = wire[d]
           /\ page'[d] = page[d] /\ list'[d] = list[d] /\ live'[d] = live[d]
           /\ (d \in covered' <=> d \in covered) /\ (d \in cleared' <=> d \in cleared)
  PROVE  Inv'
<1>1. Created' = Created /\ Known' = Known
  BY DEF Created, Known
<1>2. RowsFit'
  BY <1>1 DEF Inv, RowsFit
<1>3. CallsFit'
  BY <1>1 DEF Inv, CallsFit, At, TrueDeletion, Apart
<1>4. ASSUME NEW d \in Clients PROVE TabFits(d)'
  <2>1. CASE d = c
    BY <2>1
  <2>2. CASE d # c
    BY <2>2, TabSame DEF Inv
  <2> QED BY <2>1, <2>2
<1> QED BY <1>2, <1>3, <1>4 DEF Inv

\* A client that is not owed anything.
LEMMA Unowed ==
  ASSUME Inv, NEW c \in Clients, UNCHANGED <<table, overlapped>>,
         link'[c] \in {"out", "leaving", "joining", "in"},
         view'[c] \in {"closed", "loading", "read", "merged"},
         wire'[c] = wire[c] \/ wire'[c] = <<>>,
         page'[c] = {} \/ page'[c] = page[c],
         list'[c] = <<>> \/ list'[c] = list[c],
         live'[c] = {},
         c \in covered' => link'[c] = "in" /\ view'[c] \in {"read", "merged"},
         c \notin covered' \/ c \in cleared'
  PROVE  TabFits(c)'
<1>1. Created' = Created /\ Known' = Known
  BY DEF Created, Known
<1>2. TabFits(c)
  BY DEF Inv
<1>3. <<>> \in Seq(EventsOf(Known, Created)) /\ DOMAIN <<>> = {}
  OBVIOUS
<1>4. <<>> \in Lists(Known)
  <2>1. <<>> \in Seq(Known) /\ DOMAIN <<>> = {}
    OBVIOUS
  <2> QED BY <2>1 DEF Lists, Distinct
<1>5. Holds(c, Known, Created)'
  BY <1>1, <1>2, <1>3, <1>4 DEF TabFits, Holds
<1>6. (\A i \in DOMAIN wire[c] : TrueDeletion(wire[c][i]))'
  BY <1>2, <1>3 DEF TabFits, TrueDeletion
<1>7. Following(c)' /\ NoneLost(c)' /\ Exact(c)'
  BY DEF Following, NoneLost, Exact
<1> QED BY <1>5, <1>6, <1>7 DEF TabFits

\* A client that opens a workspace starts anew.
LEMMA WorkspaceOpenedKeeps ==
  ASSUME Inv, NEW c \in Clients, WorkspaceOpened(c) PROVE Inv'
<1>1. TabForms'
  BY DEF Inv, WorkspaceOpened, ListReset, TabForms
<1>2. TabFits(c)'
  BY Unowed DEF Inv, WorkspaceOpened, ListReset, TabForms
<1> QED BY <1>1, <1>2, OneTab DEF Inv, WorkspaceOpened, ListReset, TabForms

\* So does one that leaves a channel or shows one.
LEMMA ChannelLeftKeeps ==
  ASSUME Inv, NEW c \in Clients, ChannelLeft(c) \/ ChannelShown(c) PROVE Inv'
<1>1. TabForms'
  BY DEF Inv, ChannelLeft, ChannelShown, ListReset, TabForms
<1>2. TabFits(c)'
  <2>1. /\ link'[c] \in {"out", "leaving", "joining", "in"}
        /\ view'[c] \in {"closed", "loading", "read", "merged"}
    BY DEF Inv, TabFits, Holds, ChannelLeft, ChannelShown, ListReset, TabForms
  <2>2. /\ wire'[c] = wire[c] /\ page'[c] = {} /\ list'[c] = <<>> /\ live'[c] = {}
        /\ c \notin covered'
    BY DEF Inv, ChannelLeft, ChannelShown, ListReset, TabForms
  <2> QED BY <2>1, <2>2, Unowed DEF ChannelLeft, ChannelShown
<1>3. \A d \in Clients \ {c} :
           /\ link'[d] = link[d] /\ view'[d] = view[d] /\ wire'[d] = wire[d]
           /\ page'[d] = page[d] /\ list'[d] = list[d] /\ live'[d] = live[d]
           /\ (d \in covered' <=> d \in covered) /\ (d \in cleared' <=> d \in cleared)
  BY DEF Inv, ChannelLeft, ChannelShown, ListReset, TabForms
<1> QED BY <1>1, <1>2, <1>3, OneTab DEF ChannelLeft, ChannelShown

\* A list that was emptied is owed nothing.
LEMMA ChannelSelectedAgainKeeps ==
  ASSUME Inv, NEW c \in Clients, ChannelSelectedAgain(c) PROVE Inv'
<1>1. TabForms'
  BY DEF Inv, ChannelSelectedAgain, TabForms
<1>2. TabFits(c)'
  <2>1. TabFits(c)
    BY DEF Inv
  <2>2. /\ wire'[c] = wire[c] /\ page'[c] = page[c] /\ list'[c] = <<>> /\ live'[c] = {}
        /\ link'[c] = link[c] /\ view'[c] = view[c] /\ covered' = covered /\ c \in cleared'
    BY DEF Inv, ChannelSelectedAgain, TabForms
  <2> QED BY <2>1, <2>2, Unowed DEF ChannelSelectedAgain, TabFits, Holds, Following
<1> QED BY <1>1, <1>2, OneTab DEF Inv, ChannelSelectedAgain, TabForms

\* Nor is one that is left as it was for the next channel.
LEMMA ChannelCreatedKeeps ==
  ASSUME Inv, NEW c \in Clients, ChannelCreated(c) PROVE Inv'
<1>1. TabForms'
  BY DEF Inv, ChannelCreated, TabForms
<1>2. TabFits(c)'
  <2>1. TabFits(c)
    BY DEF Inv
  <2>2. /\ wire'[c] = wire[c] /\ page'[c] = {} /\ list'[c] = list[c] /\ live'[c] = {}
        /\ link'[c] = link[c] /\ view'[c] = "closed" /\ c \notin covered'
    BY DEF Inv, ChannelCreated, TabForms
  <2> QED BY <2>1, <2>2, Unowed DEF ChannelCreated, TabFits, Holds
<1> QED BY <1>1, <1>2, OneTab DEF Inv, ChannelCreated, TabForms

\* Nor is a client without a connection.
LEMMA ConnectionLostKeeps ==
  ASSUME Inv, NEW c \in Clients, ConnectionLost(c) PROVE Inv'
<1>1. TabForms'
  BY DEF Inv, ConnectionLost, TabForms
<1>2. TabFits(c)'
  <2>1. TabFits(c)
    BY DEF Inv
  <2>2. /\ wire'[c] = <<>> /\ page'[c] = page[c] /\ list'[c] = list[c] /\ live'[c] = {}
        /\ link'[c] = "out" /\ view'[c] = view[c] /\ c \notin covered'
    BY DEF Inv, ConnectionLost, TabForms
  <2> QED BY <2>1, <2>2, Unowed DEF ConnectionLost, TabFits, Holds
<1> QED BY <1>1, <1>2, OneTab DEF Inv, ConnectionLost, TabForms

\* Nor is one on its way into the room or out of it.
LEMMA RoomLeftKeeps ==
  ASSUME Inv, NEW c \in Clients, RoomLeft(c) \/ RoomJoined(c) PROVE Inv'
<1>1. TabForms'
  BY DEF Inv, RoomLeft, RoomJoined, TabForms
<1>2. TabFits(c)'
  <2>1. Holds(c, Known, Created) /\ Following(c)
    BY DEF Inv, TabFits
  <2>2. /\ link[c] \in {"leaving", "joining"} /\ link'[c] \in {"joining", "in"} /\ view' = view
        /\ wire' = wire /\ page' = page /\ list' = list /\ live' = live /\ covered' = covered
    BY DEF Inv, RoomLeft, RoomJoined, TabForms
  <2>3. live[c] = {} /\ c \notin covered
    BY <2>1, <2>2 DEF Following
  <2> QED BY <2>1, <2>2, <2>3, Unowed DEF RoomLeft, RoomJoined, Holds
<1> QED BY <1>1, <1>2, OneTab DEF Inv, RoomLeft, RoomJoined, TabForms

\* What the page is owed, it shows.
LEMMA PageReadKeeps ==
  ASSUME Inv, NEW c \in Clients, PageRead(c) PROVE Inv'
<1>1. TabForms'
  BY DEF Inv, PageRead, TabForms
<1>2. TabFits(c)'
  <2> DEFINE rows == {CopyOf(table[m]) : m \in {n \in Created : Listed(c, table[n])}}
  <2>1. TabFits(c) /\ RowsFit
    BY DEF Inv
  <2>2. /\ link'[c] = link[c] /\ wire'[c] = wire[c] /\ list'[c] = list[c] /\ live'[c] = live[c]
        /\ view[c] = "loading" /\ view'[c] = "read" /\ page'[c] = rows
        /\ c \in covered' => c \in covered \/ link[c] = "in"
    BY DEF Inv, PageRead, TabForms
  <2>3. Created' = Created /\ Known' = Known
    BY DEF PageRead, Created, Known
  <2>4. \A m \in Created : CopyOf(table[m]) \in Known /\ CopyOf(table[m]).id = m
    BY <2>1, KnownIs
  <2>5. rows \subseteq Known /\ \A x, y \in rows : x.id = y.id => x = y
    BY <2>4
  <2>6. \A m \in Created : Listed(c, table[m]) => \E x \in rows : x.id = m
    BY <2>4
  <2> HIDE DEF rows
  <2>7. live[c] = {} /\ c \notin covered
    BY <2>1, <2>2 DEF TabFits, Following
  <2>8. Holds(c, Known, Created)'
    BY <2>1, <2>2, <2>3, <2>5 DEF TabFits, Holds
  <2>9. (\A i \in DOMAIN wire[c] : TrueDeletion(wire[c][i]))'
    BY <2>1, <2>2 DEF PageRead, TabFits, TrueDeletion
  <2>10. Following(c)' /\ Exact(c)'
    BY <2>2, <2>7 DEF Following, Exact
  <2>11. NoneLost(c)'
    BY <2>2, <2>3, <2>6 DEF PageRead, NoneLost, Due, OnItsWay, Listed
  <2> QED BY <2>8, <2>9, <2>10, <2>11 DEF TabFits
<1> QED BY <1>1, <1>2, OneTab DEF Inv, PageRead, TabForms

\* What the page brought is in the list.
LEMMA PageMergedKeeps ==
  ASSUME Inv, NEW c \in Clients, PageMerged(c) PROVE Inv'
<1>1. TabForms'
  BY DEF Inv, PageMerged, TabForms
<1>2. TabFits(c)'
  <2>1. TabFits(c) /\ RowsFit
    BY DEF Inv
  <2>2. /\ link'[c] = link[c] /\ wire'[c] = wire[c] /\ live'[c] = live[c]
        /\ list'[c] = MergePage(list[c], page[c]) /\ page'[c] = {}
        /\ view[c] = "read" /\ view'[c] = "merged" /\ covered' = covered
    BY DEF Inv, PageMerged, TabForms
  <2>3. Created' = Created /\ Known' = Known
    BY DEF PageMerged, Created, Known
  <2>4. Holds(c, Known, Created)
    BY <2>1 DEF TabFits
  <2>5. /\ MergePage(list[c], page[c]) \in Lists(Known)
        /\ Ids(MergePage(list[c], page[c])) = Ids(list[c]) \cup {x.id : x \in page[c]}
    <3>1. PICK N : N = Known
      OBVIOUS
    <3>2. Places(N) /\ list[c] \in Lists(N) /\ page[c] \in SUBSET N
          /\ \A x, y \in page[c] : x.id = y.id => x = y
      BY <2>1, <2>4, <3>1, KnownIs DEF Holds
    <3> QED BY <3>1, <3>2, MergeIs
  <2>6. PICK l : l = list[c]
    OBVIOUS
  <2>7. PICK r : r = MergePage(list[c], page[c])
    OBVIOUS
  <2>8. \A m : /\ ShownOf(l, m) # {} => m \in Ids(l)
               /\ m \in Ids(r) => ShownOf(r, m) # {}
    BY DEF ShownOf, ToSet, Ids
  <2>9. live[c] = {}
    BY <2>1, <2>2 DEF TabFits, Following
  <2>10. Holds(c, Known, Created)'
    BY <2>2, <2>3, <2>4, <2>5 DEF Holds
  <2>11. (\A i \in DOMAIN wire[c] : TrueDeletion(wire[c][i]))'
    BY <2>1, <2>2 DEF PageMerged, TabFits, TrueDeletion
  <2>12. Following(c)' /\ Exact(c)'
    BY <2>1, <2>2, <2>9 DEF Following, Exact, TabFits
  <2>13. NoneLost(c)'
    <3> SUFFICES ASSUME c \in covered \ cleared, NEW m \in Created, Due(c, m)
                 PROVE  OnItsWay(c, m)'
      BY <2>2, <2>3 DEF PageMerged, NoneLost, Due, Listed
    <3>1. OnItsWay(c, m)
      BY <2>1 DEF TabFits, NoneLost
    <3>2. CASE m \in Ids(l) \/ \E x \in page[c] : x.id = m
      <4>1. m \in Ids(r)
        BY <2>5, <2>6, <2>7, <3>2
      <4> QED BY <2>2, <2>7, <2>8, <4>1 DEF OnItsWay
    <3>3. CASE \E i \in DOMAIN wire[c] : Brings(wire[c][i], m)
      BY <2>2, <3>3 DEF OnItsWay
    <3>4. CASE \E k \in Calls : At(k, "broadcast") /\ Brings(call[k].event, m)
      BY <3>4 DEF PageMerged, OnItsWay, At
    <3> QED BY <2>6, <2>8, <3>1, <3>2, <3>3, <3>4 DEF OnItsWay
  <2> QED BY <2>10, <2>11, <2>12, <2>13 DEF TabFits
<1> QED BY <1>1, <1>2, OneTab DEF Inv, PageMerged, TabForms

\* An event shows what it brings, and takes away only what is deleted.
LEMMA AppliedShows ==
  ASSUME NEW S, NEW N, NEW C, NEW e \in EventsOf(N, C), NEW m,
         S # {} \/ Brings(e, m), e.kind = "deleted" => e.id # m
  PROVE  AppliedTo(S, e, m) # {}
<1>1. CASE e \in [kind : {"created"}, copy : N]
  BY <1>1 DEF AppliedTo, Brings
<1>2. CASE e \in [kind : {"updated"}, copy : N]
  BY <1>2 DEF AppliedTo, Brings
<1>3. CASE e \in [kind : {"deleted"}, id : C]
  BY <1>3 DEF AppliedTo, Brings
<1>4. CASE e \in [kind : {"moderated"}, id : C, status : Statuses]
  <2>1. PICK x \in S : TRUE
    BY <1>4 DEF Brings
  <2>2. AppliedTo(S, e, m) = IF e.id = m THEN {[y EXCEPT !.status = e.status] : y \in S} ELSE S
    BY <1>4 DEF AppliedTo
  <2>3. [x EXCEPT !.status = e.status] \in {[y EXCEPT !.status = e.status] : y \in S}
    OBVIOUS
  <2> QED BY <2>1, <2>2, <2>3
<1> QED BY <1>1, <1>2, <1>3, <1>4 DEF EventsOf

\* A list that is kept takes the event as it was meant.
LEMMA DeliveredKeeps ==
  ASSUME Inv, NEW c \in Clients, Delivered(c) PROVE Inv'
<1>1. TabForms'
  BY DEF Inv, Delivered, TabForms
<1>2. TabFits(c)'
  <2>1. TabFits(c) /\ RowsFit /\ Following(c)
    BY DEF Inv, TabFits
  <2>2. PICK w, l, N, C : w = wire[c] /\ l = list[c] /\ N = Known /\ C = Created
    OBVIOUS
  <2>3. Places(N) /\ w \in Seq(EventsOf(N, C)) /\ l \in Lists(N) /\ w # <<>>
    BY <2>1, <2>2, KnownIs DEF TabFits, Holds, Delivered
  <2>4. PICK e : e = Head(w)
    OBVIOUS
  <2>5. /\ e \in EventsOf(N, C) /\ Tail(w) \in Seq(EventsOf(N, C)) /\ e = w[1]
        /\ DOMAIN w = 1..Len(w) /\ Len(w) \in Nat /\ DOMAIN Tail(w) = 1..(Len(w) - 1)
        /\ \A i \in 1..(Len(w) - 1) : Tail(w)[i] = w[i + 1] /\ i + 1 \in 1..Len(w)
        /\ 1 \in 1..Len(w) /\ \A i \in 1..Len(w) : i = 1 \/ (i - 1 \in 1..(Len(w) - 1) /\ (i - 1) + 1 = i)
    BY <2>3, <2>4
  <2>6. /\ link'[c] = link[c] /\ view'[c] = view[c] /\ page'[c] = page[c] /\ live'[c] = live[c]
        /\ covered' = covered /\ cleared' = cleared /\ overlapped' = overlapped
        /\ table' = table /\ call' = call /\ wire'[c] = Tail(w)
        /\ list'[c] = IF view[c] = "closed" THEN l ELSE Apply(l, e)
    BY <2>2, <2>4 DEF Inv, Delivered, TabForms
  <2>7. Created' = Created /\ Known' = Known
    BY <2>6 DEF Created, Known
  <2>8. Apply(l, e) \in Lists(N)
    BY <2>3, <2>5, ApplyIs
  <2>9. \A m : ShownOf(Apply(l, e), m) = AppliedTo(ShownOf(l, m), e, m)
    BY <2>3, <2>5, ApplyIs
  <2>10. Holds(c, Known, Created)'
    BY <2>1, <2>2, <2>3, <2>5, <2>6, <2>7, <2>8 DEF TabFits, Holds
  <2>11. (\A i \in DOMAIN wire[c] : TrueDeletion(wire[c][i]))'
    <3>1. \A i \in 1..Len(w) : w[i].kind = "deleted" => table[w[i].id].gone
      BY <2>1, <2>2, <2>5 DEF TabFits, TrueDeletion
    <3>2. \A i \in DOMAIN Tail(w) :
            Tail(w)[i].kind = "deleted" => table[Tail(w)[i].id].gone
      BY <2>5, <3>1
    <3> QED BY <2>6, <3>2 DEF TrueDeletion
  <2>12. Following(c)'
    BY <2>1, <2>6 DEF Following
  <2>13. NoneLost(c)'
    <3> SUFFICES ASSUME c \in covered \ cleared, NEW m \in Created, Due(c, m)
                 PROVE  OnItsWay(c, m)'
      BY <2>6, <2>7 DEF NoneLost, Due, Listed
    <3>1. OnItsWay(c, m) /\ list'[c] = Apply(l, e)
      BY <2>1, <2>6 DEF TabFits, NoneLost, Following
    <3>2. e.kind = "deleted" => e.id # m
      BY <2>1, <2>2, <2>5 DEF TabFits, TrueDeletion, Due, Listed
    <3>3. CASE ShownOf(l, m) # {} \/ Brings(e, m)
      <4>1. AppliedTo(ShownOf(l, m), e, m) # {}
        <5>1. PICK S : S = ShownOf(l, m)
          OBVIOUS
        <5>2. S # {} \/ Brings(e, m)
          BY <3>3, <5>1
        <5>3. AppliedTo(S, e, m) # {}
          <6>1. e \in EventsOf(N, C)
            BY <2>5
          <6> QED BY <3>2, <5>2, <6>1, AppliedShows
        <5> QED BY <5>1, <5>3
      <4> QED BY <2>9, <3>1, <4>1 DEF OnItsWay
    <3>4. CASE view[c] = "read" /\ \E x \in page[c] : x.id = m
      BY <2>6, <3>4 DEF OnItsWay
    <3>5. ASSUME NEW i \in DOMAIN w, Brings(w[i], m), ~Brings(e, m) PROVE OnItsWay(c, m)'
      <4>1. i - 1 \in DOMAIN Tail(w) /\ Tail(w)[i - 1] = w[i]
        BY <2>5, <3>5
      <4> QED BY <2>6, <3>5, <4>1 DEF OnItsWay
    <3>6. CASE \E k \in Calls : At(k, "broadcast") /\ Brings(call[k].event, m)
      BY <2>6, <3>6 DEF OnItsWay, At
    <3> QED BY <2>2, <3>1, <3>3, <3>4, <3>5, <3>6 DEF OnItsWay
  <2>14. Exact(c)'
    <3> SUFFICES ASSUME NEW m \in live[c] \ overlapped
                 PROVE  \E R : Reaches(ShownOf(list'[c], m), wire'[c], R, m) /\ Current(R, m)'
      BY <2>6 DEF Exact
    <3>1. PICK R : Reaches(ShownOf(l, m), w, R, m) /\ Current(R, m)
      BY <2>1, <2>2 DEF TabFits, Exact
    <3>2. list'[c] = Apply(l, e)
      BY <2>1, <2>6 DEF Following
    <3>3. Reaches(AppliedTo(ShownOf(l, m), e, m), Tail(w), R, m)
      BY <2>3, <2>4, <3>1, ReachesNext
    <3>4. Current(R, m)'
      BY <2>6, <3>1, CurrentSame
    <3> QED BY <2>6, <2>9, <3>2, <3>3, <3>4
  <2> QED BY <2>10, <2>11, <2>12, <2>13, <2>14 DEF TabFits
<1> QED BY <1>1, <1>2, OneTab DEF Inv, Delivered, TabForms

\* An operation that is not, and will not be, at its broadcast.
LEMMA CallMoved ==
  ASSUME Inv, NEW k \in Calls, NEW b \in CallsOf(Known, Created),
         ~At(k, "broadcast"), b.at # "broadcast",
         call' = [call EXCEPT ![k] = b], UNCHANGED <<table, tabVars>>,
         overlapped \subseteq overlapped', overlapped' \subseteq Messages, Apart'
  PROVE  Inv'
<1>1. Created' = Created /\ Known' = Known
  BY DEF Created, Known
<1>2. RowsFit'
  BY <1>1 DEF Inv, RowsFit
<1>3. /\ call'[k] = b /\ call' = [j \in Calls |-> call'[j]]
      /\ \A j \in Calls : j # k => call'[j] = call[j]
  BY DEF Inv, CallsFit
<1>4. CallsFit'
  <2>1. \A j \in Calls : call'[j] \in CallsOf(Known, Created)
    BY <1>3 DEF Inv, CallsFit
  <2>2. (\A j \in Calls : At(j, "broadcast") => TrueDeletion(call[j].event))'
    BY <1>3 DEF Inv, CallsFit, At, TrueDeletion
  <2> QED BY <1>1, <1>3, <2>1, <2>2 DEF CallsFit
<1>5. TabForms'
  BY DEF Inv, TabForms, tabVars, clientVars
<1>6. \A j \in Calls : \A m : Sending(j, m)' <=> Sending(j, m)
  BY <1>3 DEF Sending, At
<1>7. \A j \in Calls : \A m : Sending(j, m) => call'[j].event = call[j].event
  BY <1>3 DEF Sending, At
<1>8. ASSUME NEW R, NEW m, Current(R, m) PROVE Current(R, m)'
  <2>1. Truth(m)' = Truth(m)
    BY DEF Truth, TruthOf, CopyOf
  <2> QED BY <1>6, <1>7, <1>8, <2>1 DEF Current
<1>9. ASSUME NEW c \in Clients PROVE TabFits(c)'
  <2>1. TabFits(c)
    BY DEF Inv
  <2>2. Holds(c, Known, Created)' /\ Following(c)'
    BY <1>1, <2>1 DEF TabFits, Holds, Following, tabVars, clientVars
  <2>3. (\A i \in DOMAIN wire[c] : TrueDeletion(wire[c][i]))'
    BY <2>1 DEF TabFits, TrueDeletion, tabVars
  <2>4. NoneLost(c)'
    <3>1. \A j \in Calls : At(j, "broadcast") => call'[j] = call[j]
      BY <1>3 DEF At
    <3>2. ASSUME NEW m, OnItsWay(c, m) PROVE OnItsWay(c, m)'
      BY <3>1, <3>2 DEF OnItsWay, At, tabVars, clientVars
    <3> QED BY <1>1, <2>1, <3>2 DEF TabFits, NoneLost, Due, Listed, tabVars, clientVars
  <2>5. Exact(c)'
    <3> SUFFICES ASSUME NEW m \in live[c] \ overlapped
                 PROVE  \E R : Reaches(ShownOf(list[c], m), wire[c], R, m) /\ Current(R, m)'
      BY DEF Exact, tabVars, clientVars
    <3> QED BY <1>8, <2>1 DEF TabFits, Exact
  <2> QED BY <2>2, <2>3, <2>4, <2>5 DEF TabFits
<1> QED BY <1>2, <1>4, <1>5, <1>9 DEF Inv

\* What an operation finds changes nothing yet.
LEMMA FoundKeeps ==
  ASSUME Inv, NEW k \in Calls, Found(k) \/ Refused(k) PROVE Inv'
<1>1. call[k] \in CallsOf(Known, Created) /\ At(k, "find")
  BY DEF Inv, CallsFit, Found, Refused
<1>2. PICK b : b = call'[k]
  OBVIOUS
<1>3. call[k] \in [at : {"find", "write"}, op : Operations, id : Created]
  BY <1>1 DEF CallsOf, At, Idle
<1>4. /\ call' = [call EXCEPT ![k] = b] /\ b.at # "broadcast"
      /\ b = Idle \/ (b \in [at : {"find", "write"}, op : Operations, id : Created] /\ b.id = call[k].id)
  BY <1>2, <1>3 DEF Inv, CallsFit, Found, Refused, Done, Idle
<1>5. b \in CallsOf(Known, Created)
  BY <1>4 DEF CallsOf
<1>6. Apart'
  <2>1. table' = table /\ overlapped' = overlapped /\ Created' = Created
    BY DEF Found, Refused, Created
  <2>2. \A j \in Calls : call'[j] = IF j = k THEN b ELSE call[j]
    BY <1>4 DEF Inv, CallsFit
  <2>3. call[k] # Idle
    BY <1>1 DEF At, Idle
  <2> QED BY <1>4, <2>1, <2>2, <2>3 DEF Inv, CallsFit, Apart
<1> QED BY <1>1, <1>4, <1>5, <1>6, CallMoved DEF Inv, TabForms, Found, Refused, At

\* An operation whose query rejects wrote nothing.
LEMMA QueryFailedKeeps ==
  ASSUME Inv, NEW k \in Calls, QueryFailed(k) PROVE Inv'
<1>1. /\ call' = [call EXCEPT ![k] = Idle] /\ ~At(k, "broadcast") /\ Idle.at # "broadcast"
      /\ Idle \in CallsOf(Known, Created)
  BY DEF QueryFailed, Done, At, Idle, CallsOf
<1>2. Apart'
  <2>1. overlapped' = overlapped /\ Created' = Created
    BY DEF QueryFailed, Created
  <2>2. \A j \in Calls : call'[j] = IF j = k THEN Idle ELSE call[j]
    BY <1>1 DEF Inv, CallsFit
  <2> QED BY <2>1, <2>2 DEF Inv, CallsFit, Apart
<1>3. overlapped' \subseteq Messages /\ overlapped \subseteq overlapped'
  BY DEF Inv, TabForms, QueryFailed
<1> QED BY <1>1, <1>2, <1>3, CallMoved DEF QueryFailed

\* When the process ends no operation is in progress and no client is in the room.
LEMMA ProcessEndedKeeps ==
  ASSUME Inv, ProcessEnded PROVE Inv'
<1>1. Created' = Created /\ Known' = Known
  BY DEF ProcessEnded, Created, Known
<1>2. RowsFit'
  BY <1>1 DEF Inv, RowsFit, ProcessEnded
<1>3. CallsFit'
  <2>1. \A k \in Calls : call'[k] = Idle
    BY DEF ProcessEnded
  <2>2. call' = [k \in Calls |-> call'[k]]
    BY DEF ProcessEnded
  <2>3. Apart'
    BY <2>1 DEF Apart
  <2> QED BY <2>1, <2>2, <2>3 DEF CallsFit, CallsOf, At, Idle
<1>4. TabForms'
  BY DEF Inv, TabForms, ProcessEnded
<1>5. ASSUME NEW c \in Clients PROVE TabFits(c)'
  <2>1. TabFits(c)
    BY DEF Inv
  <2>2. /\ wire'[c] = <<>> /\ page'[c] = page[c] /\ list'[c] = list[c] /\ live'[c] = {}
        /\ link'[c] = "out" /\ view'[c] = view[c] /\ c \notin covered'
    BY DEF ProcessEnded
  <2> QED BY <2>1, <2>2, Unowed DEF ProcessEnded, TabFits, Holds
<1> QED BY <1>2, <1>3, <1>4, <1>5 DEF Inv

\* An operation that starts beside another one on its message is on record.
LEMMA CalledKeeps ==
  ASSUME Inv, NEW k \in Calls, NEW op \in Operations \cup {"send"}, NEW m \in Messages,
         Called(k, op, m)
  PROVE  Inv'
<1>1. PICK b : b = [at |-> IF op = "send" THEN "insert" ELSE "find", op |-> op, id |-> m]
  OBVIOUS
<1>2. call[k] = Idle /\ call' = [call EXCEPT ![k] = b] /\ UNCHANGED <<table, tabVars>>
  BY <1>1 DEF Called
<1>3. b \in CallsOf(Known, Created) /\ b.at # "broadcast" /\ b.id = m
  BY <1>1 DEF Called, CallsOf
<1>4. overlapped \subseteq overlapped' /\ overlapped' \subseteq Messages
  BY DEF Called, Inv, TabForms
<1>5. Apart'
  <2>1. Created' = Created
    BY <1>2 DEF Created
  <2>2. \A j \in Calls : call'[j] = IF j = k THEN b ELSE call[j]
    BY <1>2 DEF Inv, CallsFit
  <2>3. \A j \in Calls : call[j] # Idle /\ call[j].id = m => call[j].op \in OpsOn(m)
    BY DEF OpsOn
  <2>4. m \notin Created \/ m \notin overlapped' => OpsOn(m) = {}
    BY DEF Called
  <2> QED BY <1>2, <1>3, <1>4, <2>1, <2>2, <2>3, <2>4 DEF Inv, CallsFit, Apart
<1>6. ~At(k, "broadcast")
  BY <1>2 DEF At, Idle
<1> QED BY <1>2, <1>3, <1>4, <1>5, <1>6, CallMoved

\* An event that is sent is on its way to those who are owed it.
LEMMA BroadcastKeeps ==
  ASSUME Inv, NEW k \in Calls, Broadcast(k) PROVE Inv'
<1>1. PICK N, C, e : N = Known /\ C = Created /\ e = call[k].event
  OBVIOUS
<1>2. /\ call[k].at = "broadcast" /\ call[k] # Idle /\ e \in EventsOf(N, C)
      /\ About(e) = call[k].id /\ TrueDeletion(e)
  BY <1>1 DEF Inv, CallsFit, CallsOf, Broadcast, At, Idle
<1>3. /\ call' = [call EXCEPT ![k] = Idle] /\ table' = table /\ overlapped' = overlapped
      /\ UNCHANGED <<link, view, page, list, live, covered, cleared>>
      /\ wire' = [c \in Clients |-> IF link[c] \in {"in", "leaving"} THEN Append(wire[c], e) ELSE wire[c]]
  BY <1>1 DEF Broadcast, Done, clientVars
<1>4. Created' = C /\ Known' = N
  BY <1>1, <1>3 DEF Created, Known
<1>5. RowsFit' /\ TabForms'
  BY <1>1, <1>3, <1>4 DEF Inv, RowsFit, TabForms
<1>6. /\ call'[k] = Idle /\ call' = [j \in Calls |-> call'[j]]
      /\ \A j \in Calls : j # k => call'[j] = call[j]
  BY <1>3 DEF Inv, CallsFit
<1>7. CallsFit'
  <2>1. \A j \in Calls : call'[j] \in CallsOf(N, C)
    BY <1>1, <1>6 DEF Inv, CallsFit, CallsOf
  <2>2. (\A j \in Calls : At(j, "broadcast") => TrueDeletion(call[j].event))'
    BY <1>3, <1>6 DEF Inv, CallsFit, At, TrueDeletion, Idle
  <2>3. Apart'
    BY <1>1, <1>3, <1>4, <1>6 DEF Inv, CallsFit, Apart
  <2> QED BY <1>4, <1>6, <2>1, <2>2, <2>3 DEF CallsFit
<1>8. \A j \in Calls : \A m : Sending(j, m)' <=> Sending(j, m) /\ j # k
  BY <1>6 DEF Sending, At, Idle
<1>9. \A j \in Calls : \A m : Sending(j, m)' => call'[j].event = call[j].event
  BY <1>6, <1>8
<1>10. \A m : Truth(m)' = Truth(m)
  BY <1>3 DEF Truth, TruthOf, CopyOf
<1>11. \A m : m \in C \ overlapped /\ call[k].id = m => \A j \in Calls : Sending(j, m) => j = k
  BY <1>1, <1>2 DEF Inv, CallsFit, Apart, Sending, At, Idle
<1>12. ASSUME NEW c \in Clients PROVE TabFits(c)'
  <2>1. TabFits(c) /\ Following(c)
    BY DEF Inv, TabFits
  <2>2. PICK w, v : w = wire[c] /\ v = wire'[c]
    OBVIOUS
  <2>3. w \in Seq(EventsOf(N, C)) /\ Len(w) \in Nat /\ DOMAIN w = 1..Len(w)
    <3>1. w \in Seq(EventsOf(N, C))
      BY <1>1, <2>1, <2>2 DEF TabFits, Holds
    <3> QED BY <3>1
  <2>4. v = IF link[c] \in {"in", "leaving"} THEN Append(w, e) ELSE w
    BY <1>3, <2>2
  <2>5. v = Append(w, e) =>
          /\ v \in Seq(EventsOf(N, C)) /\ DOMAIN v = 1..(Len(w) + 1) /\ v[Len(w) + 1] = e
          /\ \A i \in 1..Len(w) : v[i] = w[i]
          /\ \A i \in 1..(Len(w) + 1) : i = Len(w) + 1 \/ i \in 1..Len(w)
          /\ \A i \in 1..Len(w) : i \in 1..(Len(w) + 1)
          /\ Len(w) + 1 \in 1..(Len(w) + 1)
    BY <1>2, <2>3
  <2>6. Holds(c, Known, Created)'
    BY <1>1, <1>3, <1>4, <2>1, <2>2, <2>3, <2>4, <2>5 DEF TabFits, Holds
  <2>7. (\A i \in DOMAIN wire[c] : TrueDeletion(wire[c][i]))'
    <3>1. \A i \in DOMAIN w : TrueDeletion(w[i])
      BY <2>1, <2>2 DEF TabFits
    <3>2. \A i \in DOMAIN v : TrueDeletion(v[i])
      BY <1>2, <2>3, <2>4, <2>5, <3>1
    <3> QED BY <1>3, <2>2, <3>2 DEF TrueDeletion
  <2>8. Following(c)'
    BY <1>3, <2>1 DEF Following
  <2>9. NoneLost(c)'
    <3> SUFFICES ASSUME c \in covered \ cleared, NEW m \in C, Due(c, m)
                 PROVE  OnItsWay(c, m)'
      BY <1>3, <1>4 DEF NoneLost, Due, Listed
    <3>1. OnItsWay(c, m) /\ v = Append(w, e)
      BY <1>1, <2>1, <2>4 DEF TabFits, NoneLost, Following
    <3>2. CASE ShownOf(list[c], m) # {} \/ (view[c] = "read" /\ \E x \in page[c] : x.id = m)
      BY <1>3, <3>2 DEF OnItsWay
    <3>3. CASE \E i \in DOMAIN w : Brings(w[i], m)
      BY <2>2, <2>3, <2>5, <3>1, <3>3 DEF OnItsWay
    <3>4. CASE Brings(e, m)
      BY <2>2, <2>5, <3>1, <3>4 DEF OnItsWay
    <3>5. CASE \E j \in Calls \ {k} : At(j, "broadcast") /\ Brings(call[j].event, m)
      BY <1>6, <3>5 DEF OnItsWay, At
    <3> QED BY <1>1, <2>2, <3>1, <3>2, <3>3, <3>4, <3>5 DEF OnItsWay
  <2>10. Exact(c)'
    <3> SUFFICES ASSUME NEW m \in live[c] \ overlapped
                 PROVE  \E R : Reaches(ShownOf(list[c], m), v, R, m) /\ Current(R, m)'
      BY <1>3, <2>2 DEF Exact
    <3>1. PICK R : Reaches(ShownOf(list[c], m), w, R, m) /\ Current(R, m)
      BY <2>1, <2>2 DEF TabFits, Exact
    <3>2. v = Append(w, e) /\ m \in C
      BY <1>1, <2>1, <2>4 DEF Following, TabFits, Holds
    <3>3. PICK Q : Q = AppliedTo(R, e, m)
      OBVIOUS
    <3>4. Reaches(ShownOf(list[c], m), v, Q, m)
      BY <1>2, <2>3, <3>1, <3>2, <3>3, ReachesLast
    <3>5. Current(Q, m)'
      <4>1. CASE call[k].id = m
        <5>1. Q = Truth(m)
          BY <1>1, <1>2, <3>1, <3>3, <4>1 DEF Current, Sending, At
        <5>2. \A j \in Calls : ~Sending(j, m)'
          BY <1>8, <1>11, <3>2, <4>1
        <5> QED BY <1>10, <5>1, <5>2 DEF Current
      <4>2. CASE call[k].id # m
        <5>1. Q = R
          BY <1>2, <3>3, <4>2 DEF AppliedTo, About, EventsOf
        <5>2. \A j \in Calls : Sending(j, m)' <=> Sending(j, m)
          BY <1>8, <4>2 DEF Sending
        <5> QED BY <1>9, <1>10, <3>1, <5>1, <5>2 DEF Current
      <4> QED BY <4>1, <4>2
    <3> QED BY <3>4, <3>5
  <2> QED BY <2>6, <2>7, <2>8, <2>9, <2>10 DEF TabFits
<1> QED BY <1>5, <1>7, <1>12 DEF Inv

\* A write changes neither whose row it is nor its place, and its event makes of
\* the row that was the row that is.
LEMMA WrittenIs ==
  ASSUME NEW row \in Rows, NEW op \in Operations, NEW new, new = Written(op, row),
         NEW e, e = EventOf(op, row, new),
         new.body \in Bodies, NEW N, NEW C, CopyOf(new) \in N, row.id \in C
  PROVE  /\ new \in Rows /\ new.id = row.id /\ new.at = row.at /\ (row.gone => new.gone)
         /\ e \in EventsOf(N, C) /\ About(e) = row.id
         /\ e.kind = "deleted" => (e.id = row.id /\ new.gone)
         /\ AppliedTo(TruthOf(row), e, row.id) = TruthOf(new)
<1>1. CASE op = "edit"
  <2>1. new = [row EXCEPT !.body = @ + 1] /\ e = [kind |-> "updated", copy |-> CopyOf(new)]
    BY <1>1 DEF Written, EventOf
  <2>2. /\ new \in Rows /\ new.id = row.id /\ new.at = row.at /\ new.gone = row.gone
        /\ new.status = row.status
    BY <2>1 DEF Rows
  <2>3. CopyOf(new).id = row.id
    BY <2>2 DEF CopyOf
  <2>4. e \in EventsOf(N, C) /\ About(e) = row.id
    BY <2>1, <2>3 DEF EventsOf, About
  <2>5. e.kind # "deleted"
    BY <2>1
  <2>6. AppliedTo(TruthOf(row), e, row.id) = TruthOf(new)
    BY <2>1, <2>2, <2>3 DEF AppliedTo, TruthOf
  <2> QED BY <2>2, <2>4, <2>5, <2>6
<1>2. CASE op = "delete"
  <2>1. new = [row EXCEPT !.gone = TRUE] /\ e = [kind |-> "deleted", id |-> new.id]
    BY <1>2 DEF Written, EventOf
  <2>2. new \in Rows /\ new.id = row.id /\ new.at = row.at /\ new.gone
    BY <2>1 DEF Rows
  <2>3. e \in EventsOf(N, C) /\ About(e) = row.id
    BY <2>1, <2>2 DEF EventsOf, About
  <2>4. AppliedTo(TruthOf(row), e, row.id) = {}
    BY <2>1, <2>2 DEF AppliedTo
  <2>6. TruthOf(new) = {}
    BY <2>2 DEF TruthOf
  <2>7. e.id = row.id
    BY <2>1, <2>2
  <2> QED BY <2>2, <2>3, <2>4, <2>6, <2>7
<1>3. CASE op \in {"approve", "remove"}
  <2> DEFINE s == IF op = "approve" THEN "VISIBLE" ELSE "REMOVED"
  <2>1. new = [row EXCEPT !.status = s]
        /\ e = [kind |-> "moderated", id |-> new.id, status |-> new.status]
    BY <1>3 DEF Written, EventOf
  <2>2. /\ new \in Rows /\ new.id = row.id /\ new.at = row.at /\ new.gone = row.gone
        /\ new.status = s /\ new.body = row.body /\ s \in Statuses
    BY <1>3, <2>1 DEF Rows, Statuses
  <2>3. e \in EventsOf(N, C) /\ About(e) = row.id
    BY <2>1, <2>2 DEF EventsOf, About
  <2>4. e.kind # "deleted"
    BY <2>1
  <2>5. AppliedTo(TruthOf(row), e, row.id) = TruthOf(new)
    <3>1. [CopyOf(row) EXCEPT !.status = new.status] = CopyOf(new)
      BY <2>2 DEF CopyOf
    <3>2. \A S : AppliedTo(S, e, row.id) = {[x EXCEPT !.status = new.status] : x \in S}
      BY <2>1, <2>2 DEF AppliedTo
    <3>3. {[x EXCEPT !.status = new.status] : x \in {CopyOf(row)}} = {[CopyOf(row) EXCEPT !.status = new.status]}
      OBVIOUS
    <3>4. CASE row.gone
      <4>1. {[x EXCEPT !.status = new.status] : x \in {}} = {}
        OBVIOUS
      <4>2. AppliedTo({}, e, row.id) = {}
        BY <3>2, <4>1
      <4> QED BY <2>2, <3>4, <4>2 DEF TruthOf
    <3>5. CASE ~row.gone
      <4>1. AppliedTo({CopyOf(row)}, e, row.id) = {CopyOf(new)}
        BY <3>1, <3>2, <3>3
      <4> QED BY <2>2, <3>5, <4>1 DEF TruthOf
    <3> QED BY <3>4, <3>5
  <2> QED BY <2>2, <2>3, <2>4, <2>5
<1> QED BY <1>1, <1>2, <1>3, MessageConstants

\* Only an approval shows a message to those it was hidden from.
LEMMA WrittenShows ==
  ASSUME NEW row \in Rows, NEW op \in Operations, NEW c, Listed(c, Written(op, row)),
         c \in Moderators \/ op # "approve"
  PROVE  Listed(c, row)
<1>1. op \in {"edit", "delete", "approve", "remove"}
  BY MessageConstants
<1> QED BY <1>1 DEF Listed, Written, Rows

\* A write makes the database and what the clients are sent differ, by its event.
LEMMA UpdatedKeeps ==
  ASSUME Inv, NEW k \in Calls, Updated(k) PROVE Inv'
<1>1. PICK N, C, m, op, old : /\ N = Known /\ C = Created /\ m = call[k].id /\ op = call[k].op
                              /\ old = table[m]
  OBVIOUS
<1>2. PICK new, e : new = Written(op, old) /\ e = EventOf(op, old, new)
  OBVIOUS
<1>3. /\ call[k].at = "write" /\ table' = [table EXCEPT ![m] = new] /\ new.body \in Bodies
      /\ call' = [call EXCEPT ![k] = [at |-> "broadcast", op |-> op, id |-> m, event |-> e]]
      /\ overlapped' = overlapped /\ UNCHANGED tabVars
  BY <1>1, <1>2 DEF Updated, At
<1>4. call[k] # Idle /\ op \in Operations /\ m \in C
  BY <1>1, <1>3 DEF Inv, CallsFit, CallsOf, Idle
<1>5. /\ C \subseteq Messages /\ old \in Rows /\ old.id = m /\ old.at \in Nat /\ old.at # 0
      /\ \A n \in C : table[n] \in Rows /\ CopyOf(table[n]) \in N
  <2>1. \A n \in C : CopyOf(table[n]) \in N
    BY <1>1, KnownIs DEF Inv
  <2>2. Cardinality(C) \in Nat
    BY <1>1, FS_CardinalityType DEF Inv, RowsFit
  <2> QED BY <1>1, <1>4, <2>1, <2>2 DEF Inv, RowsFit, Created
<1>6. CopyOf(new) \in N
  <2>1. CopyOf(old) \in N /\ \A x \in Copies : x.id = m /\ x.at = old.at => x \in N
    BY <1>1, <1>4, <1>5 DEF Known
  <2>2. new.id = m /\ new.at = old.at /\ new.status \in Statuses
    <3>1. op \in {"edit", "delete", "approve", "remove"}
      BY <1>4, MessageConstants
    <3> QED BY <1>2, <1>5, <3>1 DEF Written, Rows, Statuses
  <2>3. CopyOf(new) \in Copies /\ CopyOf(new).id = m /\ CopyOf(new).at = old.at
    BY <1>3, <1>4, <1>5, <2>2 DEF CopyOf, Copies
  <2> QED BY <2>1, <2>3
<1>7. /\ new \in Rows /\ new.id = m /\ new.at = old.at /\ (old.gone => new.gone)
      /\ e \in EventsOf(N, C) /\ About(e) = m /\ (e.kind = "deleted" => e.id = m /\ new.gone)
      /\ AppliedTo(TruthOf(old), e, m) = TruthOf(new)
  <2>1. /\ old \in Rows /\ op \in Operations /\ new = Written(op, old)
        /\ e = EventOf(op, old, new) /\ new.body \in Bodies /\ CopyOf(new) \in N
        /\ old.id \in C /\ old.id = m
    BY <1>2, <1>3, <1>4, <1>5, <1>6
  <2>2. new \in Rows /\ new.id = old.id /\ new.at = old.at /\ (old.gone => new.gone)
    BY <2>1, WrittenIs
  <2>3. e \in EventsOf(N, C) /\ About(e) = old.id
    BY <2>1, WrittenIs
  <2>4. e.kind = "deleted" => e.id = old.id /\ new.gone
    BY <2>1, WrittenIs
  <2>5. AppliedTo(TruthOf(old), e, old.id) = TruthOf(new)
    BY <2>1, WrittenIs
  <2> QED BY <2>1, <2>2, <2>3, <2>4, <2>5
<1>8. ASSUME NEW c, Listed(c, new), c \in Moderators \/ op # "approve" PROVE Listed(c, old)
  BY <1>2, <1>4, <1>5, <1>8, WrittenShows
<1>10. /\ table'[m] = new /\ table' \in [Messages -> Rows \cup {Absent}]
       /\ \A n \in Messages : n # m => table'[n] = table[n]
  BY <1>3, <1>4, <1>5, <1>7 DEF Inv, RowsFit
<1>11. Created' = C
  BY <1>1, <1>4, <1>5, <1>7, <1>10 DEF Created, Absent
<1>12. Known' = N
  <2>1. \A n \in C : table'[n].at = table[n].at
    BY <1>1, <1>5, <1>7, <1>10
  <2> QED BY <1>1, <1>11, <2>1 DEF Known
<1>13. RowsFit'
  <2>1. \A n \in C : table'[n].at = table[n].at /\ table'[n].id = table[n].id
    BY <1>1, <1>5, <1>7, <1>10
  <2> QED BY <1>1, <1>10, <1>11, <2>1 DEF Inv, RowsFit
<1>14. /\ call' = [j \in Calls |-> call'[j]] /\ \A j \in Calls : j # k => call'[j] = call[j]
       /\ call'[k] = [at |-> "broadcast", op |-> op, id |-> m, event |-> e]
  BY <1>3 DEF Inv, CallsFit
<1>15. ASSUME NEW f \in EventsOf(N, C), TrueDeletion(f) PROVE TrueDeletion(f)'
  <2>1. f.kind = "deleted" => f.id \in C
    BY DEF EventsOf
  <2>2. \A n \in C : table[n].gone => table'[n].gone
    BY <1>1, <1>5, <1>7, <1>10
  <2> QED BY <1>15, <2>1, <2>2 DEF TrueDeletion
<1>16. CallsFit'
  <2>1. call'[k] \in CallsOf(N, C)
    BY <1>4, <1>7, <1>14 DEF CallsOf
  <2>2. \A j \in Calls : call'[j] \in CallsOf(N, C)
    BY <1>1, <1>14, <2>1 DEF Inv, CallsFit
  <2>3. ASSUME NEW j \in Calls, call'[j].at = "broadcast" PROVE TrueDeletion(call[j].event)'
    <3>1. CASE j = k
      BY <1>7, <1>10, <1>14, <3>1 DEF TrueDeletion
    <3>2. CASE j # k
      <4>1. TrueDeletion(call[j].event) /\ call[j].event \in EventsOf(N, C) /\ call'[j] = call[j]
        BY <1>1, <1>14, <2>3, <3>2 DEF Inv, CallsFit, CallsOf, At, Idle
      <4>2. PICK f : f = call[j].event
        OBVIOUS
      <4>3. TrueDeletion(f)'
        BY <1>15, <4>1, <4>2
      <4> QED BY <4>1, <4>2, <4>3 DEF TrueDeletion
    <3> QED BY <3>1, <3>2
  <2>4. Apart'
    BY <1>1, <1>3, <1>4, <1>11, <1>14 DEF Inv, CallsFit, Apart
  <2> QED BY <1>11, <1>12, <1>14, <2>2, <2>3, <2>4 DEF CallsFit, At
<1>17. TabForms'
  BY <1>3 DEF Inv, TabForms, tabVars, clientVars
<1>18. /\ \A j \in Calls : \A n : n # m => (Sending(j, n)' <=> Sending(j, n))
       /\ \A j \in Calls : \A n : n # m /\ Sending(j, n) => call'[j] = call[j]
       /\ Sending(k, m)'
       /\ m \notin overlapped => \A j \in Calls : j # k => ~Sending(j, m) /\ ~Sending(j, m)'
       /\ ~Sending(k, m)
  BY <1>1, <1>3, <1>4, <1>14 DEF Inv, CallsFit, Apart, Sending, At, Idle
<1>19. Truth(m) = TruthOf(old) /\ Truth(m)' = TruthOf(new)
  BY <1>1, <1>10 DEF Truth, TruthOf, CopyOf
<1>20. ASSUME NEW c \in Clients PROVE TabFits(c)'
  <2>1. TabFits(c)
    BY DEF Inv
  <2>2. Holds(c, Known, Created)' /\ Following(c)'
    BY <1>1, <1>3, <1>11, <1>12, <2>1 DEF TabFits, Holds, Following, tabVars, clientVars
  <2>3. (\A i \in DOMAIN wire[c] : TrueDeletion(wire[c][i]))'
    <3>1. PICK w : w = wire[c] /\ w = wire'[c]
      BY <1>3 DEF tabVars
    <3>2. w \in Seq(EventsOf(N, C))
      BY <1>1, <2>1, <3>1 DEF TabFits, Holds
    <3>3. \A i \in DOMAIN w : w[i] \in EventsOf(N, C) /\ TrueDeletion(w[i])
      BY <2>1, <3>1, <3>2 DEF TabFits
    <3>4. ASSUME NEW i \in DOMAIN w PROVE TrueDeletion(w[i])'
      <4>1. PICK f : f = w[i]
        OBVIOUS
      <4>2. TrueDeletion(f)'
        BY <1>15, <3>3, <4>1
      <4> QED BY <4>1, <4>2 DEF TrueDeletion
    <3> QED BY <3>1, <3>4 DEF TrueDeletion
  <2>4. NoneLost(c)'
    <3> SUFFICES ASSUME c \in covered \ cleared, NEW n \in C, Due(c, n)'
                 PROVE  OnItsWay(c, n)'
      BY <1>3, <1>11 DEF NoneLost, tabVars, clientVars
    <3>1. Due(c, n)
      BY <1>1, <1>4, <1>5, <1>8, <1>10 DEF Due
    <3>2. OnItsWay(c, n)
      BY <1>1, <2>1, <3>1 DEF TabFits, NoneLost
    <3>3. \A j \in Calls : At(j, "broadcast") => call'[j] = call[j]
      BY <1>3, <1>14 DEF At
    <3> QED BY <1>3, <3>2, <3>3 DEF OnItsWay, At, tabVars, clientVars
  <2>5. Exact(c)'
    <3> SUFFICES ASSUME NEW n \in live[c] \ overlapped
                 PROVE  \E R : Reaches(ShownOf(list[c], n), wire[c], R, n) /\ Current(R, n)'
      BY <1>3 DEF Exact, tabVars, clientVars
    <3>1. PICK R : Reaches(ShownOf(list[c], n), wire[c], R, n) /\ Current(R, n)
      BY <2>1 DEF TabFits, Exact
    <3>2. CASE n = m
      <4>1. R = Truth(m)
        BY <1>18, <3>1, <3>2 DEF Current
      <4>2. AppliedTo(R, e, m) = Truth(m)'
        BY <1>7, <1>19, <4>1
      <4>3. Current(R, m)'
        BY <1>14, <1>18, <3>2, <4>2 DEF Current
      <4> QED BY <3>1, <3>2, <4>3
    <3>3. CASE n # m
      <4>1. n \in Messages
        BY <1>1, <1>5, <2>1 DEF TabFits, Holds
      <4>2. Truth(n)' = Truth(n)
        BY <1>10, <3>3, <4>1 DEF Truth, TruthOf, CopyOf
      <4>3. Current(R, n)'
        BY <1>18, <3>1, <3>3, <4>2 DEF Current
      <4> QED BY <3>1, <4>3
    <3> QED BY <3>2, <3>3
  <2> QED BY <2>2, <2>3, <2>4, <2>5 DEF TabFits
<1> QED BY <1>13, <1>16, <1>17, <1>20 DEF Inv

\* A new message is nowhere but in its broadcast, which makes of nothing what it is.
LEMMA InsertedKeeps ==
  ASSUME Inv, NEW k \in Calls, Inserted(k) PROVE Inv'
<1>1. PICK N, C, m : N = Known /\ C = Created /\ m = call[k].id
  OBVIOUS
<1>2. PICK row : row = [id |-> m, at |-> Cardinality(C) + 1, body |-> 0,
                        status |-> IF Review THEN "PENDING_REVIEW" ELSE "VISIBLE", gone |-> FALSE]
  OBVIOUS
<1>3. PICK e : e = [kind |-> "created", copy |-> CopyOf(row)]
  OBVIOUS
<1>4. /\ call[k].at = "insert" /\ table' = [table EXCEPT ![m] = row]
      /\ call' = [call EXCEPT ![k] = [at |-> "broadcast", op |-> "send", id |-> m, event |-> e]]
      /\ live' = [c \in Clients |->
           IF link[c] = "in" /\ view[c] = "merged" THEN live[c] \cup {m} ELSE live[c]]
      /\ UNCHANGED <<overlapped, link, view, page, list, wire, covered, cleared>>
  BY <1>1, <1>2, <1>3 DEF Inserted, At, clientVars
<1>5. call[k] # Idle /\ m \in Messages \ C
  BY <1>1, <1>4 DEF Inv, CallsFit, CallsOf, Idle
<1>6. Cardinality(C) \in Nat /\ IsFiniteSet(C) /\ C \subseteq Messages
  BY <1>1, FS_CardinalityType DEF Inv, RowsFit, Created
<1>7. row \in Rows /\ row.id = m /\ row.at = Cardinality(C) + 1 /\ ~row.gone
  BY <1>2, <1>5, <1>6, MessageConstants DEF Rows, Statuses, Bodies
<1>8. /\ table'[m] = row /\ table' \in [Messages -> Rows \cup {Absent}]
      /\ \A n \in Messages : n # m => table'[n] = table[n]
  BY <1>4, <1>5, <1>7 DEF Inv, RowsFit
<1>9. Created' = C \cup {m}
  BY <1>1, <1>5, <1>6, <1>7, <1>8 DEF Created, Absent
<1>10. PICK M, D : M = Known' /\ D = C \cup {m}
  OBVIOUS
<1>11. N \subseteq M
  BY <1>1, <1>5, <1>6, <1>8, <1>9, <1>10 DEF Known
<1>12. CopyOf(row) \in M /\ CopyOf(row).id = m
  BY <1>5, <1>7, <1>8, <1>9, <1>10 DEF Known, CopyOf, Copies, Rows
<1>13. RowsFit'
  <2>1. IsFiniteSet(D) /\ Cardinality(D) = Cardinality(C) + 1
    BY <1>5, <1>6, <1>10, FS_AddElement
  <2>2. \A n \in C : table'[n] = table[n] /\ table[n].id = n /\ table[n].at \in 1..Cardinality(C)
    BY <1>1, <1>5, <1>6, <1>8 DEF Inv, RowsFit
  <2>3. \A n \in D : table'[n].id = n /\ table'[n].at \in 1..Cardinality(D)
    BY <1>6, <1>7, <1>8, <1>10, <2>1, <2>2
  <2>4. \A n \in C : table'[n].at # table'[m].at
    BY <1>6, <1>7, <1>8, <2>2
  <2>5. \A n, p \in C : table'[n].at = table'[p].at => n = p
    BY <1>1, <2>2 DEF Inv, RowsFit
  <2>6. \A n, p \in D : table'[n].at = table'[p].at => n = p
    BY <1>10, <2>4, <2>5
  <2> QED BY <1>8, <1>9, <1>10, <2>1, <2>3, <2>6 DEF RowsFit
<1>14. e \in EventsOf(M, D) /\ About(e) = m /\ e.kind # "deleted"
  BY <1>3, <1>12 DEF EventsOf, About
<1>15. EventsOf(N, C) \subseteq EventsOf(M, D) /\ Lists(N) \subseteq Lists(M)
       /\ Seq(EventsOf(N, C)) \subseteq Seq(EventsOf(M, D))
  BY <1>10, <1>11, MoreRows
<1>16. /\ call' = [j \in Calls |-> call'[j]] /\ \A j \in Calls : j # k => call'[j] = call[j]
       /\ call'[k] = [at |-> "broadcast", op |-> "send", id |-> m, event |-> e]
  BY <1>4 DEF Inv, CallsFit
\* No other operation is about the new message.
<1>17. \A j \in Calls : j # k => call[j] = Idle \/ call[j].id # m
  BY <1>1, <1>5 DEF Inv, CallsFit, Apart
<1>18. ASSUME NEW f \in EventsOf(N, C), TrueDeletion(f) PROVE TrueDeletion(f)'
  <2>1. f.kind = "deleted" => f.id \in C
    BY DEF EventsOf
  <2>2. \A n \in C : table'[n] = table[n]
    BY <1>5, <1>6, <1>8
  <2> QED BY <1>18, <2>1, <2>2 DEF TrueDeletion
<1>19. CallsFit'
  <2>1. call'[k] \in CallsOf(M, D)
    BY <1>10, <1>14, <1>16 DEF CallsOf
  <2>2. ASSUME NEW j \in Calls, j # k PROVE call[j] \in CallsOf(M, D)
    <3>1. call[j] \in CallsOf(N, C)
      BY <1>1 DEF Inv, CallsFit
    <3>2. CASE call[j] = Idle
      BY <3>2 DEF CallsOf
    <3>3. CASE call[j] \in [at : {"insert"}, op : {"send"}, id : Messages \ C]
      <4>1. call[j].id # m
        BY <1>17, <2>2, <3>3 DEF Idle
      <4> QED BY <1>10, <3>3, <4>1 DEF CallsOf
    <3>4. CASE call[j] \in [at : {"find", "write"}, op : Operations, id : C]
      BY <1>10, <3>4 DEF CallsOf
    <3>5. CASE call[j] \in {b \in [at : {"broadcast"}, op : Operations \cup {"send"}, id : C,
                                  event : EventsOf(N, C)] : About(b.event) = b.id}
      BY <1>10, <1>15, <3>5 DEF CallsOf
    <3> QED BY <3>1, <3>2, <3>3, <3>4, <3>5 DEF CallsOf
  <2>3. \A j \in Calls : call'[j] \in CallsOf(M, D)
    BY <1>16, <2>1, <2>2
  <2>4. ASSUME NEW j \in Calls, call'[j].at = "broadcast" PROVE TrueDeletion(call[j].event)'
    <3>1. CASE j = k
      BY <1>14, <1>16, <3>1 DEF TrueDeletion
    <3>2. CASE j # k
      <4>1. TrueDeletion(call[j].event) /\ call[j].event \in EventsOf(N, C) /\ call'[j] = call[j]
        BY <1>1, <1>16, <2>4, <3>2 DEF Inv, CallsFit, CallsOf, At, Idle
      <4>2. PICK f : f = call[j].event
        OBVIOUS
      <4>3. TrueDeletion(f)'
        BY <1>18, <4>1, <4>2
      <4> QED BY <4>1, <4>2, <4>3 DEF TrueDeletion
    <3> QED BY <3>1, <3>2
  <2>5. Apart'
    <3>1. call'[k].id = m /\ \A j \in Calls : j # k => call'[j] = Idle \/ call'[j].id # m
      BY <1>16, <1>17
    <3>2. \A i, j \in Calls : i # k /\ j # k => call'[i] = call[i] /\ call'[j] = call[j]
      BY <1>16
    <3> QED BY <1>1, <1>4, <1>9, <3>1, <3>2 DEF Inv, CallsFit, Apart
  <2> QED BY <1>9, <1>10, <1>16, <2>3, <2>4, <2>5 DEF CallsFit, At
<1>20. TabForms'
  BY <1>4 DEF Inv, TabForms
<1>21. /\ \A j \in Calls : \A n : n # m => (Sending(j, n)' <=> Sending(j, n))
       /\ \A j \in Calls : \A n : n # m /\ Sending(j, n) => call'[j] = call[j]
       /\ Sending(k, m)'
       /\ \A j \in Calls : j # k => ~Sending(j, m)'
  BY <1>1, <1>4, <1>16, <1>17 DEF Sending, At, Idle
<1>22. ASSUME NEW c \in Clients PROVE TabFits(c)'
  <2>1. TabFits(c)
    BY DEF Inv
  <2>2. PICK w, l : w = wire[c] /\ w = wire'[c] /\ l = list[c] /\ l = list'[c]
    BY <1>4
  <2>3. w \in Seq(EventsOf(N, C)) /\ l \in Lists(N) /\ \A x \in N : x.id \in C
    BY <1>1, <2>1, <2>2, KnownIs DEF Inv, TabFits, Holds
  <2>4. \A i \in DOMAIN w : w[i] \in EventsOf(N, C)
    BY <2>3
  <2>5. /\ live'[c] = live[c] \cup {m} /\ link[c] = "in" /\ view[c] = "merged"
        \/ live'[c] = live[c]
    BY <1>4
  <2>6. Holds(c, M, D)'
    <3>1. page[c] \subseteq M /\ live'[c] \subseteq D /\ w \in Seq(EventsOf(M, D)) /\ l \in Lists(M)
      BY <1>1, <1>10, <1>11, <1>15, <2>1, <2>3, <2>5 DEF TabFits, Holds
    <3> QED BY <1>4, <2>1, <2>2, <3>1 DEF TabFits, Holds
  <2>7. Following(c)'
    BY <1>4, <2>1, <2>5 DEF TabFits, Following
  <2>8. (\A i \in DOMAIN wire[c] : TrueDeletion(wire[c][i]))'
    <3>1. ASSUME NEW i \in DOMAIN w PROVE TrueDeletion(w[i])'
      <4>1. PICK f : f = w[i] /\ TrueDeletion(f)
        BY <2>1, <2>2 DEF TabFits
      <4>2. TrueDeletion(f)'
        BY <1>18, <2>4, <4>1
      <4> QED BY <4>1, <4>2 DEF TrueDeletion
    <3> QED BY <2>2, <3>1 DEF TrueDeletion
  <2>9. NoneLost(c)'
    <3> SUFFICES ASSUME c \in covered \ cleared, NEW n \in D, Due(c, n)'
                 PROVE  OnItsWay(c, n)'
      BY <1>4, <1>9, <1>10 DEF NoneLost
    <3>1. CASE n = m
      BY <1>3, <1>12, <1>16, <3>1 DEF OnItsWay, At, Brings
    <3>2. CASE n # m
      <4>1. n \in C /\ Due(c, n)
        BY <1>6, <1>8, <1>10, <3>2 DEF Due, Listed
      <4>2. OnItsWay(c, n)
        BY <1>1, <2>1, <4>1 DEF TabFits, NoneLost
      <4>3. \A j \in Calls : At(j, "broadcast") => call'[j] = call[j]
        BY <1>4, <1>16 DEF At
      <4> QED BY <1>4, <4>2, <4>3 DEF OnItsWay, At
    <3> QED BY <3>1, <3>2
  <2>10. Exact(c)'
    <3> SUFFICES ASSUME NEW n \in live'[c] \ overlapped
                 PROVE  \E R : Reaches(ShownOf(l, n), w, R, n) /\ Current(R, n)'
      BY <1>4, <2>2 DEF Exact
    <3>1. live[c] \subseteq C
      BY <1>1, <2>1 DEF TabFits, Holds
    <3>2. CASE n = m
      <4>1. ShownOf(l, m) = {}
        BY <1>5, <2>3 DEF ShownOf, ToSet, Lists
      <4>2. ASSUME NEW i \in DOMAIN w PROVE AppliedTo({}, w[i], m) = {}
        <5>1. PICK f : f = w[i] /\ f \in EventsOf(N, C)
          BY <2>4
        <5>2. CASE f \in [kind : {"created", "updated"}, copy : N]
          <6>1. f.copy.id # m
            BY <1>5, <2>3, <5>2
          <6> QED BY <5>1, <5>2, <6>1 DEF AppliedTo
        <5>3. CASE f \in [kind : {"deleted"}, id : C]
          BY <5>1, <5>3 DEF AppliedTo
        <5>4. CASE f \in [kind : {"moderated"}, id : C, status : Statuses]
          <6>1. f.id # m
            BY <1>5, <5>4
          <6> QED BY <5>1, <5>4, <6>1 DEF AppliedTo
        <5> QED BY <5>1, <5>2, <5>3, <5>4 DEF EventsOf
      <4>3. Reaches({}, w, {}, m)
        BY <2>3, <4>2, ReachesSame
      <4>4. AppliedTo({}, e, m) = {CopyOf(row)}
        BY <1>3, <1>12 DEF AppliedTo
      <4>5. Truth(m)' = {CopyOf(row)}
        BY <1>7, <1>8 DEF Truth, TruthOf, CopyOf
      <4>6. Current({}, m)'
        BY <1>16, <1>21, <4>4, <4>5 DEF Current
      <4> QED BY <3>2, <4>1, <4>3, <4>6
    <3>3. CASE n # m
      <4>1. n \in live[c] \ overlapped /\ n \in Messages
        BY <1>6, <2>5, <3>1, <3>3
      <4>2. PICK R : Reaches(ShownOf(l, n), w, R, n) /\ Current(R, n)
        BY <2>1, <2>2, <4>1 DEF TabFits, Exact
      <4>3. Truth(n)' = Truth(n)
        BY <1>8, <3>3, <4>1 DEF Truth, TruthOf, CopyOf
      <4>4. Current(R, n)'
        BY <1>21, <3>3, <4>2, <4>3 DEF Current
      <4> QED BY <4>2, <4>4
    <3> QED BY <3>2, <3>3
  <2> QED BY <1>9, <1>10, <2>6, <2>7, <2>8, <2>9, <2>10 DEF TabFits
<1> QED BY <1>13, <1>19, <1>20, <1>22 DEF Inv

\* Nothing changes when nothing happens.
LEMMA StutterKeeps ==
  ASSUME Inv, UNCHANGED vars PROVE Inv'
<1>1. Created' = Created /\ Known' = Known
  BY DEF vars, Created, Known
<1>2. RowsFit' /\ TabForms'
  BY <1>1 DEF Inv, RowsFit, TabForms, vars
<1>3. CallsFit'
  BY <1>1 DEF Inv, CallsFit, At, TrueDeletion, Apart, vars
<1>4. \A c \in Clients : TabFits(c)'
  BY TabSame DEF Inv, vars
<1> QED BY <1>2, <1>3, <1>4 DEF Inv

\* So the invariant holds.
LEMMA Inductive == Spec => []Inv
<1>1. ASSUME Inv, [Next]_vars PROVE Inv'
  <2>1. ASSUME NEW k \in Calls, NEW m \in Messages, NEW op \in Operations \cup {"send"},
               Called(k, op, m)
        PROVE  Inv'
    BY <1>1, <2>1, CalledKeeps
  <2>2. ASSUME NEW k \in Calls, Answered(k) PROVE Inv'
    BY <1>1, <2>2, InsertedKeeps, FoundKeeps, UpdatedKeeps, BroadcastKeeps, QueryFailedKeeps
       DEF Answered
  <2>3. ASSUME NEW c \in Clients,
               \/ WorkspaceOpened(c) \/ RoomLeft(c) \/ RoomJoined(c) \/ ChannelLeft(c)
               \/ ChannelShown(c) \/ ChannelSelectedAgain(c) \/ ChannelCreated(c)
               \/ PageRead(c) \/ PageMerged(c) \/ Delivered(c) \/ ConnectionLost(c)
        PROVE  Inv'
    BY <1>1, <2>3, WorkspaceOpenedKeeps, RoomLeftKeeps, ChannelLeftKeeps,
       ChannelSelectedAgainKeeps, ChannelCreatedKeeps, PageReadKeeps, PageMergedKeeps,
       DeliveredKeeps, ConnectionLostKeeps
  <2>4. CASE ProcessEnded
    BY <1>1, <2>4, ProcessEndedKeeps
  <2>5. CASE UNCHANGED vars
    BY <1>1, <2>5, StutterKeeps
  <2> QED BY <1>1, <2>1, <2>2, <2>3, <2>4, <2>5 DEF Next
<1> QED BY <1>1, Initially, PTL DEF Spec

(***************************************************************************)
(* The theorems.                                                           *)
(***************************************************************************)

\* Every state has rows, operations, events and lists of the declared shape.
THEOREM TypeCorrect == Spec => []TypeOK
<1>1. ASSUME Inv PROVE TypeOK
  <2>1. PICK N, C : N = Known /\ C = Created
    OBVIOUS
  <2>2. N \subseteq Copies /\ C \subseteq Messages
    BY <1>1, <2>1, KnownIs DEF Inv, Places
  <2>3. EventsOf(N, C) \subseteq Events /\ Seq(N) \subseteq Seq(Copies)
    BY <2>2, SeqMonotonic DEF EventsOf, Events
  <2>4. Seq(EventsOf(N, C)) \subseteq Seq(Events)
    BY <2>3, SeqMonotonic
  <2>5. CallsOf(N, C) \subseteq Busy \cup {Idle}
    BY <2>2, <2>3 DEF CallsOf, Busy
  <2>6. call \in [Calls -> Busy \cup {Idle}]
    BY <1>1, <2>1, <2>5 DEF Inv, CallsFit
  <2>7. \A c \in Clients : Holds(c, N, C)
    BY <1>1, <2>1 DEF Inv, TabFits
  <2>8. \A c \in Clients : wire[c] \in Seq(Events) /\ list[c] \in Seq(Copies)
    BY <2>3, <2>4, <2>7 DEF Holds, Lists
  <2>9. /\ link \in [Clients -> {"out", "leaving", "joining", "in"}]
        /\ view \in [Clients -> {"closed", "loading", "read", "merged"}]
        /\ page \in [Clients -> SUBSET Copies]
        /\ live \in [Clients -> SUBSET Messages]
    BY <1>1, <2>2, <2>7 DEF Inv, TabForms, Holds
  <2>10. wire \in [Clients -> Seq(Events)] /\ list \in [Clients -> Seq(Copies)]
    BY <1>1, <2>8 DEF Inv, TabForms
  <2> QED BY <1>1, <2>6, <2>9, <2>10 DEF Inv, RowsFit, TabForms, TypeOK
<1> QED BY <1>1, Inductive, PTL

\* No client shows a message twice, in whatever order the page and the events of
\* the socket reach it (MessageStore.appendMessage and mergeMessages).
THEOREM NeverTwice == Spec => []NoDuplicates
<1>1. ASSUME Inv PROVE NoDuplicates
  BY <1>1 DEF Inv, TabFits, Holds, Lists, Distinct, NoDuplicates
<1> QED BY <1>1, Inductive, PTL

\* A client in the room since its page was read misses none of the messages the
\* page would show it now (WorkspaceContext's page and its socket listeners).
THEOREM NeverMissed == Spec => []NothingMissed
<1>1. ASSUME Inv PROVE NothingMissed
  <2> SUFFICES ASSUME NEW c \in covered \ cleared, view[c] = "merged", NEW m \in Created,
                      Settled(c, m), Listed(c, table[m]),
                      c \in Moderators \/ "approve" \notin Operations
               PROVE  m \in Ids(list[c])
    BY DEF NothingMissed
  <2>1. c \in Clients
    BY <1>1 DEF Inv, TabForms
  <2>2. OnItsWay(c, m)
    BY <1>1, <2>1 DEF Inv, TabFits, NoneLost, Due
  <2>3. DOMAIN wire[c] = {}
    BY DEF Settled
  <2>4. \A k \in Calls : call[k] # Idle => call[k].id # m
    BY DEF Settled, OpsOn
  <2>5. \A k \in Calls : At(k, "broadcast") => ~Brings(call[k].event, m)
    <3>1. \A k \in Calls : At(k, "broadcast") => call[k] # Idle /\ About(call[k].event) = call[k].id
      BY <1>1 DEF Inv, CallsFit, CallsOf, At, Idle
    <3> QED BY <2>4, <3>1 DEF Brings, About
  <2>6. ShownOf(list[c], m) # {}
    BY <2>2, <2>3, <2>5 DEF OnItsWay
  <2> QED BY <2>6 DEF ShownOf, ToSet, Ids
<1> QED BY <1>1, Inductive, PTL

\* A client that was there when a message was created shows, once nothing is on
\* its way, exactly what the database has of it (handlers of message:* events).
THEOREM LiveAlwaysExact == Spec => []LiveCopyExact
<1>1. ASSUME Inv PROVE LiveCopyExact
  <2> SUFFICES ASSUME NEW c \in Clients, NEW m \in live[c] \ overlapped, Settled(c, m)
               PROVE  ShownOf(list[c], m) = Truth(m)
    BY DEF LiveCopyExact, ShownOf, Truth, TruthOf
  <2>1. PICK R : Reaches(ShownOf(list[c], m), wire[c], R, m) /\ Current(R, m)
    BY <1>1 DEF Inv, TabFits, Exact
  <2>2. \A k \in Calls : ~Sending(k, m)
    <3>1. \A k \in Calls : call[k] # Idle => call[k].id # m
      BY DEF Settled, OpsOn
    <3> QED BY <3>1 DEF Sending, At, Idle
  <2>3. wire[c] = <<>>
    BY DEF Settled
  <2>4. R = ShownOf(list[c], m)
    BY <2>1, <2>3, ReachesHere
  <2> QED BY <2>1, <2>2, <2>4 DEF Current
<1> QED BY <1>1, Inductive, PTL
=============================================================================
