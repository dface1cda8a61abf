-------------------------- MODULE NotificationProofs -------------------------
(***************************************************************************)
(* For any number of users, tabs, subjects and handlers: no tab has a      *)
(* notification twice, each has only what is its user's and shows as read  *)
(* only what is, and none misses what was stored while it was there.       *)
(*                                                                         *)
(* A tab's list, its page on the way and its pushes are sequences over the *)
(* rows of its user: O is the set of those rows, R of the rows that may be *)
(* shown as read.  Both only grow, so what is true stays true.             *)
(***************************************************************************)
EXTENDS Notifications, SequenceTheorems, FiniteSetTheorems, TLAPS

-----------------------------------------------------------------------------
(* What a tab may hold: rows of its user, and as read only those that are. *)

GoodRows == {r \in Rows : r.to # r.from}
ItemsIn(O, R) == {x \in [id : O, read : BOOLEAN] : x.read => x.id \in R}
PushesIn(O, R) == {p \in [kind : {"created", "read"}, id : O] : p.kind = "read" => p.id \in R}
Distinct(l) == \A j, k \in DOMAIN l : l[j].id = l[k].id => j = k
ListsIn(O, R) == {l \in Seq(ItemsIn(O, R)) : Distinct(l)}
IdsOf(l) == {l[k].id : k \in DOMAIN l}

\* The order of the numbers, as the library has it.
LEMMA NatOrder == IsWellFoundedOn(OpToRel(<, Nat), Nat)
BY NatLessThanWellFounded

\* Every set of numbers has a least one.
LEMMA HasLeast ==
  ASSUME NEW S \in SUBSET Nat, S # {}
  PROVE  \E m \in S : \A x \in S : m <= x
<1>1. PICK m \in S : \A x \in S : <<x, m>> \notin OpToRel(<, Nat)
  BY NatOrder, WFMin
<1>2. \A x \in S : ~(x < m)
  BY <1>1 DEF OpToRel
<1> QED BY <1>2

\* What holds at 0, and at each number if it does at the one before, holds up to n.
LEMMA UpTo ==
  ASSUME NEW n \in Nat, NEW T \in SUBSET (0..n), 0 \in T,
         \A m \in 1..n : m - 1 \in T => m \in T
  PROVE  T = 0..n
<1> SUFFICES ASSUME (0..n) \ T # {} PROVE FALSE
  OBVIOUS
<1>1. (0..n) \ T \in SUBSET Nat
  OBVIOUS
<1>2. PICK m \in (0..n) \ T : \A x \in (0..n) \ T : m <= x
  BY <1>1, HasLeast
<1>3. m \in 1..n /\ m - 1 \in 0..n /\ ~(m <= m - 1)
  BY <1>2
<1> QED BY <1>2, <1>3

\* s has the numbers of S, the greatest first.
Falling(s, S) ==
  /\ \A x \in S : \E i \in DOMAIN s : s[i] = x
  /\ \A i, j \in DOMAIN s : i < j => s[i] > s[j]

\* Row numbers can be put in order: those from a number on, for one number after the
\* other down to the first.
LEMMA OrderExists ==
  ASSUME NEW K \in Nat, NEW S \in SUBSET (0..K)
  PROVE  IsFiniteSet(S) /\ \E s \in [1..Cardinality(S) -> S] : Falling(s, S)
<1> DEFINE Up(k) == {x \in S : K - x <= k}
           Orders(s, n, U) ==
             /\ IsFiniteSet(U) /\ n \in Nat /\ Cardinality(U) = n
             /\ s \in [1..n -> U] /\ Falling(s, U)
           T == {k \in 0..K : \E s, n : Orders(s, n, Up(k))}
<1>0. \A x \in S : x \in Nat /\ K - x \in 0..K
  OBVIOUS
<1>1. ASSUME NEW U, NEW x \in S, NEW s, NEW n, U \subseteq S, Orders(s, n, U),
             \A y \in U : y > x
      PROVE  \E t : Orders(t, n + 1, U \cup {x})
  <2> DEFINE t == [i \in 1..(n + 1) |-> IF i = n + 1 THEN x ELSE s[i]]
  <2>0. n \in Nat /\ n + 1 \in Nat /\ x \notin U /\ x \in Nat
    BY <1>1
  <2>1. IsFiniteSet(U \cup {x}) /\ Cardinality(U \cup {x}) = n + 1
    BY <1>1, <2>0, FS_AddElement
  <2>2. \A i \in 1..(n + 1) : i = n + 1 \/ i \in 1..n
    BY <2>0
  <2>3. t \in [1..(n + 1) -> U \cup {x}]
    BY <1>1, <2>2
  <2>4. \A y \in U \cup {x} : \E i \in 1..(n + 1) : t[i] = y
    <3>1. n + 1 \in 1..(n + 1) /\ t[n + 1] = x
      BY <2>0
    <3>2. ASSUME NEW y \in U PROVE \E i \in 1..(n + 1) : t[i] = y
      <4>1. PICK i \in 1..n : s[i] = y
        BY <1>1 DEF Falling
      <4>2. i \in 1..(n + 1) /\ i # n + 1
        BY <2>0
      <4> QED BY <4>1, <4>2
    <3> HIDE DEF t
    <3> QED BY <3>1, <3>2
  <2>5. ASSUME NEW i \in 1..(n + 1), NEW j \in 1..(n + 1), i < j PROVE t[i] > t[j]
    <3>1. i \in 1..n /\ i # n + 1
      BY <2>0, <2>5
    <3>2. CASE j = n + 1
      BY <1>1, <3>1, <3>2
    <3>3. CASE j # n + 1
      <4>1. j \in 1..n
        BY <2>2, <3>3
      <4> QED BY <1>1, <2>5, <3>1, <3>3, <4>1 DEF Falling
    <3> QED BY <3>2, <3>3
  <2> HIDE DEF t
  <2>6. DOMAIN t = 1..(n + 1)
    BY <2>3
  <2>7. Orders(t, n + 1, U \cup {x})
    BY <2>0, <2>1, <2>3, <2>4, <2>5, <2>6 DEF Falling
  <2> HIDE DEF Orders
  <2> QED BY <2>7
<1>2. \E s, n : Orders(s, n, {})
  <2>1. IsFiniteSet({}) /\ Cardinality({}) = 0
    BY FS_EmptySet
  <2>2. Orders([i \in 1..0 |-> 0], 0, {})
    BY <2>1 DEF Falling
  <2> HIDE DEF Orders
  <2> QED BY <2>2
<1>3. ASSUME NEW U, NEW V, U \subseteq S, V \subseteq S, \E s, n : Orders(s, n, U),
             V = U \/ \E x \in S : V = U \cup {x} /\ \A y \in U : y > x
      PROVE  \E s, n : Orders(s, n, V)
  <2> HIDE DEF Orders
  <2>1. PICK s, n : Orders(s, n, U)
    BY <1>3
  <2>2. CASE V = U
    BY <2>1, <2>2
  <2>3. ASSUME NEW x \in S, V = U \cup {x}, \A y \in U : y > x
        PROVE  \E t, k : Orders(t, k, V)
    <3>1. \E t : Orders(t, n + 1, U \cup {x})
      BY <1>1, <1>3, <2>1, <2>3
    <3> QED BY <2>3, <3>1
  <2> QED BY <1>3, <2>2, <2>3
<1>4. ASSUME NEW k \in Nat, NEW W \in SUBSET S, \A y \in W : K - y < k, W = {x \in S : K - x < k}
      PROVE  Up(k) = W \/ \E x \in S : Up(k) = W \cup {x} /\ \A y \in W : y > x
  <2>1. CASE \E x \in S : K - x = k
    <3>1. PICK x \in S : K - x = k
      BY <2>1
    <3>2. Up(k) = W \cup {x}
      <4>1. \A y \in S : K - y <= k <=> (K - y < k \/ y = x)
        BY <1>0, <1>4, <3>1
      <4> QED BY <1>4, <4>1
    <3>3. \A y \in W : y > x
      BY <1>0, <1>4, <3>1
    <3> QED BY <3>2, <3>3
  <2>2. CASE ~\E x \in S : K - x = k
    <3>1. \A y \in S : K - y <= k <=> K - y < k
      BY <1>0, <1>4, <2>2
    <3> QED BY <1>4, <3>1
  <2> QED BY <2>1, <2>2
<1> HIDE DEF Orders
<1>5. 0 \in T
  <2>1. Up(0) = {} \/ \E x \in S : Up(0) = {} \cup {x} /\ \A y \in {} : y > x
    <3>1. \A x \in S : ~(K - x < 0)
      BY <1>0
    <3>2. {} = {x \in S : K - x < 0} /\ {} \in SUBSET S
      BY <3>1
    <3>3. 0 \in Nat /\ \A y \in {} : K - y < 0
      OBVIOUS
    <3> HIDE DEF Up
    <3> QED BY <1>4, <3>2, <3>3
  <2>2. \E s, n : Orders(s, n, Up(0))
    <3>1. Up(0) \subseteq S
      OBVIOUS
    <3> HIDE DEF Up
    <3> QED BY <1>2, <1>3, <2>1, <3>1
  <2>3. 0 \in 0..K
    OBVIOUS
  <2> HIDE DEF Up
  <2> QED BY <2>2, <2>3
<1>6. ASSUME NEW k \in 1..K, k - 1 \in T PROVE k \in T
  <2>1. /\ \A y \in Up(k - 1) : K - y < k
        /\ Up(k - 1) = {x \in S : K - x < k}
    <3>1. \A x \in S : K - x <= k - 1 <=> K - x < k
      BY <1>0
    <3> QED BY <3>1
  <2>2. Up(k) = Up(k - 1) \/ \E x \in S : Up(k) = Up(k - 1) \cup {x} /\ \A y \in Up(k - 1) : y > x
    <3>1. k \in Nat /\ Up(k - 1) \in SUBSET S
      OBVIOUS
    <3> HIDE DEF Up
    <3> QED BY <1>4, <2>1, <3>1
  <2>3. \E s, n : Orders(s, n, Up(k - 1))
    BY <1>6
  <2> HIDE DEF Up
  <2>4. Up(k) \subseteq S /\ Up(k - 1) \subseteq S
    BY DEF Up
  <2>5. \E s, n : Orders(s, n, Up(k))
    BY <1>3, <2>2, <2>3, <2>4
  <2> QED BY <2>5
<1>7. T = 0..K
  <2> HIDE DEF T
  <2>1. T \in SUBSET (0..K)
    BY DEF T
  <2> QED BY <1>5, <1>6, <2>1, UpTo
<1>8. Up(K) = S
  <2>1. \A x \in S : K - x <= K
    BY <1>0
  <2> QED BY <2>1
<1>9. PICK s, n : Orders(s, n, S)
  <2> HIDE DEF Up
  <2>1. K \in T
    BY <1>7
  <2>2. \E s, n : Orders(s, n, Up(K))
    BY <2>1
  <2> QED BY <1>8, <2>2
<1> QED BY <1>9 DEF Orders

LEMMA DescendingIs ==
  ASSUME NEW K \in Nat, NEW S \in SUBSET (0..K)
  PROVE  /\ IsFiniteSet(S)
         /\ Descending(S) \in [1..Cardinality(S) -> S] /\ Falling(Descending(S), S)
<1>1. IsFiniteSet(S) /\ \E s \in [1..Cardinality(S) -> S] : Falling(s, S)
  BY OrderExists
<1> QED BY <1>1 DEF Descending, Falling

\* As a sequence: each number of S at one place.
LEMMA DescendingSeq ==
  ASSUME NEW K \in Nat, NEW S \in SUBSET (0..K)
  PROVE  /\ IsFiniteSet(S) /\ Descending(S) \in Seq(S)
         /\ \A i \in S : \E k \in DOMAIN Descending(S) : Descending(S)[k] = i
         /\ \A j, k \in DOMAIN Descending(S) : Descending(S)[j] = Descending(S)[k] => j = k
<1>1. PICK s : s = Descending(S)
  OBVIOUS
<1>2. IsFiniteSet(S) /\ s \in [1..Cardinality(S) -> S] /\ Falling(s, S)
  BY <1>1, DescendingIs
<1>3. Cardinality(S) \in Nat
  BY <1>2, FS_CardinalityType
<1>4. s \in Seq(S)
  BY <1>2, <1>3, SeqDef
<1>5. \A i \in S : \E k \in DOMAIN s : s[k] = i
  BY <1>2 DEF Falling
<1>6. \A j, k \in DOMAIN s : s[j] = s[k] => j = k
  <2> SUFFICES ASSUME NEW j \in 1..Cardinality(S), NEW k \in 1..Cardinality(S), s[j] = s[k], j < k
               PROVE  FALSE
    BY <1>2, <1>3
  <2>1. s[j] > s[k] /\ s[j] \in 0..K
    BY <1>2 DEF Falling
  <2> QED BY <2>1
<1> QED BY <1>1, <1>2, <1>4, <1>5, <1>6

\* createMany writes a row for each recipient.
LEMMA RecipientsInTurn ==
  ASSUME NEW S, IsFiniteSet(S)
  PROVE  /\ Cardinality(S) \in Nat
         /\ \A i \in 1..Cardinality(S) : SetToSeq(S)[i] \in S
<1>1. Cardinality(S) \in Nat /\ ExistsBijection(1..Cardinality(S), S)
  BY FS_CardinalityType
<1>2. \E f \in [1..Cardinality(S) -> S] : IsInjective(f)
  BY <1>1 DEF ExistsBijection, Bijection, Injection, IsInjective
<1>3. SetToSeq(S) \in [1..Cardinality(S) -> S]
  BY <1>2 DEF SetToSeq
<1> QED BY <1>1, <1>3

\* A list stays true when more is read and more is there.
LEMMA ListsGrow ==
  ASSUME NEW O, NEW R, NEW O2, NEW R2, O \subseteq O2, R \subseteq R2
  PROVE  /\ ListsIn(O, R) \subseteq ListsIn(O2, R2)
         /\ Seq(PushesIn(O, R)) \subseteq Seq(PushesIn(O2, R2))
<1>1. ItemsIn(O, R) \subseteq ItemsIn(O2, R2) /\ PushesIn(O, R) \subseteq PushesIn(O2, R2)
  BY DEF ItemsIn, PushesIn
<1>2. ASSUME NEW S, NEW T, S \subseteq T PROVE Seq(S) \subseteq Seq(T)
  BY <1>2
<1> QED BY <1>1, <1>2 DEF ListsIn

LEMMA PrependedIs ==
  ASSUME NEW O, NEW R, NEW l \in ListsIn(O, R), NEW i \in O
  PROVE  Prepended(l, i) \in ListsIn(O, R) /\ IdsOf(Prepended(l, i)) = IdsOf(l) \cup {i}
<1>0. l \in Seq(ItemsIn(O, R)) /\ Distinct(l)
  BY DEF ListsIn
<1>1. CASE \E k \in DOMAIN l : l[k].id = i
  BY <1>0, <1>1 DEF Prepended, IdsOf, ListsIn
<1>2. CASE ~\E k \in DOMAIN l : l[k].id = i
  <2> DEFINE x == [id |-> i, read |-> FALSE]
  <2>1. x \in ItemsIn(O, R) /\ x.id = i
    BY DEF ItemsIn
  <2>2. PICK a : a = <<x>> \o l
    OBVIOUS
  <2>3. Prepended(l, i) = a
    BY <1>2, <2>2 DEF Prepended
  <2> HIDE DEF x
  <2>4. Len(l) \in Nat /\ DOMAIN l = 1..Len(l)
    BY <1>0
  <2>5. /\ a \in Seq(ItemsIn(O, R)) /\ DOMAIN a = 1..(Len(l) + 1) /\ a[1] = x
        /\ \A k \in 2..(Len(l) + 1) : a[k] = l[k - 1]
    BY <1>0, <2>1, <2>2
  <2>6. \A k \in 1..(Len(l) + 1) : k = 1 \/ (k \in 2..(Len(l) + 1) /\ k - 1 \in 1..Len(l))
    BY <2>4
  <2>7. \A k \in 1..Len(l) : k + 1 \in 1..(Len(l) + 1) /\ k + 1 \in 2..(Len(l) + 1) /\ (k + 1) - 1 = k
    BY <2>4
  <2>8. Distinct(a)
    <3> SUFFICES ASSUME NEW j \in 1..(Len(l) + 1), NEW k \in 1..(Len(l) + 1), a[j].id = a[k].id
                 PROVE  j = k
      BY <2>5 DEF Distinct
    <3>1. CASE j = 1 /\ k = 1
      BY <3>1
    <3>2. CASE j = 1 /\ k # 1
      BY <1>2, <2>1, <2>4, <2>5, <2>6, <3>2
    <3>3. CASE j # 1 /\ k = 1
      BY <1>2, <2>1, <2>4, <2>5, <2>6, <3>3
    <3>4. CASE j # 1 /\ k # 1
      <4>1. j - 1 = k - 1
        BY <1>0, <2>4, <2>5, <2>6, <3>4 DEF Distinct
      <4> QED BY <4>1
    <3> QED BY <3>1, <3>2, <3>3, <3>4
  <2>9. IdsOf(a) = IdsOf(l) \cup {i}
    <3>1. ASSUME NEW k \in 1..(Len(l) + 1) PROVE a[k].id \in IdsOf(l) \cup {i}
      BY <2>1, <2>4, <2>5, <2>6 DEF IdsOf
    <3>2. ASSUME NEW k \in 1..Len(l) PROVE \E n \in 1..(Len(l) + 1) : a[n].id = l[k].id
      BY <2>5, <2>7
    <3>3. 1 \in 1..(Len(l) + 1)
      BY <2>4
    <3>4. IdsOf(l) \subseteq IdsOf(a)
      BY <2>4, <2>5, <3>2 DEF IdsOf
    <3>6. i \in IdsOf(a)
      BY <2>1, <2>5, <3>3 DEF IdsOf
    <3>5. IdsOf(a) \subseteq IdsOf(l) \cup {i}
      BY <2>5, <3>1 DEF IdsOf
    <3> QED BY <3>4, <3>5, <3>6
  <2> QED BY <2>3, <2>5, <2>8, <2>9 DEF ListsIn
<1> QED BY <1>1, <1>2

\* One list with other marks of reading.
LEMMA Reread ==
  ASSUME NEW O, NEW R, NEW l \in ListsIn(O, R), NEW a \in [DOMAIN l -> ItemsIn(O, R)],
         \A k \in DOMAIN l : a[k].id = l[k].id
  PROVE  a \in ListsIn(O, R) /\ IdsOf(a) = IdsOf(l)
<1>0. l \in Seq(ItemsIn(O, R)) /\ Distinct(l)
  BY DEF ListsIn
<1>1. Len(l) \in Nat /\ DOMAIN l = 1..Len(l)
  BY <1>0
<1>2. Distinct(a) /\ IdsOf(a) = IdsOf(l)
  BY <1>0, <1>1 DEF Distinct, IdsOf
<1>3. a \in Seq(ItemsIn(O, R))
  BY <1>1, SeqDef
<1> QED BY <1>2, <1>3 DEF ListsIn

LEMMA ReadInIs ==
  ASSUME NEW O, NEW R, NEW l \in ListsIn(O, R), NEW i \in R
  PROVE  ReadIn(l, i) \in ListsIn(O, R) /\ IdsOf(ReadIn(l, i)) = IdsOf(l)
<1>1. l \in Seq(ItemsIn(O, R))
  BY DEF ListsIn
<1>2. \A k \in DOMAIN l : l[k] \in ItemsIn(O, R)
  BY <1>1
<1>3. \A x \in ItemsIn(O, R) : x.id = i =>
        [x EXCEPT !.read = TRUE] \in ItemsIn(O, R) /\ [x EXCEPT !.read = TRUE].id = x.id
  BY DEF ItemsIn
<1>4. PICK a : a = ReadIn(l, i)
  OBVIOUS
<1>5. a \in [DOMAIN l -> ItemsIn(O, R)] /\ \A k \in DOMAIN l : a[k].id = l[k].id
  BY <1>2, <1>3, <1>4 DEF ReadIn
<1>6. a \in ListsIn(O, R) /\ IdsOf(a) = IdsOf(l)
  BY <1>5, Reread
<1> QED BY <1>4, <1>6

LEMMA AllReadIs ==
  ASSUME NEW O, NEW l \in ListsIn(O, O), NEW a, a = [k \in DOMAIN l |-> [l[k] EXCEPT !.read = TRUE]]
  PROVE  a \in ListsIn(O, O) /\ IdsOf(a) = IdsOf(l)
<1>1. l \in Seq(ItemsIn(O, O))
  BY DEF ListsIn
<1>2. \A k \in DOMAIN l : l[k] \in ItemsIn(O, O)
  BY <1>1
<1>3. \A x \in ItemsIn(O, O) :
        [x EXCEPT !.read = TRUE] \in ItemsIn(O, O) /\ [x EXCEPT !.read = TRUE].id = x.id
  BY DEF ItemsIn
<1>5. a \in [DOMAIN l -> ItemsIn(O, O)] /\ \A k \in DOMAIN l : a[k].id = l[k].id
  BY <1>2, <1>3
<1> QED BY <1>5, Reread

\* What is on its way: one more at the end, the first heard, a handler's put behind.
LEMMA OneMore ==
  ASSUME NEW S, NEW w \in Seq(S), NEW x \in S
  PROVE  Append(w, x) \in Seq(S) /\ ToSet(Append(w, x)) = ToSet(w) \cup {x}
<1>1. PICK a : a = Append(w, x)
  OBVIOUS
<1>2. /\ Len(w) \in Nat /\ DOMAIN w = 1..Len(w)
      /\ a \in Seq(S) /\ DOMAIN a = 1..(Len(w) + 1) /\ a[Len(w) + 1] = x
      /\ \A i \in 1..Len(w) : a[i] = w[i]
  BY <1>1
<1>3. /\ \A i \in 1..(Len(w) + 1) : i \in 1..Len(w) \/ i = Len(w) + 1
      /\ \A i \in 1..Len(w) : i \in 1..(Len(w) + 1)
      /\ Len(w) + 1 \in 1..(Len(w) + 1)
  BY <1>2
<1>4. ToSet(a) = ToSet(w) \cup {x}
  BY <1>2, <1>3 DEF ToSet
<1> QED BY <1>1, <1>2, <1>4

LEMMA OneHeard ==
  ASSUME NEW S, NEW w \in Seq(S), w # <<>>
  PROVE  Head(w) \in S /\ Tail(w) \in Seq(S) /\ ToSet(w) = {Head(w)} \cup ToSet(Tail(w))
<1>1. PICK a : a = Tail(w)
  OBVIOUS
<1>2. PICK n \in Nat : n = Len(w) /\ n >= 1
  OBVIOUS
<1>3. /\ DOMAIN w = 1..n /\ Head(w) = w[1] /\ w[1] \in S
      /\ a \in Seq(S) /\ DOMAIN a = 1..(n - 1)
      /\ \A i \in 1..(n - 1) : a[i] = w[i + 1]
  BY <1>1, <1>2
<1>4. /\ \A i \in 1..n : i = 1 \/ (i - 1 \in 1..(n - 1) /\ i = (i - 1) + 1)
      /\ \A i \in 1..(n - 1) : i + 1 \in 1..n
      /\ 1 \in 1..n
  BY <1>2
<1>5. \A i \in 1..n : w[i] \in {w[1]} \cup ToSet(a)
  <2> SUFFICES ASSUME NEW i \in 1..n, i # 1 PROVE w[i] \in ToSet(a)
    OBVIOUS
  <2>1. i - 1 \in 1..(n - 1) /\ a[i - 1] = w[i]
    BY <1>3, <1>4
  <2> QED BY <1>3, <2>1 DEF ToSet
<1>6. \A i \in 1..(n - 1) : a[i] \in ToSet(w)
  BY <1>3, <1>4 DEF ToSet
<1>7. ToSet(w) = {w[1]} \cup ToSet(a)
  <2>1. ToSet(w) \subseteq {w[1]} \cup ToSet(a)
    BY <1>3, <1>5 DEF ToSet
  <2>2. w[1] \in ToSet(w) /\ ToSet(a) \subseteq ToSet(w)
    BY <1>3, <1>4, <1>6 DEF ToSet
  <2> QED BY <2>1, <2>2
<1> QED BY <1>1, <1>3, <1>7

LEMMA Behind ==
  ASSUME NEW S, NEW v \in Seq(S), NEW w \in Seq(S)
  PROVE  v \o w \in Seq(S) /\ ToSet(v \o w) = ToSet(v) \cup ToSet(w)
<1>1. PICK a : a = v \o w
  OBVIOUS
<1>2. PICK m \in Nat, n \in Nat : m = Len(v) /\ n = Len(w)
  OBVIOUS
<1>3. /\ DOMAIN v = 1..m /\ DOMAIN w = 1..n /\ a \in Seq(S) /\ DOMAIN a = 1..(m + n)
      /\ \A i \in 1..m : a[i] = v[i]
      /\ \A i \in (m + 1)..(m + n) : a[i] = w[i - m]
  BY <1>1, <1>2
<1>4. /\ \A i \in 1..(m + n) : i \in 1..m \/ (i \in (m + 1)..(m + n) /\ i - m \in 1..n)
      /\ \A i \in 1..m : i \in 1..(m + n)
      /\ \A i \in 1..n : m + i \in 1..(m + n) /\ m + i \in (m + 1)..(m + n) /\ (m + i) - m = i
  OBVIOUS
<1>5. \A i \in 1..(m + n) : a[i] \in ToSet(v) \cup ToSet(w)
  BY <1>3, <1>4 DEF ToSet
<1>6. \A i \in 1..m : v[i] \in ToSet(a)
  BY <1>3, <1>4 DEF ToSet
<1>7. \A i \in 1..n : w[i] \in ToSet(a)
  <2> TAKE i \in 1..n
  <2>1. m + i \in 1..(m + n) /\ a[m + i] = w[i]
    BY <1>3, <1>4
  <2> QED BY <1>3, <2>1 DEF ToSet
<1>8. ToSet(a) = ToSet(v) \cup ToSet(w)
  <2>1. ToSet(a) \subseteq ToSet(v) \cup ToSet(w)
    BY <1>3, <1>5 DEF ToSet
  <2>2. ToSet(v) \subseteq ToSet(a) /\ ToSet(w) \subseteq ToSet(a)
    BY <1>3, <1>6, <1>7 DEF ToSet
  <2> QED BY <2>1, <2>2
<1> QED BY <1>1, <1>3, <1>8

-----------------------------------------------------------------------------
(* The invariant *)

\* The rows of the user of a tab, those that are read, and those the tab may show as read.
Own(t) == {i \in RowIds : table[i].to = Owner[t]}
ReadRows == {i \in RowIds : table[i].read}
ToldRead(t) == {i \in RowIds : table[i].read \/ Owner[t] \in swept}

\* A handler at work: the actor is no recipient, and nothing is found before it is stored.
Working ==
  {b \in [at : {"store", "find", "push"}, from : Users, to : SUBSET Users,
          about : Subjects, rows : SUBSET Nat] :
     b.from \notin b.to /\ (b.at = "store" => b.rows = {})}
MarksOf ==
  [by : Users, tab : Tabs \cup {Elsewhere}, id : Nat, at : {"sent", "written", "vain", "done"}]

Typed ==
  /\ table \in Seq(GoodRows)
  /\ handler \in [Handlers -> Working \cup {Idle}]
  /\ online \subseteq Tabs
  /\ pushes \in [Tabs -> Seq(PushesIn(Nat, Nat))]
  /\ loading \in [Tabs -> {"closed", "listing", "listed", "counting", "counted", "loaded"}]
  /\ answer \in [Tabs -> [list : Seq(ItemsIn(Nat, Nat)), count : Nat]]
  /\ items \in [Tabs -> Seq(ItemsIn(Nat, Nat))]
  /\ badge \in [Tabs -> Nat]
  /\ marks \subseteq MarksOf
  /\ sweeps \in [Tabs -> {"none", "sent", "written"}]
  /\ due \subseteq Tabs \X Nat

\* What a mark is about: a tab marks what it shows, the row is read once the update is
\* made, and only the update that was made is told to the tabs of the user.
MarkTrue(m) ==
  /\ m.id \in RowIds
  /\ m.tab \in Tabs => m.by = Owner[m.tab] /\ table[m.id].to = m.by
  /\ m.tab \in Tabs /\ m.at # "sent" => table[m.id].read
  /\ m.at = "written" => table[m.id].to = m.by /\ table[m.id].read

RowsStored == \A h \in Handlers : ~At(h, "idle") => handler[h].rows \subseteq RowIds
PushesTrue == \A t \in Tabs : pushes[t] \in Seq(PushesIn(Own(t), ReadRows))
ItemsTrue == \A t \in Tabs : items[t] \in ListsIn(Own(t), ToldRead(t))
AnswersTrue == \A t \in Tabs : answer[t].list \in ListsIn(Own(t), ToldRead(t))
MarksTrue == \A m \in marks : MarkTrue(m)
SweepsTrue == \A t \in Tabs : sweeps[t] # "none" => Owner[t] \in swept
DueTrue == \A p \in due : p[1] \in online /\ p[2] \in Own(p[1]) /\ loading[p[1]] = "loaded"

InboxInv ==
  /\ Typed
  /\ RowsStored /\ PushesTrue /\ ItemsTrue /\ AnswersTrue /\ MarksTrue /\ SweepsTrue /\ DueTrue

\* An event is not repeated while it is handled.
Apart ==
  \A g, h \in Handlers : g # h /\ ~At(g, "idle") /\ ~At(h, "idle") =>
    handler[g].from # handler[h].from \/ handler[g].about # handler[h].about

\* Between createMany and findMany a handler has one row for each recipient, and every
\* later row of the same actor and subject is one of them.
Fresh(h) ==
  /\ IsFiniteSet(handler[h].rows)
  /\ Cardinality(handler[h].rows) = Cardinality(handler[h].to)
  /\ \A i \in handler[h].rows :
       /\ table[i].to \in handler[h].to
       /\ table[i].from = handler[h].from
       /\ table[i].about = handler[h].about
       /\ \A j \in RowIds :
            j > i /\ table[j].from = handler[h].from /\ table[j].about = handler[h].about
              => j \in handler[h].rows
AllFresh == \A h \in Handlers : At(h, "find") => Fresh(h)

\* A row a tab is owed is read, shown, pushed, or held by a handler.
Held(i) == \E h \in Handlers : ~At(h, "idle") /\ i \in handler[h].rows
Created(i) == [kind |-> "created", id |-> i]
Coming(t, i) ==
  \/ i \in ReadRows
  \/ i \in IdsOf(items[t])
  \/ Created(i) \in ToSet(pushes[t])
  \/ Held(i)
AllComing == \A p \in due : Coming(p[1], p[2])

DeliveryInv == Apart /\ AllFresh /\ AllComing

LEMMA RowsAre ==
  ASSUME Typed
  PROVE  /\ RowIds = 1..Len(table) /\ Len(table) \in Nat
         /\ \A i \in RowIds : table[i] \in GoodRows
  BY DEF Typed, RowIds

\* What a page is made of.
LEMMA PageIs ==
  ASSUME Typed, NEW t \in Tabs, NEW d, d = Descending(Own(t)), NEW page,
         page = [k \in DOMAIN d |-> [id |-> d[k], read |-> table[d[k]].read]]
  PROVE  page \in ListsIn(Own(t), ReadRows) /\ IdsOf(page) = Own(t)
<1>1. Len(table) \in Nat /\ Own(t) \in SUBSET (0..Len(table))
  BY RowsAre DEF Own
<1>2. /\ d \in Seq(Own(t))
      /\ \A i \in Own(t) : \E k \in DOMAIN d : d[k] = i
      /\ \A j, k \in DOMAIN d : d[j] = d[k] => j = k
  BY <1>1, DescendingSeq
<1>3. \A i \in Own(t) : [id |-> i, read |-> table[i].read] \in ItemsIn(Own(t), ReadRows)
  BY RowsAre DEF Own, ItemsIn, ReadRows, GoodRows, Rows
<1>4. \A k \in DOMAIN d : d[k] \in Own(t)
  BY <1>2
<1>5. DOMAIN d = 1..Len(d) /\ Len(d) \in Nat
  BY <1>2
<1>6. page \in Seq(ItemsIn(Own(t), ReadRows))
  BY <1>3, <1>4, <1>5
<1>7. DOMAIN page = DOMAIN d /\ \A k \in DOMAIN d : page[k].id = d[k]
  OBVIOUS
<1>8. Distinct(page)
  BY <1>2, <1>7 DEF Distinct
<1>9. IdsOf(page) = Own(t)
  BY <1>2, <1>4, <1>7 DEF IdsOf
<1> QED BY <1>6, <1>8, <1>9 DEF ListsIn

\* What a handler sends to a tab.
LEMMA PushesToIs ==
  ASSUME Typed, NEW t \in Tabs, NEW ids \in SUBSET RowIds
  PROVE  /\ PushesTo(t, ids) \in Seq(PushesIn(Own(t), ReadRows))
         /\ \A i \in ids : t \in online /\ i \in Own(t) => Created(i) \in ToSet(PushesTo(t, ids))
<1> DEFINE mine == {i \in ids : t \in RoomOf(table[i].to)}
<1>1. PICK d : d = Descending(mine)
  OBVIOUS
<1>2. Len(table) \in Nat /\ mine \in SUBSET (0..Len(table))
  BY RowsAre
<1>3. d \in Seq(mine) /\ \A i \in mine : \E k \in DOMAIN d : d[k] = i
  <2> HIDE DEF mine
  <2> QED BY <1>1, <1>2, DescendingSeq
<1>4. PICK p : p = PushesTo(t, ids)
  OBVIOUS
<1>5. p = [k \in DOMAIN d |-> Created(d[k])]
  BY <1>1, <1>4 DEF PushesTo, Created
<1>6. \A i \in mine : Created(i) \in PushesIn(Own(t), ReadRows)
  BY DEF RoomOf, Own, PushesIn, Created
<1>7. \A i \in ids : t \in online /\ i \in Own(t) => i \in mine
  BY DEF RoomOf, Own
<1> HIDE DEF mine
<1>8. DOMAIN d = 1..Len(d) /\ Len(d) \in Nat /\ \A k \in DOMAIN d : d[k] \in mine
  BY <1>3
<1>9. p \in Seq(PushesIn(Own(t), ReadRows))
  BY <1>5, <1>6, <1>8
<1>10. \A i \in mine : Created(i) \in ToSet(p)
  BY <1>3, <1>5 DEF ToSet
<1> QED BY <1>4, <1>7, <1>9, <1>10

-----------------------------------------------------------------------------
(* What the steps that write rows do to the table. *)

LEMMA WorkingIs ==
  ASSUME Typed, NEW h \in Handlers, ~At(h, "idle")
  PROVE  handler[h] \in Working /\ IsFiniteSet(handler[h].to)
<1>1. handler[h] \in Working
  BY DEF Typed, At, Idle
<1>2. handler[h].to \in SUBSET Users
  BY <1>1 DEF Working
<1> QED BY <1>1, <1>2, FS_Subset, NotificationConstants

LEMMA StoredIs ==
  ASSUME Typed, NEW h \in Handlers, Stored(h)
  PROVE  LET n == Cardinality(handler[h].to)
             ids == Len(table) + 1 .. Len(table) + n
         IN  /\ n \in Nat /\ IsFiniteSet(ids) /\ Cardinality(ids) = n
             /\ table' \in Seq(GoodRows) /\ RowIds' = RowIds \cup ids
             /\ \A i \in RowIds : table'[i] = table[i]
             /\ \A i \in ids : /\ table'[i].to \in handler[h].to
                               /\ table'[i].from = handler[h].from
                               /\ table'[i].about = handler[h].about
                               /\ ~table'[i].read
             /\ handler' = [handler EXCEPT ![h].at = "find", ![h].rows = ids]
             /\ due' = due \cup
                  {p \in online \X ids : loading[p[1]] = "loaded" /\ table'[p[2]].to = Owner[p[1]]}
<1>1. handler[h] \in Working /\ IsFiniteSet(handler[h].to)
  BY WorkingIs DEF Stored, At
<1>2. PICK b : b = handler[h]
  OBVIOUS
<1>3. /\ b.from \in Users /\ b.to \in SUBSET Users /\ b.about \in Subjects /\ b.from \notin b.to
      /\ IsFiniteSet(b.to)
  BY <1>1, <1>2 DEF Working
<1>4. PICK n : n = Cardinality(b.to)
  OBVIOUS
<1>5. n \in Nat /\ \A i \in 1..n : SetToSeq(b.to)[i] \in b.to
  BY <1>3, <1>4, RecipientsInTurn
<1>6. PICK m \in Nat : m = Len(table) /\ RowIds = 1..m /\ table \in Seq(GoodRows)
  BY RowsAre DEF Typed
<1>7. PICK new : new = [i \in 1..n |-> [to |-> SetToSeq(b.to)[i], from |-> b.from,
                                       about |-> b.about, read |-> FALSE]]
  OBVIOUS
<1>8. new \in Seq(GoodRows) /\ Len(new) = n /\ DOMAIN new = 1..n
  <2>1. \A i \in 1..n : [to |-> SetToSeq(b.to)[i], from |-> b.from,
                         about |-> b.about, read |-> FALSE] \in GoodRows
    BY <1>3, <1>5 DEF GoodRows, Rows
  <2> QED BY <1>5, <1>7, <2>1
<1>9. /\ \A i \in 1..n : /\ new[i].to \in b.to /\ new[i].from = b.from
                         /\ new[i].about = b.about /\ ~new[i].read
  BY <1>5, <1>7
<1>10. table' = table \o new
  BY <1>2, <1>4, <1>7 DEF Stored
<1>11. PICK T : T = table'
  OBVIOUS
<1>12. /\ T \in Seq(GoodRows) /\ DOMAIN T = 1..(m + n)
       /\ \A i \in 1..m : T[i] = table[i]
       /\ \A i \in (m + 1)..(m + n) : T[i] = new[i - m]
  BY <1>5, <1>6, <1>8, <1>10, <1>11
<1>13. RowIds' = 1..(m + n) /\ 1..(m + n) = 1..m \cup ((m + 1)..(m + n))
  BY <1>5, <1>6, <1>11, <1>12 DEF RowIds
<1>14. \A i \in (m + 1)..(m + n) : i - m \in 1..n
  BY <1>5
<1>15. \A i \in (m + 1)..(m + n) : /\ T[i].to \in b.to /\ T[i].from = b.from
                                   /\ T[i].about = b.about /\ ~T[i].read
  BY <1>9, <1>12, <1>14
<1>16. IsFiniteSet((m + 1)..(m + n)) /\ Cardinality((m + 1)..(m + n)) = n
  <2>1. m + 1 \in Int /\ m + n \in Int
    BY <1>5
  <2>2. /\ IsFiniteSet((m + 1)..(m + n))
        /\ Cardinality((m + 1)..(m + n)) = IF m + 1 > m + n THEN 0 ELSE (m + n) - (m + 1) + 1
    BY <2>1, FS_Interval
  <2> QED BY <1>5, <2>2
<1>17. /\ handler' = [handler EXCEPT ![h].at = "find", ![h].rows = (m + 1)..(m + n)]
       /\ due' = due \cup {p \in online \X ((m + 1)..(m + n)) :
                             loading[p[1]] = "loaded" /\ table'[p[2]].to = Owner[p[1]]}
  <2>1. Len(table) + 1 .. Len(table) + Len(new) = (m + 1)..(m + n)
    BY <1>6, <1>8
  <2> QED BY <1>2, <1>4, <1>7, <2>1 DEF Stored
<1> QED BY <1>2, <1>4, <1>5, <1>6, <1>11, <1>12, <1>13, <1>15, <1>16, <1>17

\* A row that a mark or a sweep writes stays what it was and is read.
LEMMA MarkWrittenIs ==
  ASSUME Typed, NEW m \in marks, MarkWritten(m), m.id \in RowIds
  PROVE  /\ table' \in Seq(GoodRows) /\ RowIds' = RowIds
         /\ \A i \in RowIds : /\ table'[i].to = table[i].to /\ table'[i].from = table[i].from
                              /\ table'[i].about = table[i].about
                              /\ table[i].read => table'[i].read
         /\ table[m.id].to = m.by => table'[m.id].read
<1>1. table \in Seq(GoodRows) /\ \A i \in RowIds : table[i] \in GoodRows
  BY RowsAre DEF Typed
<1>2. CASE m.id \in Unread(m.by)
  <2>1. table' = [table EXCEPT ![m.id].read = TRUE]
    BY <1>2 DEF MarkWritten
  <2>2. PICK T : T = table'
    OBVIOUS
  <2>3. table[m.id] \in [to : Users, from : Users, about : Subjects, read : BOOLEAN]
    BY <1>1 DEF GoodRows, Rows
  <2>4. PICK r : r = [table[m.id] EXCEPT !.read = TRUE]
    OBVIOUS
  <2>5. /\ r \in GoodRows /\ r.to = table[m.id].to /\ r.from = table[m.id].from
        /\ r.about = table[m.id].about /\ r.read
    BY <1>1, <2>3, <2>4 DEF GoodRows, Rows
  <2>6. T = [table EXCEPT ![m.id] = r]
    BY <2>1, <2>2, <2>4
  <2>7. T \in Seq(GoodRows) /\ DOMAIN T = DOMAIN table
    BY <1>1, <2>5, <2>6 DEF RowIds
  <2>8. \A i \in RowIds : T[i] = IF i = m.id THEN r ELSE table[i]
    BY <2>6 DEF RowIds
  <2>9. RowIds' = RowIds
    BY <2>2, <2>7 DEF RowIds
  <2> QED BY <2>2, <2>5, <2>7, <2>8, <2>9
<1>3. CASE m.id \notin Unread(m.by)
  <2>1. table' = table
    BY <1>3 DEF MarkWritten
  <2>2. table[m.id].to = m.by => table[m.id].read
    BY <1>3 DEF Unread
  <2>3. RowIds' = RowIds
    BY <2>1 DEF RowIds
  <2> QED BY <1>1, <2>1, <2>2, <2>3
<1> QED BY <1>2, <1>3

LEMMA SweepWrittenIs ==
  ASSUME Typed, NEW t \in Tabs, SweepWritten(t)
  PROVE  /\ table' \in Seq(GoodRows) /\ RowIds' = RowIds
         /\ \A i \in RowIds : /\ table'[i].to = table[i].to /\ table'[i].from = table[i].from
                              /\ table'[i].about = table[i].about
                              /\ table[i].read => table'[i].read
<1>1. table \in Seq(GoodRows) /\ RowIds = 1..Len(table) /\ Len(table) \in Nat
  BY RowsAre DEF Typed
<1>2. PICK T : T = table'
  OBVIOUS
<1>3. \A r \in GoodRows : LET s == [r EXCEPT !.read = TRUE] IN
        s \in GoodRows /\ s.to = r.to /\ s.from = r.from /\ s.about = r.about /\ s.read
  BY DEF GoodRows, Rows
<1>4. \A i \in RowIds : table[i] \in GoodRows
  BY RowsAre
<1>5. T = [i \in RowIds |-> IF table[i].to = Owner[t] THEN [table[i] EXCEPT !.read = TRUE]
                                                     ELSE table[i]]
  BY <1>2 DEF SweepWritten
<1>6. \A i \in RowIds : /\ T[i] \in GoodRows /\ T[i].to = table[i].to /\ T[i].from = table[i].from
                        /\ T[i].about = table[i].about /\ (table[i].read => T[i].read)
  BY <1>3, <1>4, <1>5
<1>7. T \in [1..Len(table) -> GoodRows]
  BY <1>1, <1>5, <1>6
<1>8. T \in Seq(GoodRows) /\ DOMAIN T = RowIds
  BY <1>1, <1>7, SeqDef
<1>9. RowIds' = RowIds
  BY <1>2, <1>8 DEF RowIds
<1> QED BY <1>2, <1>6, <1>8, <1>9

-----------------------------------------------------------------------------
(* Types *)

LEMMA NewestFound ==
  ASSUME Typed, NEW h \in Handlers, NEW n
  PROVE  NewestOf(n, Matching(h)) \in SUBSET RowIds /\ RowIds \subseteq Nat
  BY RowsAre DEF NewestOf, Matching

LEMMA EmptyIs ==
  ASSUME NEW O, NEW R
  PROVE  <<>> \in ListsIn(O, R) /\ <<>> \in Seq(PushesIn(O, R)) /\ <<>> \in Seq(ItemsIn(O, R))
  BY DEF ListsIn, Distinct

\* A list of a tab and what is pushed to it have the types of the model.
LEMMA InNat ==
  ASSUME Typed, NEW t \in Tabs
  PROVE  /\ ListsIn(Own(t), ToldRead(t)) \subseteq Seq(ItemsIn(Nat, Nat))
         /\ ListsIn(Own(t), ReadRows) \subseteq Seq(ItemsIn(Nat, Nat))
         /\ Seq(PushesIn(Own(t), ReadRows)) \subseteq Seq(PushesIn(Nat, Nat))
<1>1. Own(t) \subseteq Nat /\ ToldRead(t) \subseteq Nat /\ ReadRows \subseteq Nat
  BY RowsAre DEF Own, ToldRead, ReadRows
<1>2. /\ ListsIn(Own(t), ToldRead(t)) \subseteq ListsIn(Nat, Nat)
      /\ ListsIn(Own(t), ReadRows) \subseteq ListsIn(Nat, Nat)
      /\ Seq(PushesIn(Own(t), ReadRows)) \subseteq Seq(PushesIn(Nat, Nat))
  BY <1>1, ListsGrow
<1>3. ListsIn(Nat, Nat) \subseteq Seq(ItemsIn(Nat, Nat))
  BY DEF ListsIn
<1> QED BY <1>2, <1>3

LEMMA UnreadCounted ==
  ASSUME Typed, NEW u
  PROVE  Cardinality(Unread(u)) \in Nat
<1>1. Unread(u) \subseteq 1..Len(table) /\ Len(table) \in Nat
  BY RowsAre DEF Unread
<1>2. IsFiniteSet(1..Len(table))
  BY <1>1, FS_Interval
<1> QED BY <1>1, <1>2, FS_Subset, FS_CardinalityType

\* What a step does to the inbox of a tab keeps its types.
LEMMA TypedInbox ==
  ASSUME InboxInv, NEW t \in Tabs
  PROVE  /\ \A i \in RowIds : ReadIn(items[t], i) \in Seq(ItemsIn(Nat, Nat))
         /\ \A i \in Own(t) : Prepended(items[t], i) \in Seq(ItemsIn(Nat, Nat))
         /\ [k \in DOMAIN items[t] |-> [items[t][k] EXCEPT !.read = TRUE]] \in Seq(ItemsIn(Nat, Nat))
         /\ answer[t].list \in Seq(ItemsIn(Nat, Nat))
         /\ pushes[t] # <<>> => /\ Head(pushes[t]) \in PushesIn(Own(t), ReadRows)
                                /\ Tail(pushes[t]) \in Seq(PushesIn(Own(t), ReadRows))
                                /\ Tail(pushes[t]) \in Seq(PushesIn(Nat, Nat))
<1>0. RowIds \subseteq Nat /\ Own(t) \subseteq Nat /\ ToldRead(t) \subseteq Nat
  BY RowsAre DEF InboxInv, Own, ToldRead
<1>1. items[t] \in ListsIn(Nat, Nat) /\ answer[t].list \in ListsIn(Nat, Nat)
  BY <1>0, ListsGrow DEF InboxInv, ItemsTrue, AnswersTrue
<1>2. PICK l : l = items[t]
  OBVIOUS
<1>3. ListsIn(Nat, Nat) \subseteq Seq(ItemsIn(Nat, Nat))
  BY DEF ListsIn
<1>4. \A i \in Nat : ReadIn(l, i) \in ListsIn(Nat, Nat) /\ Prepended(l, i) \in ListsIn(Nat, Nat)
  BY <1>1, <1>2, ReadInIs, PrependedIs
<1>5. PICK a : a = [k \in DOMAIN l |-> [l[k] EXCEPT !.read = TRUE]]
  OBVIOUS
<1>6. a \in ListsIn(Nat, Nat)
  BY <1>1, <1>2, <1>5, AllReadIs
<1>7. ASSUME pushes[t] # <<>>
      PROVE  /\ Head(pushes[t]) \in PushesIn(Own(t), ReadRows)
             /\ Tail(pushes[t]) \in Seq(PushesIn(Own(t), ReadRows))
             /\ Tail(pushes[t]) \in Seq(PushesIn(Nat, Nat))
  <2>1. pushes[t] \in Seq(PushesIn(Own(t), ReadRows))
    BY DEF InboxInv, PushesTrue
  <2>2. Typed
    BY DEF InboxInv
  <2> QED BY <1>7, <2>1, <2>2, OneHeard, InNat
<1> QED BY <1>0, <1>1, <1>2, <1>3, <1>4, <1>5, <1>6, <1>7

LEMMA TypedStart == InboxInit => Typed
<1> SUFFICES ASSUME InboxInit PROVE Typed
  OBVIOUS
<1>1. <<>> \in Seq(GoodRows) /\ <<>> \in Seq(PushesIn(Nat, Nat)) /\ <<>> \in Seq(ItemsIn(Nat, Nat))
  OBVIOUS
<1> QED BY <1>1 DEF InboxInit, Typed, NoAnswer

LEMMA TypedHandlers ==
  ASSUME InboxInv, NEW h \in Handlers,
         \/ \E from \in Users, to \in SUBSET Users, about \in Subjects : Published(h, from, to, about)
         \/ Stored(h) \/ Found(h) \/ Pushed(h) \/ HandlerFailed(h)
  PROVE  Typed'
<1>0. Typed
  BY DEF InboxInv
<1>1. ASSUME NEW from \in Users, NEW to \in SUBSET Users, NEW about \in Subjects,
             Published(h, from, to, about)
      PROVE  Typed'
  <2>1. [at |-> "store", from |-> from, to |-> Recipients(from, to), about |-> about, rows |-> {}]
          \in Working
    BY DEF Working, Recipients
  <2>2. handler' \in [Handlers -> Working \cup {Idle}]
    BY <1>0, <1>1, <2>1 DEF Typed, Published
  <2> QED BY <1>0, <1>1, <2>2 DEF Typed, Published, tabVars
<1>2. CASE Stored(h)
  <2> DEFINE ids == Len(table) + 1 .. Len(table) + Cardinality(handler[h].to)
  <2>1. /\ table' \in Seq(GoodRows) /\ handler' = [handler EXCEPT ![h].at = "find", ![h].rows = ids]
        /\ due' \subseteq due \cup (online \X ids)
    BY <1>0, <1>2, StoredIs
  <2>2. handler[h] \in Working
    BY <1>0, <1>2, WorkingIs DEF Stored, At
  <2>3. ids \subseteq Nat
    BY <1>0, <1>2, StoredIs, RowsAre
  <2> HIDE DEF ids
  <2>4. PICK b : b = [handler[h] EXCEPT !.at = "find", !.rows = ids]
    OBVIOUS
  <2>5. b \in Working /\ handler' = [handler EXCEPT ![h] = b]
    BY <2>1, <2>2, <2>3, <2>4 DEF Working
  <2>6. handler' \in [Handlers -> Working \cup {Idle}]
    BY <1>0, <2>5 DEF Typed
  <2>7. due' \subseteq Tabs \X Nat
    BY <1>0, <2>1, <2>3 DEF Typed
  <2> QED BY <1>0, <1>2, <2>1, <2>6, <2>7 DEF Typed, Stored, tabVars
<1>3. CASE Found(h)
  <2>1. PICK rows : rows = NewestOf(Cardinality(handler[h].to), Matching(h))
    OBVIOUS
  <2>2. rows \subseteq Nat
    BY <1>0, <2>1, NewestFound
  <2>3. handler[h] \in Working
    BY <1>0, <1>3, WorkingIs DEF Found, At
  <2>4. PICK b : b = [handler[h] EXCEPT !.at = "push", !.rows = rows]
    OBVIOUS
  <2>5. b \in Working /\ handler' = [handler EXCEPT ![h] = b]
    BY <1>3, <2>1, <2>2, <2>3, <2>4 DEF Working, Found
  <2>6. handler' \in [Handlers -> Working \cup {Idle}]
    BY <1>0, <2>5 DEF Typed
  <2> QED BY <1>0, <1>3, <2>6 DEF Typed, Found, tabVars
<1>4. CASE Pushed(h)
  <2>1. handler[h].rows \in SUBSET RowIds
    BY <1>4 DEF Pushed, At, InboxInv, RowsStored
  <2>2. \A t \in Tabs : pushes[t] \o PushesTo(t, handler[h].rows) \in Seq(PushesIn(Nat, Nat))
    <3> SUFFICES ASSUME NEW t \in Tabs
                 PROVE  pushes[t] \o PushesTo(t, handler[h].rows) \in Seq(PushesIn(Nat, Nat))
      OBVIOUS
    <3>1. PICK w : w = PushesTo(t, handler[h].rows)
      OBVIOUS
    <3>2. w \in Seq(PushesIn(Nat, Nat)) /\ pushes[t] \in Seq(PushesIn(Nat, Nat))
      BY <1>0, <2>1, <3>1, PushesToIs, InNat DEF Typed
    <3> QED BY <3>1, <3>2
  <2>3. pushes' \in [Tabs -> Seq(PushesIn(Nat, Nat))]
    BY <1>4, <2>2 DEF Pushed
  <2>4. handler' \in [Handlers -> Working \cup {Idle}]
    BY <1>0, <1>4 DEF Typed, Pushed
  <2> QED BY <1>0, <1>4, <2>3, <2>4 DEF Typed, Pushed, tabVars
<1>5. CASE HandlerFailed(h)
  <2>1. handler' \in [Handlers -> Working \cup {Idle}] /\ due' \subseteq due
    BY <1>0, <1>5 DEF Typed, HandlerFailed
  <2> QED BY <1>0, <1>5, <2>1 DEF Typed, HandlerFailed, tabVars
<1> QED BY <1>1, <1>2, <1>3, <1>4, <1>5

LEMMA TypedTabs ==
  ASSUME InboxInv, NEW t \in Tabs,
         \/ Opened(t) \/ Connected(t) \/ ConnectionLost(t)
         \/ ListRead(t) \/ ListShown(t) \/ CountRead(t) \/ CountShown(t) \/ RefreshFailed(t)
         \/ CreatedHeard(t) \/ ReadHeard(t)
         \/ \E k \in DOMAIN items[t] : MarkClicked(t, k)
         \/ SweepClicked(t) \/ SweepWritten(t) \/ SweepAnswered(t)
  PROVE  Typed'
<1>0. Typed
  BY DEF InboxInv
<1>a. NoAnswer \in [list : Seq(ItemsIn(Nat, Nat)), count : Nat]
  BY DEF NoAnswer
<1>b. \A n \in Nat : OneLess(n) \in Nat
  BY DEF OneLess
<1>1. CASE Opened(t)
  BY <1>0, <1>1 DEF Typed, Opened, rowVars
<1>2. CASE Connected(t)
  BY <1>0, <1>2 DEF Typed, Connected, rowVars, tabVars
<1>3. CASE ConnectionLost(t)
  <2>1. pushes' \in [Tabs -> Seq(PushesIn(Nat, Nat))]
    BY <1>0, <1>3, EmptyIs DEF Typed, ConnectionLost
  <2> QED BY <1>0, <1>3, <2>1 DEF Typed, ConnectionLost, rowVars, tabVars
<1>4. CASE ListRead(t)
  <2>1. PICK d : d = Descending(Own(t))
    OBVIOUS
  <2>2. PICK page : page = [k \in DOMAIN d |-> [id |-> d[k], read |-> table[d[k]].read]]
    OBVIOUS
  <2>3. answer' = [answer EXCEPT ![t].list = page]
    BY <1>4, <2>1, <2>2 DEF ListRead, Own
  <2>4. page \in Seq(ItemsIn(Nat, Nat))
    <3>1. page \in ListsIn(Own(t), ReadRows)
      BY <1>0, <2>1, <2>2, PageIs
    <3> QED BY <1>0, <3>1, InNat
  <2>5. answer' \in [Tabs -> [list : Seq(ItemsIn(Nat, Nat)), count : Nat]]
    BY <1>0, <2>3, <2>4 DEF Typed
  <2>6. loading' = [loading EXCEPT ![t] = "listed"]
    BY <1>4 DEF ListRead
  <2>7. UNCHANGED <<rowVars, online, pushes, items, badge, marks, sweeps, losses, due, swept>>
    BY <1>4 DEF ListRead
  <2> QED BY <1>0, <2>5, <2>6, <2>7 DEF Typed, rowVars
<1>5. CASE ListShown(t)
  <2>1. items' = [items EXCEPT ![t] = answer[t].list] /\ answer[t].list \in Seq(ItemsIn(Nat, Nat))
    BY <1>5, TypedInbox DEF ListShown
  <2>2. items' \in [Tabs -> Seq(ItemsIn(Nat, Nat))]
    BY <1>0, <2>1 DEF Typed
  <2> QED BY <1>0, <1>a, <1>5, <2>2 DEF Typed, ListShown, rowVars
<1>6. CASE CountRead(t)
  <2>1. PICK n \in Nat : n = Cardinality(Unread(Owner[t]))
    BY <1>0, UnreadCounted
  <2>2. answer' = [answer EXCEPT ![t].count = n]
    BY <1>6, <2>1 DEF CountRead
  <2>3. answer' \in [Tabs -> [list : Seq(ItemsIn(Nat, Nat)), count : Nat]]
    BY <1>0, <2>2 DEF Typed
  <2> QED BY <1>0, <1>6, <2>3 DEF Typed, CountRead, rowVars
<1>7. CASE CountShown(t)
  BY <1>0, <1>a, <1>7 DEF Typed, CountShown, rowVars
<1>8. CASE RefreshFailed(t)
  BY <1>0, <1>a, <1>8 DEF Typed, RefreshFailed, rowVars
<1>9. CASE CreatedHeard(t)
  <2>1. PICK p : p = Head(pushes[t])
    OBVIOUS
  <2>2. pushes[t] # <<>>
    BY <1>9 DEF CreatedHeard, PushHeard
  <2>3. p.id \in Own(t) /\ Tail(pushes[t]) \in Seq(PushesIn(Nat, Nat))
    <3>1. p \in PushesIn(Own(t), ReadRows) /\ Tail(pushes[t]) \in Seq(PushesIn(Nat, Nat))
      BY <2>1, <2>2, TypedInbox
    <3> QED BY <3>1 DEF PushesIn
  <2>4. PICK l : l = Prepended(items[t], p.id)
    OBVIOUS
  <2>5. l \in Seq(ItemsIn(Nat, Nat))
    BY <2>3, <2>4, TypedInbox
  <2>6. items' = [items EXCEPT ![t] = l] /\ pushes' = [pushes EXCEPT ![t] = Tail(pushes[t])]
    BY <1>9, <2>1, <2>4 DEF CreatedHeard
  <2>7. /\ items' \in [Tabs -> Seq(ItemsIn(Nat, Nat))]
        /\ pushes' \in [Tabs -> Seq(PushesIn(Nat, Nat))]
    BY <1>0, <2>3, <2>5, <2>6 DEF Typed
  <2>8. badge' = [badge EXCEPT ![t] = badge[t] + 1]
    BY <1>9 DEF CreatedHeard
  <2>9. UNCHANGED <<rowVars, online, loading, answer, marks, sweeps, losses, due, swept>>
    BY <1>9 DEF CreatedHeard
  <2> QED BY <1>0, <2>7, <2>8, <2>9 DEF Typed, rowVars
<1>10. CASE ReadHeard(t)
  <2>1. PICK p : p = Head(pushes[t])
    OBVIOUS
  <2>2. pushes[t] # <<>>
    BY <1>10 DEF ReadHeard, PushHeard
  <2>3. p.id \in RowIds /\ Tail(pushes[t]) \in Seq(PushesIn(Nat, Nat))
    <3>1. p \in PushesIn(Own(t), ReadRows) /\ Tail(pushes[t]) \in Seq(PushesIn(Nat, Nat))
      BY <2>1, <2>2, TypedInbox
    <3> QED BY <3>1 DEF PushesIn, Own
  <2>4. PICK l : l = ReadIn(items[t], p.id)
    OBVIOUS
  <2>5. l \in Seq(ItemsIn(Nat, Nat))
    BY <2>3, <2>4, TypedInbox
  <2>6. items' = [items EXCEPT ![t] = l] /\ pushes' = [pushes EXCEPT ![t] = Tail(pushes[t])]
    BY <1>10, <2>1, <2>4 DEF ReadHeard
  <2>7. /\ items' \in [Tabs -> Seq(ItemsIn(Nat, Nat))]
        /\ pushes' \in [Tabs -> Seq(PushesIn(Nat, Nat))]
    BY <1>0, <2>3, <2>5, <2>6 DEF Typed
  <2>8. badge' = [badge EXCEPT ![t] = OneLess(badge[t])]
    BY <1>10 DEF ReadHeard
  <2>9. UNCHANGED <<rowVars, online, loading, answer, marks, sweeps, losses, due, swept>>
    BY <1>10 DEF ReadHeard
  <2> QED BY <1>0, <1>b, <2>7, <2>8, <2>9 DEF Typed, rowVars
<1>11. ASSUME NEW k \in DOMAIN items[t], MarkClicked(t, k) PROVE Typed'
  <2>1. items[t][k].id \in Nat
    <3>1. items[t] \in Seq(ItemsIn(Nat, Nat))
      BY <1>0 DEF Typed
    <3>2. items[t][k] \in ItemsIn(Nat, Nat)
      BY <3>1
    <3> QED BY <3>2 DEF ItemsIn
  <2>2. Owner[t] \in Users
    BY NotificationConstants
  <2>3. [by |-> Owner[t], tab |-> t, id |-> items[t][k].id, at |-> "sent"] \in MarksOf
    BY <2>1, <2>2 DEF MarksOf
  <2>4. marks' \subseteq MarksOf
    BY <1>0, <1>11, <2>3 DEF Typed, MarkClicked
  <2> QED BY <1>0, <1>11, <2>4 DEF Typed, MarkClicked, rowVars, tabVars
<1>12. CASE SweepClicked(t)
  BY <1>0, <1>12 DEF Typed, SweepClicked, rowVars, tabVars
<1>13. CASE SweepWritten(t)
  <2>1. table' \in Seq(GoodRows)
    BY <1>0, <1>13, SweepWrittenIs
  <2>2. sweeps' \in [Tabs -> {"none", "sent", "written"}]
    BY <1>0, <1>13 DEF Typed, SweepWritten
  <2>3. UNCHANGED <<handler, online, pushes, tabVars, marks, losses, due, swept>>
    BY <1>13 DEF SweepWritten
  <2> QED BY <1>0, <2>1, <2>2, <2>3 DEF Typed, tabVars
<1>14. CASE SweepAnswered(t)
  <2>1. PICK l : l = [k \in DOMAIN items[t] |-> [items[t][k] EXCEPT !.read = TRUE]]
    OBVIOUS
  <2>2. items' = [items EXCEPT ![t] = l]
    BY <1>14, <2>1 DEF SweepAnswered
  <2>3. items' \in [Tabs -> Seq(ItemsIn(Nat, Nat))]
    BY <1>0, <2>1, <2>2, TypedInbox DEF Typed
  <2>4. /\ sweeps' = [sweeps EXCEPT ![t] = "none"] /\ badge' = [badge EXCEPT ![t] = 0]
        /\ UNCHANGED <<rowVars, online, pushes, loading, answer, marks, losses, due, swept>>
    BY <1>14 DEF SweepAnswered
  <2> QED BY <1>0, <2>3, <2>4 DEF Typed, rowVars
<1> QED BY <1>1, <1>2, <1>3, <1>4, <1>5, <1>6, <1>7, <1>8, <1>9, <1>10, <1>11, <1>12, <1>13, <1>14

LEMMA TypedMarks ==
  ASSUME InboxInv, NEW m \in marks, MarkWritten(m) \/ MarkPushed(m) \/ MarkAnswered(m) \/ MarkLost(m)
  PROVE  Typed'
<1>0. Typed /\ m.id \in RowIds /\ m \in MarksOf
  BY DEF InboxInv, MarksTrue, MarkTrue, Typed
<1>1. \A place \in {"written", "vain", "done"} : [m EXCEPT !.at = place] \in MarksOf
  BY <1>0 DEF MarksOf
<1>2. \A place \in {"written", "vain", "done"} : Step(m, place) => marks' \subseteq MarksOf
  BY <1>0, <1>1 DEF Typed, Step
<1>3. CASE MarkWritten(m)
  <2>1. table' \in Seq(GoodRows)
    BY <1>0, <1>3, MarkWrittenIs
  <2>2. marks' \subseteq MarksOf
    BY <1>2, <1>3 DEF MarkWritten
  <2>3. UNCHANGED <<handler, online, pushes, tabVars, sweeps, losses, due, swept>>
    BY <1>3 DEF MarkWritten
  <2> QED BY <1>0, <2>1, <2>2, <2>3 DEF Typed, tabVars
<1>4. CASE MarkPushed(m)
  <2>1. marks' \subseteq MarksOf
    BY <1>2, <1>4 DEF MarkPushed
  <2>2. [kind |-> "read", id |-> m.id] \in PushesIn(Nat, Nat)
    BY <1>0 DEF PushesIn, MarksOf
  <2>3. \A t \in Tabs : /\ pushes[t] \in Seq(PushesIn(Nat, Nat))
                        /\ Append(pushes[t], [kind |-> "read", id |-> m.id]) \in Seq(PushesIn(Nat, Nat))
    BY <1>0, <2>2, OneMore DEF Typed
  <2>4. pushes' \in [Tabs -> Seq(PushesIn(Nat, Nat))]
    <3>1. pushes \in [Tabs -> Seq(PushesIn(Nat, Nat))]
      BY <1>0 DEF Typed
    <3> QED BY <1>4, <2>3, <3>1 DEF MarkPushed
  <2>5. UNCHANGED <<rowVars, online, tabVars, sweeps, losses, due, swept>>
    BY <1>4 DEF MarkPushed
  <2> QED BY <1>0, <2>1, <2>4, <2>5 DEF Typed, rowVars, tabVars
<1>5. CASE MarkAnswered(m)
  <2>1. \A t \in Tabs : items[t] \in Seq(ItemsIn(Nat, Nat)) /\ ReadIn(items[t], m.id) \in Seq(ItemsIn(Nat, Nat))
    BY <1>0, TypedInbox DEF Typed
  <2>2. items' = [t \in Tabs |-> IF t = m.tab THEN ReadIn(items[t], m.id) ELSE items[t]]
    BY <1>5 DEF MarkAnswered
  <2>3. items' \in [Tabs -> Seq(ItemsIn(Nat, Nat))]
    BY <2>1, <2>2
  <2>4. badge' \in [Tabs -> Nat]
    BY <1>0, <1>5 DEF Typed, MarkAnswered, OneLess
  <2>5. marks' \subseteq marks /\ UNCHANGED <<rowVars, online, pushes, loading, answer, sweeps, losses, due, swept>>
    BY <1>5 DEF MarkAnswered
  <2> QED BY <1>0, <2>3, <2>4, <2>5 DEF Typed, rowVars
<1>6. CASE MarkLost(m)
  BY <1>0, <1>6 DEF Typed, MarkLost, rowVars, tabVars
<1> QED BY <1>3, <1>4, <1>5, <1>6

LEMMA TypedStep ==
  ASSUME InboxInv, [InboxNext]_inboxVars
  PROVE  Typed'
<1>0. Typed
  BY DEF InboxInv
<1>1. ASSUME NEW u \in Users, NEW i \in RowIds, MarkedElsewhere(u, i) PROVE Typed'
  <2>1. i \in Nat
    BY <1>0, RowsAre
  <2>2. [by |-> u, tab |-> Elsewhere, id |-> i, at |-> "sent"] \in MarksOf
    BY <2>1 DEF MarksOf
  <2>3. marks' \subseteq MarksOf
    BY <1>0, <1>1, <2>2 DEF Typed, MarkedElsewhere
  <2> QED BY <1>0, <1>1, <2>3 DEF Typed, MarkedElsewhere, rowVars, tabVars
<1>2. CASE UNCHANGED inboxVars
  BY <1>0, <1>2 DEF Typed, inboxVars, rowVars, tabVars
<1>3. CASE InboxNext
  BY <1>1, <1>3, TypedHandlers, TypedTabs, TypedMarks DEF InboxNext
<1> QED BY <1>2, <1>3

-----------------------------------------------------------------------------
(* Which steps change what. *)

HandlerStep(h) ==
  \/ \E from \in Users, to \in SUBSET Users, about \in Subjects : Published(h, from, to, about)
  \/ Stored(h) \/ Found(h) \/ Pushed(h) \/ HandlerFailed(h)
TabStep(t) ==
  \/ Opened(t) \/ Connected(t) \/ ConnectionLost(t)
  \/ ListRead(t) \/ ListShown(t) \/ CountRead(t) \/ CountShown(t) \/ RefreshFailed(t)
  \/ CreatedHeard(t) \/ ReadHeard(t)
  \/ \E k \in DOMAIN items[t] : MarkClicked(t, k)
  \/ SweepClicked(t) \/ SweepWritten(t) \/ SweepAnswered(t)
MarkStep(m) == MarkWritten(m) \/ MarkPushed(m) \/ MarkAnswered(m) \/ MarkLost(m)
Rest == UNCHANGED inboxVars

LEMMA Steps ==
  ASSUME [InboxNext]_inboxVars
  PROVE  \/ \E h \in Handlers : HandlerStep(h)
         \/ \E t \in Tabs : TabStep(t)
         \/ \E u \in Users, i \in RowIds : MarkedElsewhere(u, i)
         \/ \E m \in marks : MarkStep(m)
         \/ Rest
  BY DEF InboxNext, HandlerStep, TabStep, MarkStep, Rest

LEMMA OfHandlers ==
  ASSUME NEW h \in Handlers, HandlerStep(h)
  PROVE  /\ UNCHANGED <<online, tabVars, marks, sweeps, losses, swept>>
         /\ UNCHANGED table \/ Stored(h)
         /\ UNCHANGED pushes \/ Pushed(h)
         /\ UNCHANGED due \/ Stored(h) \/ HandlerFailed(h)
  BY DEF HandlerStep, Published, Stored, Found, Pushed, HandlerFailed

LEMMA OfTabs ==
  ASSUME NEW t \in Tabs, TabStep(t)
  PROVE  /\ UNCHANGED handler
         /\ UNCHANGED table \/ SweepWritten(t)
         /\ UNCHANGED online \/ Connected(t) \/ ConnectionLost(t)
         /\ UNCHANGED pushes \/ ConnectionLost(t) \/ CreatedHeard(t) \/ ReadHeard(t)
         /\ UNCHANGED answer \/ ListRead(t) \/ ListShown(t) \/ CountRead(t) \/ CountShown(t)
              \/ RefreshFailed(t)
         /\ UNCHANGED items \/ ListShown(t) \/ CreatedHeard(t) \/ ReadHeard(t) \/ SweepAnswered(t)
         /\ UNCHANGED marks \/ \E k \in DOMAIN items[t] : MarkClicked(t, k)
         /\ UNCHANGED sweeps \/ SweepClicked(t) \/ SweepWritten(t) \/ SweepAnswered(t)
         /\ UNCHANGED due \/ ConnectionLost(t)
         /\ UNCHANGED swept \/ SweepClicked(t)
         /\ UNCHANGED loading \/ loading[t] # "loaded"
<1>1. CASE Opened(t) \/ Connected(t) \/ ConnectionLost(t)
  BY <1>1 DEF Opened, Connected, ConnectionLost, rowVars, tabVars
<1>2. CASE ListRead(t) \/ ListShown(t) \/ CountRead(t) \/ CountShown(t) \/ RefreshFailed(t)
  BY <1>2 DEF ListRead, ListShown, CountRead, CountShown, RefreshFailed, rowVars
<1>3. CASE CreatedHeard(t) \/ ReadHeard(t)
  BY <1>3 DEF CreatedHeard, ReadHeard, rowVars
<1>4. CASE \E k \in DOMAIN items[t] : MarkClicked(t, k)
  <2>1. UNCHANGED <<rowVars, online, pushes, tabVars, sweeps, losses, due, swept>>
    BY <1>4 DEF MarkClicked
  <2> QED BY <1>4, <2>1 DEF rowVars, tabVars
<1>5. CASE SweepClicked(t) \/ SweepWritten(t) \/ SweepAnswered(t)
  BY <1>5 DEF SweepClicked, SweepWritten, SweepAnswered, rowVars, tabVars
<1> QED BY <1>1, <1>2, <1>3, <1>4, <1>5 DEF TabStep

LEMMA OfMarks ==
  ASSUME NEW m \in marks, MarkStep(m)
  PROVE  /\ UNCHANGED <<handler, online, loading, answer, sweeps, losses, due, swept>>
         /\ UNCHANGED table \/ MarkWritten(m)
         /\ UNCHANGED pushes \/ MarkPushed(m)
         /\ UNCHANGED items \/ MarkAnswered(m)
         /\ UNCHANGED marks \/ (m.at = "sent" /\ MarkWritten(m))
              \/ (m.at \in {"written", "vain"} /\ Step(m, "done")) \/ marks' = marks \ {m}
  BY DEF MarkStep, MarkWritten, MarkPushed, MarkAnswered, MarkLost, rowVars, tabVars

-----------------------------------------------------------------------------
(* What is stored stays, what is read stays read. *)

Grows ==
  /\ RowIds \subseteq RowIds' /\ ReadRows \subseteq ReadRows'
  /\ swept \subseteq swept'
  /\ \A i \in RowIds : /\ table'[i].to = table[i].to /\ table'[i].from = table[i].from
                       /\ table'[i].about = table[i].about

LEMMA TablesGrow ==
  ASSUME InboxInv, [InboxNext]_inboxVars
  PROVE  Grows
<1>0. Typed /\ \A m \in marks : m.id \in RowIds
  BY DEF InboxInv, MarksTrue, MarkTrue
<1>1. ASSUME UNCHANGED table
      PROVE  /\ RowIds \subseteq RowIds' /\ ReadRows \subseteq ReadRows'
             /\ \A i \in RowIds : /\ table'[i].to = table[i].to /\ table'[i].from = table[i].from
                                  /\ table'[i].about = table[i].about
  BY <1>1 DEF RowIds, ReadRows
<1>2. ASSUME NEW h \in Handlers, HandlerStep(h) PROVE Grows
  <2>1. swept' = swept
    BY <1>2, OfHandlers
  <2>2. CASE UNCHANGED table
    BY <1>1, <2>1, <2>2 DEF Grows
  <2>3. CASE Stored(h)
    <3>1. RowIds \subseteq RowIds' /\ \A i \in RowIds : table'[i] = table[i]
      BY <1>0, <2>3, StoredIs
    <3>2. ReadRows \subseteq ReadRows'
      BY <3>1 DEF ReadRows
    <3> QED BY <2>1, <3>1, <3>2 DEF Grows
  <2> QED BY <1>2, <2>2, <2>3, OfHandlers
<1>3. ASSUME NEW t \in Tabs, TabStep(t) PROVE Grows
  <2>1. swept \subseteq swept'
    BY <1>3, OfTabs DEF SweepClicked
  <2>2. CASE UNCHANGED table
    BY <1>1, <2>1, <2>2 DEF Grows
  <2>3. CASE SweepWritten(t)
    <3>1. RowIds' = RowIds
          /\ \A i \in RowIds : /\ table'[i].to = table[i].to /\ table'[i].from = table[i].from
                               /\ table'[i].about = table[i].about
                               /\ table[i].read => table'[i].read
      BY <1>0, <2>3, SweepWrittenIs
    <3>2. ReadRows \subseteq ReadRows'
      BY <3>1 DEF ReadRows
    <3> QED BY <2>1, <3>1, <3>2 DEF Grows
  <2> QED BY <1>3, <2>2, <2>3, OfTabs
<1>4. ASSUME NEW m \in marks, MarkStep(m) PROVE Grows
  <2>1. swept' = swept
    BY <1>4, OfMarks
  <2>2. CASE UNCHANGED table
    BY <1>1, <2>1, <2>2 DEF Grows
  <2>3. CASE MarkWritten(m)
    <3>1. RowIds' = RowIds
          /\ \A i \in RowIds : /\ table'[i].to = table[i].to /\ table'[i].from = table[i].from
                               /\ table'[i].about = table[i].about
                               /\ table[i].read => table'[i].read
      BY <1>0, <2>3, MarkWrittenIs
    <3>2. ReadRows \subseteq ReadRows'
      BY <3>1 DEF ReadRows
    <3> QED BY <2>1, <3>1, <3>2 DEF Grows
  <2> QED BY <1>4, <2>2, <2>3, OfMarks
<1>5. ASSUME NEW u \in Users, NEW i \in RowIds, MarkedElsewhere(u, i) PROVE Grows
  <2>1. UNCHANGED table /\ swept' = swept
    BY <1>5 DEF MarkedElsewhere, rowVars
  <2> QED BY <1>1, <2>1 DEF Grows
<1>6. CASE Rest
  <2>1. UNCHANGED table /\ swept' = swept
    BY <1>6 DEF Rest, inboxVars, rowVars
  <2> QED BY <1>1, <2>1 DEF Grows
<1> QED BY <1>2, <1>3, <1>4, <1>5, <1>6, Steps

\* So what a tab has stays true.
LEMMA StaysTrue ==
  ASSUME Grows, NEW t \in Tabs
  PROVE  /\ Own(t) \subseteq Own(t)' /\ ToldRead(t) \subseteq ToldRead(t)'
         /\ ReadRows \subseteq ToldRead(t) /\ ToldRead(t) \subseteq RowIds
         /\ ListsIn(Own(t), ToldRead(t)) \subseteq ListsIn(Own(t)', ToldRead(t)')
         /\ ListsIn(Own(t), ReadRows) \subseteq ListsIn(Own(t)', ToldRead(t)')
         /\ Seq(PushesIn(Own(t), ReadRows)) \subseteq Seq(PushesIn(Own(t)', ReadRows'))
<1>1. Own(t) \subseteq Own(t)'
  BY DEF Grows, Own
<1>2. \A i \in ReadRows : i \in RowIds' /\ table'[i].read
  BY DEF Grows, ReadRows
<1>3. ToldRead(t) \subseteq ToldRead(t)'
  BY <1>2 DEF Grows, ToldRead, ReadRows
<1>4. ReadRows \subseteq ToldRead(t) /\ ToldRead(t) \subseteq RowIds
  BY DEF ReadRows, ToldRead
<1>5. PICK O, O2, R, R2, U, U2 : /\ O = Own(t) /\ O2 = Own(t)' /\ R = ToldRead(t) /\ R2 = ToldRead(t)'
                                /\ U = ReadRows /\ U2 = ReadRows'
  OBVIOUS
<1>6. O \subseteq O2 /\ R \subseteq R2 /\ U \subseteq U2 /\ U \subseteq R2
  BY <1>1, <1>3, <1>4, <1>5 DEF Grows
<1>7. /\ ListsIn(O, R) \subseteq ListsIn(O2, R2) /\ ListsIn(O, U) \subseteq ListsIn(O2, R2)
      /\ Seq(PushesIn(O, U)) \subseteq Seq(PushesIn(O2, U2))
  BY <1>6, ListsGrow
<1> QED BY <1>1, <1>3, <1>4, <1>5, <1>7

-----------------------------------------------------------------------------
(* Each part of the invariant, through the steps that change what it is about. *)

LEMMA RowsStayStored ==
  ASSUME InboxInv, [InboxNext]_inboxVars, Grows
  PROVE  RowsStored'
<1>0. Typed /\ RowsStored /\ RowIds \subseteq RowIds'
  BY DEF InboxInv, Grows
<1>1. ASSUME UNCHANGED handler PROVE RowsStored'
  BY <1>0, <1>1 DEF RowsStored, At
<1>2. ASSUME NEW h \in Handlers, HandlerStep(h) PROVE RowsStored'
  <2> SUFFICES ASSUME NEW g \in Handlers, handler'[g].at # "idle" PROVE handler'[g].rows \subseteq RowIds'
    BY DEF RowsStored, At
  <2>0. handler \in [Handlers -> Working \cup {Idle}]
    BY <1>0 DEF Typed
  <2>1. CASE g # h
    <3>1. handler'[g] = handler[g]
      BY <1>2, <2>0, <2>1 DEF HandlerStep, Published, Stored, Found, Pushed, HandlerFailed
    <3> QED BY <1>0, <3>1 DEF RowsStored, At
  <2>2. CASE g = h
    <3>1. ASSUME NEW from \in Users, NEW to \in SUBSET Users, NEW about \in Subjects,
                 Published(h, from, to, about)
          PROVE  handler'[g].rows \subseteq RowIds'
      BY <2>0, <2>2, <3>1 DEF Published
    <3>2. CASE Stored(h)
      <4> DEFINE ids == Len(table) + 1 .. Len(table) + Cardinality(handler[h].to)
      <4>1. RowIds' = RowIds \cup ids /\ handler' = [handler EXCEPT ![h].at = "find", ![h].rows = ids]
        BY <1>0, <3>2, StoredIs
      <4>2. handler[h] \in Working
        BY <1>0, <3>2, WorkingIs DEF Stored, At
      <4> HIDE DEF ids
      <4>3. handler'[h].rows = ids
        BY <2>0, <4>1, <4>2 DEF Working
      <4> QED BY <2>2, <4>1, <4>3
    <3>3. CASE Found(h)
      <4>1. PICK rows : rows = NewestOf(Cardinality(handler[h].to), Matching(h))
        OBVIOUS
      <4>2. rows \subseteq RowIds
        BY <1>0, <4>1, NewestFound
      <4>3. handler[h] \in Working /\ handler' = [handler EXCEPT ![h].at = "push", ![h].rows = rows]
        BY <1>0, <3>3, <4>1, WorkingIs DEF Found, At
      <4>4. handler'[h].rows = rows
        BY <2>0, <4>3 DEF Working
      <4> QED BY <1>0, <2>2, <4>2, <4>4
    <3>4. CASE Pushed(h) \/ HandlerFailed(h)
      <4>1. handler'[h] = Idle
        BY <2>0, <3>4 DEF Pushed, HandlerFailed
      <4> QED BY <2>2, <4>1 DEF Idle
    <3> QED BY <1>2, <3>1, <3>2, <3>3, <3>4 DEF HandlerStep
  <2> QED BY <2>1, <2>2
<1>3. CASE Rest
  BY <1>1, <1>3 DEF Rest, inboxVars, rowVars
<1>4. ASSUME NEW u \in Users, NEW i \in RowIds, MarkedElsewhere(u, i) PROVE RowsStored'
  BY <1>1, <1>4 DEF MarkedElsewhere, rowVars
<1> QED BY <1>1, <1>2, <1>3, <1>4, Steps, OfTabs, OfMarks

LEMMA PushesStayTrue ==
  ASSUME InboxInv, [InboxNext]_inboxVars, Grows
  PROVE  PushesTrue'
<1>0. Typed /\ pushes \in [Tabs -> Seq(PushesIn(Nat, Nat))]
  BY DEF InboxInv, Typed
<1> SUFFICES ASSUME NEW s \in Tabs PROVE pushes'[s] \in Seq(PushesIn(Own(s)', ReadRows'))
  BY DEF PushesTrue, Own, ReadRows
<1> DEFINE Now == Seq(PushesIn(Own(s), ReadRows))
<1>1. pushes[s] \in Now /\ Now \subseteq Seq(PushesIn(Own(s)', ReadRows'))
  BY StaysTrue DEF InboxInv, PushesTrue
<1>2. pushes'[s] \in Now => pushes'[s] \in Seq(PushesIn(Own(s)', ReadRows'))
  BY <1>1
<1> HIDE DEF Now
<1>3. ASSUME UNCHANGED pushes PROVE pushes'[s] \in Now
  BY <1>1, <1>3
<1>4. ASSUME NEW h \in Handlers, Pushed(h) PROVE pushes'[s] \in Now
  <2>1. handler[h].rows \in SUBSET RowIds
    BY <1>4 DEF Pushed, At, InboxInv, RowsStored
  <2>2. PICK w : w = PushesTo(s, handler[h].rows)
    OBVIOUS
  <2>3. w \in Now
    BY <1>0, <2>1, <2>2, PushesToIs DEF Now
  <2>4. pushes'[s] = pushes[s] \o w
    BY <1>4, <2>2 DEF Pushed
  <2>5. pushes[s] \o w \in Now
    BY <1>1, <2>3, Behind DEF Now
  <2> QED BY <2>4, <2>5
<1>5. ASSUME NEW t \in Tabs, ConnectionLost(t) PROVE pushes'[s] \in Now
  BY <1>0, <1>1, <1>5, EmptyIs DEF ConnectionLost, Now
<1>6. ASSUME NEW t \in Tabs, CreatedHeard(t) \/ ReadHeard(t) PROVE pushes'[s] \in Now
  <2>1. pushes' = [pushes EXCEPT ![t] = Tail(pushes[t])] /\ pushes[t] # <<>>
    BY <1>6 DEF CreatedHeard, ReadHeard, PushHeard
  <2>2. CASE s = t
    <3>1. Tail(pushes[t]) \in Now
      BY <2>1, <2>2, TypedInbox DEF Now
    <3> QED BY <1>0, <2>1, <2>2, <3>1
  <2>3. CASE s # t
    BY <1>0, <1>1, <2>1, <2>3
  <2> QED BY <2>2, <2>3
<1>7. ASSUME NEW m \in marks, MarkPushed(m) PROVE pushes'[s] \in Now
  <2>1. CASE m.at = "vain" \/ s \notin RoomOf(m.by)
    BY <1>1, <1>7, <2>1 DEF MarkPushed
  <2>2. CASE m.at # "vain" /\ s \in RoomOf(m.by)
    <3>1. m.at = "written" /\ pushes'[s] = Append(pushes[s], [kind |-> "read", id |-> m.id])
      BY <1>7, <2>2 DEF MarkPushed
    <3>2. m.id \in Own(s) /\ m.id \in ReadRows
      BY <2>2, <3>1 DEF InboxInv, MarksTrue, MarkTrue, RoomOf, Own, ReadRows
    <3>3. [kind |-> "read", id |-> m.id] \in PushesIn(Own(s), ReadRows)
      BY <3>2 DEF PushesIn
    <3> QED BY <1>1, <3>1, <3>3, OneMore DEF Now
  <2> QED BY <2>1, <2>2
<1>8. pushes'[s] \in Now
  <2>1. CASE \E h \in Handlers : HandlerStep(h)
    BY <1>3, <1>4, <2>1, OfHandlers
  <2>2. CASE \E t \in Tabs : TabStep(t)
    BY <1>3, <1>5, <1>6, <2>2, OfTabs
  <2>3. CASE \E m \in marks : MarkStep(m)
    BY <1>3, <1>7, <2>3, OfMarks
  <2>4. CASE \E u \in Users, i \in RowIds : MarkedElsewhere(u, i)
    BY <1>3, <2>4 DEF MarkedElsewhere
  <2>5. CASE Rest
    BY <1>3, <2>5 DEF Rest, inboxVars
  <2> QED BY <2>1, <2>2, <2>3, <2>4, <2>5, Steps
<1> QED BY <1>2, <1>8

\* What a step makes of the list of a tab: a true list with the same rows, or with
\* one more of its user; before the page is shown, the page.
LEMMA ItemsBecome ==
  ASSUME InboxInv, [InboxNext]_inboxVars, NEW s \in Tabs
  PROVE  /\ items'[s] \in ListsIn(Own(s), ToldRead(s))
         /\ \/ IdsOf(items[s]) \subseteq IdsOf(items'[s])
            \/ loading[s] = "listed"
         /\ CreatedHeard(s) => Head(pushes[s]).id \in IdsOf(items'[s])
<1>0. Typed /\ items \in [Tabs -> Seq(ItemsIn(Nat, Nat))]
  BY DEF InboxInv, Typed
<1> DEFINE Now == ListsIn(Own(s), ToldRead(s))
           Is == items'[s] \in Now /\ (IdsOf(items[s]) \subseteq IdsOf(items'[s]) \/ loading[s] = "listed")
<1>1. items[s] \in Now
  BY DEF InboxInv, ItemsTrue
<1>a. ToldRead(s) \subseteq RowIds /\ ReadRows \subseteq ToldRead(s)
  BY DEF ToldRead, ReadRows
<1> HIDE DEF Now
<1>2. ASSUME UNCHANGED items PROVE Is
  BY <1>1, <1>2
<1>3. ASSUME NEW t \in Tabs, ListShown(t) PROVE Is
  <2>1. answer[s].list \in Now
    BY DEF InboxInv, AnswersTrue, Now
  <2> QED BY <1>0, <1>1, <1>3, <2>1 DEF ListShown
<1>4. ASSUME NEW t \in Tabs, CreatedHeard(t) PROVE Is /\ (t = s => Head(pushes[s]).id \in IdsOf(items'[s]))
  <2>1. PICK p : p = Head(pushes[t])
    OBVIOUS
  <2>2. pushes[t] # <<>> /\ items' = [items EXCEPT ![t] = Prepended(items[t], p.id)]
    BY <1>4, <2>1 DEF CreatedHeard, PushHeard
  <2>3. CASE t = s
    <3>1. p.id \in Own(s)
      <4>1. p \in PushesIn(Own(s), ReadRows)
        BY <2>1, <2>2, <2>3, TypedInbox
      <4> QED BY <4>1 DEF PushesIn
    <3>2. PICK l : l = Prepended(items[s], p.id)
      OBVIOUS
    <3>3. l \in Now /\ IdsOf(l) = IdsOf(items[s]) \cup {p.id}
      BY <1>1, <3>1, <3>2, PrependedIs DEF Now
    <3>4. items'[s] = l
      BY <1>0, <2>2, <2>3, <3>2
    <3> QED BY <2>1, <2>3, <3>3, <3>4
  <2>4. CASE t # s
    <3>1. items'[s] = items[s]
      BY <1>0, <2>2, <2>4
    <3> QED BY <1>1, <2>4, <3>1
  <2> QED BY <2>3, <2>4
<1>5. ASSUME NEW i \in ToldRead(s), items'[s] = ReadIn(items[s], i) PROVE Is
  BY <1>1, <1>5, ReadInIs DEF Now
<1>6. ASSUME NEW t \in Tabs, ReadHeard(t) PROVE Is
  <2>1. PICK p : p = Head(pushes[t])
    OBVIOUS
  <2>2. pushes[t] # <<>> /\ p.kind = "read" /\ items' = [items EXCEPT ![t] = ReadIn(items[t], p.id)]
    BY <1>6, <2>1 DEF ReadHeard, PushHeard
  <2>3. CASE t = s
    <3>1. p.id \in ReadRows
      <4>1. p \in PushesIn(Own(s), ReadRows)
        BY <2>1, <2>2, <2>3, TypedInbox
      <4> QED BY <2>2, <4>1 DEF PushesIn
    <3>2. items'[s] = ReadIn(items[s], p.id)
      BY <1>0, <2>2, <2>3
    <3> QED BY <1>5, <1>a, <3>1, <3>2
  <2>4. CASE t # s
    <3>1. items'[s] = items[s]
      BY <1>0, <2>2, <2>4
    <3> QED BY <1>1, <2>4, <3>1
  <2> QED BY <2>3, <2>4
<1>7. ASSUME NEW t \in Tabs, SweepAnswered(t) PROVE Is
  <2>1. PICK l : l = [k \in DOMAIN items[t] |-> [items[t][k] EXCEPT !.read = TRUE]]
    OBVIOUS
  <2>2. items' = [items EXCEPT ![t] = l] /\ sweeps[t] = "written"
    BY <1>7, <2>1 DEF SweepAnswered
  <2>3. CASE t = s
    <3>1. Owner[s] \in swept
      BY <2>2, <2>3 DEF InboxInv, SweepsTrue
    <3>2. ToldRead(s) = RowIds
      BY <3>1 DEF ToldRead
    <3>3. Own(s) \subseteq ToldRead(s)
      BY <3>2 DEF Own
    <3>4. items[s] \in ListsIn(Own(s), Own(s))
      BY <1>1 DEF Now, ListsIn, ItemsIn
    <3>5. l \in ListsIn(Own(s), Own(s)) /\ IdsOf(l) = IdsOf(items[s])
      BY <2>1, <2>3, <3>4, AllReadIs
    <3>6. l \in Now
      BY <3>3, <3>5, ListsGrow DEF Now
    <3>7. items'[s] = l
      BY <1>0, <2>2, <2>3
    <3> QED BY <3>5, <3>6, <3>7
  <2>4. CASE t # s
    <3>1. items'[s] = items[s]
      BY <1>0, <2>2, <2>4
    <3> QED BY <1>1, <3>1
  <2> QED BY <2>3, <2>4
<1>8. ASSUME NEW m \in marks, MarkAnswered(m) PROVE Is
  <2>1. CASE m.tab = s
    <3>1. m.at = "done" /\ items'[s] = ReadIn(items[s], m.id)
      BY <1>8, <2>1 DEF MarkAnswered
    <3>2. m.id \in ToldRead(s)
      BY <2>1, <3>1 DEF InboxInv, MarksTrue, MarkTrue, ToldRead
    <3> QED BY <1>5, <3>1, <3>2
  <2>2. CASE m.tab # s
    BY <1>1, <1>8, <2>2 DEF MarkAnswered
  <2> QED BY <2>1, <2>2
<1>9. Is
  <2> HIDE DEF Is
  <2>1. CASE \E h \in Handlers : HandlerStep(h)
    BY <1>2, <2>1, OfHandlers DEF tabVars
  <2>2. CASE \E t \in Tabs : TabStep(t)
    BY <1>2, <1>3, <1>4, <1>6, <1>7, <2>2, OfTabs
  <2>3. CASE \E m \in marks : MarkStep(m)
    BY <1>2, <1>8, <2>3, OfMarks
  <2>4. CASE \E u \in Users, i \in RowIds : MarkedElsewhere(u, i)
    BY <1>2, <2>4 DEF MarkedElsewhere, tabVars
  <2>5. CASE Rest
    BY <1>2, <2>5 DEF Rest, inboxVars, tabVars
  <2> QED BY <2>1, <2>2, <2>3, <2>4, <2>5, Steps
<1> QED BY <1>4, <1>9 DEF Now

LEMMA ItemsStayTrue ==
  ASSUME InboxInv, [InboxNext]_inboxVars, Grows
  PROVE  ItemsTrue'
<1> SUFFICES ASSUME NEW s \in Tabs PROVE items'[s] \in ListsIn(Own(s)', ToldRead(s)')
  BY DEF ItemsTrue, Own, ToldRead
<1>1. items'[s] \in ListsIn(Own(s), ToldRead(s))
  BY ItemsBecome
<1> QED BY <1>1, StaysTrue

LEMMA AnswersStayTrue ==
  ASSUME InboxInv, [InboxNext]_inboxVars, Grows
  PROVE  AnswersTrue'
<1>0. Typed /\ answer \in [Tabs -> [list : Seq(ItemsIn(Nat, Nat)), count : Nat]]
  BY DEF InboxInv, Typed
<1> SUFFICES ASSUME NEW s \in Tabs PROVE answer'[s].list \in ListsIn(Own(s)', ToldRead(s)')
  BY DEF AnswersTrue, Own, ToldRead
<1> DEFINE Now == ListsIn(Own(s), ToldRead(s))
<1>1. answer[s].list \in Now
  BY DEF InboxInv, AnswersTrue
<1>2. Now \subseteq ListsIn(Own(s)', ToldRead(s)') /\ ListsIn(Own(s), ReadRows) \subseteq Now
  <2>1. ReadRows \subseteq ToldRead(s)
    BY DEF ReadRows, ToldRead
  <2> QED BY <2>1, StaysTrue, ListsGrow
<1>3. <<>> \in Now
  BY EmptyIs
<1> HIDE DEF Now
<1>4. ASSUME UNCHANGED answer PROVE answer'[s].list \in Now
  BY <1>1, <1>4
<1>5. ASSUME NEW t \in Tabs, ListRead(t) PROVE answer'[s].list \in Now
  <2>1. PICK d : d = Descending(Own(t))
    OBVIOUS
  <2>2. PICK page : page = [k \in DOMAIN d |-> [id |-> d[k], read |-> table[d[k]].read]]
    OBVIOUS
  <2>3. answer' = [answer EXCEPT ![t].list = page]
    BY <1>5, <2>1, <2>2 DEF ListRead, Own
  <2>4. page \in ListsIn(Own(t), ReadRows)
    BY <1>0, <2>1, <2>2, PageIs
  <2> QED BY <1>0, <1>1, <1>2, <2>3, <2>4
<1>6. ASSUME NEW t \in Tabs, ListShown(t) \/ CountShown(t) \/ RefreshFailed(t)
      PROVE  answer'[s].list \in Now
  BY <1>0, <1>1, <1>3, <1>6 DEF ListShown, CountShown, RefreshFailed, NoAnswer
<1>7. ASSUME NEW t \in Tabs, CountRead(t) PROVE answer'[s].list \in Now
  BY <1>0, <1>1, <1>7 DEF CountRead
<1>8. answer'[s].list \in Now
  <2>1. CASE \E h \in Handlers : HandlerStep(h)
    BY <1>4, <2>1, OfHandlers DEF tabVars
  <2>2. CASE \E t \in Tabs : TabStep(t)
    BY <1>4, <1>5, <1>6, <1>7, <2>2, OfTabs
  <2>3. CASE \E m \in marks : MarkStep(m)
    BY <1>4, <2>3, OfMarks
  <2>4. CASE \E u \in Users, i \in RowIds : MarkedElsewhere(u, i)
    BY <1>4, <2>4 DEF MarkedElsewhere, tabVars
  <2>5. CASE Rest
    BY <1>4, <2>5 DEF Rest, inboxVars, tabVars
  <2> QED BY <2>1, <2>2, <2>3, <2>4, <2>5, Steps
<1> QED BY <1>2, <1>8

LEMMA MarksStayTrue ==
  ASSUME InboxInv, [InboxNext]_inboxVars, Grows
  PROVE  MarksTrue'
<1>0. Typed /\ marks \subseteq MarksOf
  BY DEF InboxInv, Typed
<1>1. \A n \in marks : MarkTrue(n)'
  <2> SUFFICES ASSUME NEW n \in marks PROVE MarkTrue(n)'
    OBVIOUS
  <2>1. MarkTrue(n) /\ n.id \in RowIds
    BY DEF InboxInv, MarksTrue, MarkTrue
  <2>2. n.id \in RowIds' /\ table'[n.id].to = table[n.id].to /\ (table[n.id].read => table'[n.id].read)
    BY <2>1 DEF Grows, ReadRows
  <2> QED BY <2>1, <2>2 DEF MarkTrue
<1>2. ASSUME UNCHANGED marks PROVE MarksTrue'
  BY <1>1, <1>2 DEF MarksTrue
<1>3. ASSUME NEW t \in Tabs, NEW k \in DOMAIN items[t], MarkClicked(t, k) PROVE MarksTrue'
  <2>1. PICK n : n = [by |-> Owner[t], tab |-> t, id |-> items[t][k].id, at |-> "sent"]
    OBVIOUS
  <2>2. items[t][k].id \in Own(t)
    <3>1. items[t] \in Seq(ItemsIn(Own(t), ToldRead(t)))
      BY DEF InboxInv, ItemsTrue, ListsIn
    <3>2. items[t][k] \in ItemsIn(Own(t), ToldRead(t))
      BY <3>1
    <3> QED BY <3>2 DEF ItemsIn
  <2>3. marks' = marks \cup {n} /\ UNCHANGED table
    BY <1>3, <2>1 DEF MarkClicked, rowVars
  <2>4. MarkTrue(n)
    BY <2>1, <2>2 DEF MarkTrue, Own
  <2>5. MarkTrue(n)'
    BY <2>3, <2>4 DEF MarkTrue, RowIds
  <2> QED BY <1>1, <2>3, <2>5 DEF MarksTrue
<1>4. ASSUME NEW u \in Users, NEW i \in RowIds, MarkedElsewhere(u, i) PROVE MarksTrue'
  <2>1. PICK n : n = [by |-> u, tab |-> Elsewhere, id |-> i, at |-> "sent"]
    OBVIOUS
  <2>2. marks' = marks \cup {n} /\ UNCHANGED table
    BY <1>4, <2>1 DEF MarkedElsewhere, rowVars
  <2>3. MarkTrue(n)'
    BY <2>1, <2>2, NotificationConstants DEF MarkTrue, RowIds
  <2> QED BY <1>1, <2>2, <2>3 DEF MarksTrue
<1>5. ASSUME NEW m \in marks, MarkStep(m) PROVE MarksTrue'
  <2>0. MarkTrue(m) /\ m \in MarksOf /\ MarkTrue(m)'
    BY <1>0, <1>1 DEF InboxInv, MarksTrue
  <2>1. ASSUME NEW place \in {"written", "vain", "done"}, Step(m, place),
               MarkTrue([m EXCEPT !.at = place])'
        PROVE  MarksTrue'
    BY <1>1, <2>1 DEF MarksTrue, Step
  <2>2. \A place \in {"written", "vain", "done"} :
          LET n == [m EXCEPT !.at = place]
          IN  n.by = m.by /\ n.tab = m.tab /\ n.id = m.id /\ n.at = place
    BY <2>0 DEF MarksOf
  <2>3. CASE MarkWritten(m) /\ m.at = "sent"
    <3>1. m.id \in RowIds
      BY <2>0 DEF MarkTrue
    <3>2. table[m.id].to = m.by => table'[m.id].read
      BY <1>0, <2>3, <3>1, MarkWrittenIs
    <3>3. CASE m.id \in Unread(m.by)
      <4>1. table[m.id].to = m.by /\ Step(m, "written")
        BY <2>3, <3>3 DEF Unread, MarkWritten
      <4>2. MarkTrue([m EXCEPT !.at = "written"])'
        BY <2>0, <2>2, <3>1, <3>2, <4>1 DEF MarkTrue, Grows
      <4> QED BY <2>1, <4>1, <4>2
    <3>4. CASE m.id \notin Unread(m.by)
      <4>1. MarkTrue([m EXCEPT !.at = "vain"])'
        BY <2>0, <2>2, <3>1, <3>2 DEF MarkTrue, Grows
      <4>2. Step(m, "vain")
        BY <2>3, <3>4 DEF MarkWritten
      <4> QED BY <2>1, <4>1, <4>2
    <3> QED BY <3>3, <3>4
  <2>4. CASE m.at \in {"written", "vain"} /\ Step(m, "done")
    <3>1. MarkTrue([m EXCEPT !.at = "done"])'
      BY <2>0, <2>2, <2>4 DEF MarkTrue
    <3> QED BY <2>1, <2>4, <3>1
  <2>5. CASE marks' = marks \ {m}
    BY <1>1, <2>5 DEF MarksTrue
  <2> QED BY <1>2, <1>5, <2>3, <2>4, <2>5, OfMarks
<1>6. CASE \E h \in Handlers : HandlerStep(h)
  BY <1>2, <1>6, OfHandlers
<1>7. CASE \E t \in Tabs : TabStep(t)
  BY <1>2, <1>3, <1>7, OfTabs
<1>8. CASE Rest
  BY <1>2, <1>8 DEF Rest, inboxVars
<1> QED BY <1>4, <1>5, <1>6, <1>7, <1>8, Steps

LEMMA SweepsStayTrue ==
  ASSUME InboxInv, [InboxNext]_inboxVars, Grows
  PROVE  SweepsTrue'
<1>0. sweeps \in [Tabs -> {"none", "sent", "written"}] /\ SweepsTrue /\ swept \subseteq swept'
  BY DEF InboxInv, Typed, Grows
<1>1. ASSUME UNCHANGED sweeps PROVE SweepsTrue'
  BY <1>0, <1>1 DEF SweepsTrue
<1>2. ASSUME NEW t \in Tabs, SweepClicked(t) \/ SweepWritten(t) \/ SweepAnswered(t) PROVE SweepsTrue'
  BY <1>0, <1>2 DEF SweepsTrue, SweepClicked, SweepWritten, SweepAnswered
<1>3. CASE \E h \in Handlers : HandlerStep(h)
  BY <1>1, <1>3, OfHandlers
<1>4. CASE \E t \in Tabs : TabStep(t)
  BY <1>1, <1>2, <1>4, OfTabs
<1>5. CASE \E m \in marks : MarkStep(m)
  BY <1>1, <1>5, OfMarks
<1>6. CASE \E u \in Users, i \in RowIds : MarkedElsewhere(u, i)
  BY <1>1, <1>6 DEF MarkedElsewhere
<1>7. CASE Rest
  BY <1>1, <1>7 DEF Rest, inboxVars
<1> QED BY <1>3, <1>4, <1>5, <1>6, <1>7, Steps

\* What a tab is owed is what it was there for.
LEMMA DueStaysTrue ==
  ASSUME InboxInv, [InboxNext]_inboxVars, Grows
  PROVE  DueTrue'
<1>0. Typed /\ DueTrue /\ due \subseteq Tabs \X Nat /\ loading \in [Tabs -> {"closed", "listing", "listed", "counting", "counted", "loaded"}]
  BY DEF InboxInv, Typed
<1>1. \A t \in Tabs : Own(t) \subseteq Own(t)'
  BY StaysTrue
<1>2. \A p \in due : p[1] \in Tabs /\ p[1] \in online /\ p[2] \in Own(p[1]) /\ loading[p[1]] = "loaded"
  BY <1>0 DEF DueTrue
<1>3. ASSUME due' \subseteq due, UNCHANGED <<online, loading>> PROVE DueTrue'
  BY <1>1, <1>2, <1>3 DEF DueTrue
<1>4. ASSUME NEW h \in Handlers, HandlerStep(h) PROVE DueTrue'
  <2>1. UNCHANGED <<online, loading>>
    BY <1>4, OfHandlers DEF tabVars
  <2>2. CASE Stored(h)
    <3> DEFINE ids == Len(table) + 1 .. Len(table) + Cardinality(handler[h].to)
    <3>1. RowIds' = RowIds \cup ids /\ due' = due \cup
            {p \in online \X ids : loading[p[1]] = "loaded" /\ table'[p[2]].to = Owner[p[1]]}
      BY <1>0, <2>2, StoredIs
    <3> HIDE DEF ids
    <3>2. \A p \in due' : p \in due \/ (p[1] \in online /\ p[2] \in ids /\ loading[p[1]] = "loaded"
                                          /\ table'[p[2]].to = Owner[p[1]])
      BY <3>1
    <3>3. \A t : \A i \in ids : table'[i].to = Owner[t] => i \in Own(t)'
      BY <3>1 DEF Own
    <3>4. \A p \in due' : p[1] \in online' /\ p[2] \in Own(p[1])' /\ loading'[p[1]] = "loaded"
      BY <1>1, <1>2, <2>1, <3>2, <3>3
    <3> QED BY <3>4 DEF DueTrue
  <2>3. CASE HandlerFailed(h)
    BY <1>3, <2>1, <2>3 DEF HandlerFailed
  <2> QED BY <1>3, <1>4, <2>1, <2>2, <2>3, OfHandlers
<1>5. ASSUME NEW t \in Tabs, TabStep(t) PROVE DueTrue'
  <2>1. CASE ConnectionLost(t)
    <3>1. due' = {p \in due : p[1] # t} /\ online' = online \ {t} /\ UNCHANGED loading
      BY <2>1 DEF ConnectionLost, tabVars
    <3>2. \A p \in due' : p[1] \in online' /\ p[2] \in Own(p[1])' /\ loading'[p[1]] = "loaded"
      BY <1>1, <1>2, <3>1
    <3> QED BY <3>2 DEF DueTrue
  <2>2. CASE ~ConnectionLost(t)
    <3>1. due' = due /\ online \subseteq online'
      BY <1>5, <2>2, OfTabs DEF Connected
    <3>2. \A s \in Tabs : loading[s] = "loaded" => loading'[s] = "loaded"
      <4>1. CASE UNCHANGED loading
        BY <4>1
      <4>2. CASE loading[t] # "loaded"
        <5>1. \A s \in Tabs : s # t => loading'[s] = loading[s]
          BY <1>0, <1>5 DEF TabStep, Opened, Connected, ConnectionLost, ListRead, ListShown, CountRead,
             CountShown, RefreshFailed, CreatedHeard, ReadHeard, MarkClicked, SweepClicked, SweepWritten,
             SweepAnswered, tabVars
        <5> QED BY <4>2, <5>1
      <4> QED BY <1>5, <4>1, <4>2, OfTabs
    <3>3. \A p \in due' : p[1] \in online' /\ p[2] \in Own(p[1])' /\ loading'[p[1]] = "loaded"
      BY <1>1, <1>2, <3>1, <3>2
    <3> QED BY <3>3 DEF DueTrue
  <2> QED BY <2>1, <2>2
<1>6. CASE \E m \in marks : MarkStep(m)
  BY <1>3, <1>6, OfMarks
<1>7. CASE \E u \in Users, i \in RowIds : MarkedElsewhere(u, i)
  BY <1>3, <1>7 DEF MarkedElsewhere, tabVars
<1>8. CASE Rest
  BY <1>3, <1>8 DEF Rest, inboxVars, tabVars
<1> QED BY <1>4, <1>5, <1>6, <1>7, <1>8, Steps

-----------------------------------------------------------------------------
(* The first theorems. *)

LEMMA InboxStart == InboxInit => InboxInv
<1> SUFFICES ASSUME InboxInit PROVE InboxInv
  OBVIOUS
<1>1. Typed
  BY TypedStart
<1>2. \A t \in Tabs : /\ pushes[t] \in Seq(PushesIn(Own(t), ReadRows))
                      /\ items[t] \in ListsIn(Own(t), ToldRead(t))
                      /\ answer[t].list \in ListsIn(Own(t), ToldRead(t))
  BY EmptyIs DEF InboxInit, NoAnswer
<1>3. RowsStored /\ MarksTrue /\ SweepsTrue /\ DueTrue
  BY DEF InboxInit, RowsStored, MarksTrue, SweepsTrue, DueTrue, At, Idle
<1> QED BY <1>1, <1>2, <1>3 DEF InboxInv, PushesTrue, ItemsTrue, AnswersTrue

LEMMA InboxStep == InboxInv /\ [InboxNext]_inboxVars => InboxInv'
<1> SUFFICES ASSUME InboxInv, [InboxNext]_inboxVars PROVE InboxInv'
  OBVIOUS
<1>1. Grows
  BY TablesGrow
<1>2. Typed' /\ RowsStored' /\ PushesTrue' /\ ItemsTrue' /\ AnswersTrue' /\ MarksTrue' /\ SweepsTrue'
        /\ DueTrue'
  BY <1>1, TypedStep, RowsStayStored, PushesStayTrue, ItemsStayTrue, AnswersStayTrue, MarksStayTrue,
     SweepsStayTrue, DueStaysTrue
<1> QED BY <1>2 DEF InboxInv

LEMMA InboxAlways == InboxSpec => []InboxInv
  BY InboxStart, InboxStep, PTL DEF InboxSpec

\* However handlers, pages, pushes, marks and sweeps interleave and connections are lost, with
\* any number of users, tabs and handlers, no notification is in the list of a tab twice:
\* onCreated of NotificationContext looks for the id before it prepends.
THEOREM InboxNeverDouble == InboxSpec => []NoDuplicates
<1>1. ASSUME InboxInv PROVE NoDuplicates
  BY <1>1 DEF InboxInv, ItemsTrue, ListsIn, Distinct, NoDuplicates
<1> QED BY <1>1, InboxAlways, PTL

\* What a tab shows or is sent is a row of its own user and never about what that user did, and
\* until the user marks all as read what is shown as read is read in the database: whatever the
\* order of the updates of markRead, their answers and the pushes to the user's other tabs.
THEOREM InboxAlwaysTrue == InboxSpec => []InboxTrue
<1>1. ASSUME InboxInv, NEW t \in Tabs
      PROVE  /\ \A i \in {items[t][k].id : k \in DOMAIN items[t]}
                        \cup {pushes[t][k].id : k \in DOMAIN pushes[t]} :
                   table[i].to = Owner[t] /\ table[i].from # Owner[t]
             /\ Owner[t] \notin swept => \A k \in DOMAIN items[t] :
                   items[t][k].read => table[items[t][k].id].read
  <2>1. \A i \in Own(t) : table[i].to = Owner[t] /\ table[i].from # Owner[t]
    BY <1>1, RowsAre DEF InboxInv, Own, GoodRows
  <2>2. items[t] \in Seq(ItemsIn(Own(t), ToldRead(t)))
    BY <1>1 DEF InboxInv, ItemsTrue, ListsIn
  <2>3. \A k \in DOMAIN items[t] : items[t][k] \in ItemsIn(Own(t), ToldRead(t))
    BY <2>2
  <2>4. \A k \in DOMAIN items[t] :
          items[t][k].id \in Own(t) /\ (items[t][k].read => items[t][k].id \in ToldRead(t))
    BY <2>3 DEF ItemsIn
  <2>5. pushes[t] \in Seq(PushesIn(Own(t), ReadRows))
    BY <1>1 DEF InboxInv, PushesTrue
  <2>6. \A k \in DOMAIN pushes[t] : pushes[t][k] \in PushesIn(Own(t), ReadRows)
    BY <2>5
  <2>7. \A k \in DOMAIN pushes[t] : pushes[t][k].id \in Own(t)
    BY <2>6 DEF PushesIn
  <2> QED BY <2>1, <2>4, <2>7 DEF ToldRead
<1>2. InboxInv => InboxTrue
  BY <1>1 DEF InboxTrue
<1> QED BY <1>2, InboxAlways, PTL

-----------------------------------------------------------------------------
(* Nothing is missed, when an event is not repeated while it is handled. *)

LEMMA OthersKeep ==
  ASSUME Typed, NEW h \in Handlers, HandlerStep(h), NEW g \in Handlers, g # h
  PROVE  handler'[g] = handler[g]
<1>1. handler \in [Handlers -> Working \cup {Idle}]
  BY DEF Typed
<1> QED BY <1>1 DEF HandlerStep, Published, Stored, Found, Pushed, HandlerFailed

\* A handler that goes on is still about the same.
LEMMA GoesOn ==
  ASSUME Typed, NEW h \in Handlers, Stored(h) \/ Found(h) \/ Pushed(h) \/ HandlerFailed(h),
         handler'[h].at # "idle"
  PROVE  /\ ~At(h, "idle") /\ (Stored(h) \/ Found(h))
         /\ handler'[h].from = handler[h].from /\ handler'[h].about = handler[h].about
         /\ handler'[h].to = handler[h].to
<1>1. handler \in [Handlers -> Working \cup {Idle}]
  BY DEF Typed
<1>2. ~At(h, "idle")
  BY DEF Stored, Found, Pushed, HandlerFailed, At
<1>3. handler[h] \in Working
  BY <1>2, WorkingIs
<1>4. Stored(h) \/ Found(h)
  <2>1. ASSUME Pushed(h) \/ HandlerFailed(h) PROVE FALSE
    <3>1. handler'[h] = Idle
      BY <1>1, <2>1 DEF Pushed, HandlerFailed
    <3> QED BY <3>1 DEF Idle
  <2> QED BY <2>1
<1>5. handler' = [handler EXCEPT ![h].at = handler'[h].at, ![h].rows = handler'[h].rows]
  <2>1. CASE Stored(h)
    <3>1. PICK ids : handler' = [handler EXCEPT ![h].at = "find", ![h].rows = ids]
      BY <2>1, StoredIs
    <3>2. handler'[h].at = "find" /\ handler'[h].rows = ids
      BY <1>1, <1>3, <3>1 DEF Working
    <3> QED BY <3>1, <3>2
  <2>2. CASE Found(h)
    <3>1. PICK ids : handler' = [handler EXCEPT ![h].at = "push", ![h].rows = ids]
      BY <2>2 DEF Found
    <3>2. handler'[h].at = "push" /\ handler'[h].rows = ids
      BY <1>1, <1>3, <3>1 DEF Working
    <3> QED BY <3>1, <3>2
  <2> QED BY <1>4, <2>1, <2>2
<1>6. PICK b : b = handler'[h]
  OBVIOUS
<1>7. b = [handler[h] EXCEPT !.at = b.at, !.rows = b.rows]
  BY <1>1, <1>5, <1>6
<1>8. b.from = handler[h].from /\ b.about = handler[h].about /\ b.to = handler[h].to
  BY <1>3, <1>7 DEF Working
<1> QED BY <1>2, <1>4, <1>6, <1>8

LEMMA StayApart ==
  ASSUME InboxInv, Apart, ~Repeats, [InboxNext]_inboxVars
  PROVE  Apart'
<1>0. Typed
  BY DEF InboxInv
<1>1. ASSUME UNCHANGED handler PROVE Apart'
  BY <1>1 DEF Apart, At
<1>2. ASSUME NEW h \in Handlers, HandlerStep(h) PROVE Apart'
  <2>1. ASSUME NEW g \in Handlers, g # h, handler'[g].at # "idle", handler'[h].at # "idle"
        PROVE  handler'[g].from # handler'[h].from \/ handler'[g].about # handler'[h].about
    <3>0. handler'[g] = handler[g] /\ ~At(g, "idle")
      BY <1>0, <1>2, <2>1, OthersKeep DEF At
    <3>1. ASSUME NEW from \in Users, NEW to \in SUBSET Users, NEW about \in Subjects,
                 Published(h, from, to, about)
          PROVE  handler'[g].from # handler'[h].from \/ handler'[g].about # handler'[h].about
      <4>1. handler \in [Handlers -> Working \cup {Idle}]
        BY <1>0 DEF Typed
      <4>2. handler'[h].from = from /\ handler'[h].about = about
        BY <3>1, <4>1 DEF Published
      <4>3. handler[g].from # from \/ handler[g].about # about
        BY <3>0, <3>1 DEF Published
      <4> QED BY <3>0, <4>2, <4>3
    <3>2. CASE Stored(h) \/ Found(h) \/ Pushed(h) \/ HandlerFailed(h)
      <4>1. /\ ~At(h, "idle") /\ handler'[h].from = handler[h].from
            /\ handler'[h].about = handler[h].about
        BY <1>0, <2>1, <3>2, GoesOn
      <4> QED BY <2>1, <3>0, <4>1 DEF Apart
    <3> QED BY <1>2, <3>1, <3>2 DEF HandlerStep
  <2>2. ASSUME NEW f \in Handlers, NEW g \in Handlers, f # h, g # h, f # g,
               handler'[f].at # "idle", handler'[g].at # "idle"
        PROVE  handler'[f].from # handler'[g].from \/ handler'[f].about # handler'[g].about
    <3>1. handler'[f] = handler[f] /\ handler'[g] = handler[g]
      BY <1>0, <1>2, <2>2, OthersKeep
    <3> QED BY <2>2, <3>1 DEF Apart, At
  <2>3. ASSUME NEW f \in Handlers, NEW g \in Handlers, f # g,
               handler'[f].at # "idle", handler'[g].at # "idle"
        PROVE  handler'[f].from # handler'[g].from \/ handler'[f].about # handler'[g].about
    <3>1. CASE f = h
      BY <2>1, <2>3, <3>1
    <3>2. CASE g = h
      BY <2>1, <2>3, <3>2
    <3>3. CASE f # h /\ g # h
      BY <2>2, <2>3, <3>3
    <3> QED BY <3>1, <3>2, <3>3
  <2> QED BY <2>3 DEF Apart, At
<1>3. CASE Rest
  BY <1>1, <1>3 DEF Rest, inboxVars, rowVars
<1>4. ASSUME NEW u \in Users, NEW i \in RowIds, MarkedElsewhere(u, i) PROVE Apart'
  BY <1>1, <1>4 DEF MarkedElsewhere, rowVars
<1> QED BY <1>1, <1>2, <1>3, <1>4, Steps, OfTabs, OfMarks

\* Only createMany adds rows.
LEMMA OnlyStoredAdds ==
  ASSUME InboxInv, [InboxNext]_inboxVars
  PROVE  (RowIds' = RowIds) \/ \E h \in Handlers : Stored(h)
<1>0. Typed /\ \A m \in marks : m.id \in RowIds
  BY DEF InboxInv, MarksTrue, MarkTrue
<1>1. UNCHANGED table => RowIds' = RowIds
  BY DEF RowIds
<1>2. CASE \E h \in Handlers : HandlerStep(h)
  BY <1>1, <1>2, OfHandlers
<1>3. CASE \E t \in Tabs : TabStep(t)
  BY <1>0, <1>1, <1>3, OfTabs, SweepWrittenIs
<1>4. CASE \E m \in marks : MarkStep(m)
  BY <1>0, <1>1, <1>4, OfMarks, MarkWrittenIs
<1>5. CASE \E u \in Users, i \in RowIds : MarkedElsewhere(u, i)
  BY <1>1, <1>5 DEF MarkedElsewhere, rowVars
<1>6. CASE Rest
  BY <1>1, <1>6 DEF Rest, inboxVars, rowVars
<1> QED BY <1>2, <1>3, <1>4, <1>5, <1>6, Steps

\* Rows that are added are about something else than what another handler handles.
LEMMA StayFresh ==
  ASSUME InboxInv, Apart, AllFresh, [InboxNext]_inboxVars, Grows
  PROVE  AllFresh'
<1>0. Typed
  BY DEF InboxInv
<1>1. ASSUME NEW g \in Handlers, At(g, "find"), handler'[g] = handler[g],
             \A j \in RowIds' \ RowIds :
               table'[j].from # handler[g].from \/ table'[j].about # handler[g].about
      PROVE  Fresh(g)'
  <2>1. PICK b : b = handler[g]
    OBVIOUS
  <2>2. /\ IsFiniteSet(b.rows) /\ Cardinality(b.rows) = Cardinality(b.to) /\ b.rows \subseteq RowIds
        /\ \A i \in b.rows :
             /\ table[i].to \in b.to /\ table[i].from = b.from /\ table[i].about = b.about
             /\ \A j \in RowIds : j > i /\ table[j].from = b.from /\ table[j].about = b.about => j \in b.rows
    BY <1>1, <2>1 DEF AllFresh, Fresh, InboxInv, RowsStored, At
  <2>3. \A i \in b.rows :
             /\ table'[i].to \in b.to /\ table'[i].from = b.from /\ table'[i].about = b.about
             /\ \A j \in RowIds' : j > i /\ table'[j].from = b.from /\ table'[j].about = b.about => j \in b.rows
    BY <1>1, <2>1, <2>2 DEF Grows
  <2>4. handler'[g] = b
    BY <1>1, <2>1
  <2> QED BY <2>2, <2>3, <2>4 DEF Fresh
<1>2. ASSUME UNCHANGED handler, RowIds' = RowIds PROVE AllFresh'
  BY <1>1, <1>2 DEF AllFresh, At
<1>3. ASSUME NEW h \in Handlers, HandlerStep(h) PROVE AllFresh'
  <2> SUFFICES ASSUME NEW g \in Handlers, handler'[g].at = "find" PROVE Fresh(g)'
    BY DEF AllFresh, At
  <2>1. CASE g # h
    <3>1. handler'[g] = handler[g]
      BY <1>0, <1>3, <2>1, OthersKeep
    <3>2. At(g, "find") /\ ~At(g, "idle")
      BY <3>1 DEF At
    <3>3. ASSUME NEW j \in RowIds' \ RowIds
          PROVE  table'[j].from # handler[g].from \/ table'[j].about # handler[g].about
      <4>1. CASE Stored(h)
        <5>1. table'[j].from = handler[h].from /\ table'[j].about = handler[h].about
          BY <1>0, <3>3, <4>1, StoredIs
        <5>2. ~At(h, "idle")
          BY <4>1 DEF Stored, At
        <5> QED BY <2>1, <3>2, <5>1, <5>2 DEF Apart
      <4>2. CASE UNCHANGED table
        BY <3>3, <4>2 DEF RowIds
      <4> QED BY <1>3, <4>1, <4>2, OfHandlers
    <3> QED BY <1>1, <3>1, <3>2, <3>3
  <2>2. CASE g = h
    <3>1. Stored(h)
      <4>1. handler \in [Handlers -> Working \cup {Idle}]
        BY <1>0 DEF Typed
      <4>2. CASE Found(h)
        <5>1. PICK ids : handler' = [handler EXCEPT ![h].at = "push", ![h].rows = ids]
          BY <4>2 DEF Found
        <5>2. handler[h] \in Working
          BY <1>0, <4>2, WorkingIs DEF Found, At
        <5>3. handler'[h].at = "push"
          BY <4>1, <5>1, <5>2 DEF Working
        <5> QED BY <2>2, <5>3
      <4>3. ASSUME NEW from \in Users, NEW to \in SUBSET Users, NEW about \in Subjects,
                   Published(h, from, to, about)
            PROVE  FALSE
        BY <2>2, <4>1, <4>3 DEF Published
      <4>4. CASE Pushed(h) \/ HandlerFailed(h)
        <5>1. handler'[h] = Idle
          BY <4>1, <4>4 DEF Pushed, HandlerFailed
        <5> QED BY <2>2, <5>1 DEF Idle
      <4> QED BY <1>3, <4>2, <4>3, <4>4 DEF HandlerStep
    <3> DEFINE n == Cardinality(handler[h].to)
               ids == Len(table) + 1 .. Len(table) + n
    <3>2. /\ IsFiniteSet(ids) /\ Cardinality(ids) = n /\ n \in Nat
          /\ RowIds' = RowIds \cup ids
          /\ \A i \in ids : /\ table'[i].to \in handler[h].to
                            /\ table'[i].from = handler[h].from
                            /\ table'[i].about = handler[h].about
          /\ handler' = [handler EXCEPT ![h].at = "find", ![h].rows = ids]
      BY <1>0, <3>1, StoredIs
    <3>3. \A i \in ids : \A j \in RowIds : ~(j > i)
      BY <1>0, <3>2, RowsAre
    <3> HIDE DEF n, ids
    <3>4. handler[h] \in Working /\ handler \in [Handlers -> Working \cup {Idle}]
      BY <1>0, <3>1, WorkingIs DEF Stored, At, Typed
    <3>5. PICK b : b = handler'[h]
      OBVIOUS
    <3>6. /\ b.rows = ids /\ b.to = handler[h].to /\ b.from = handler[h].from
          /\ b.about = handler[h].about
      BY <3>2, <3>4, <3>5 DEF Working
    <3>7. IsFiniteSet(b.rows) /\ Cardinality(b.rows) = Cardinality(b.to)
      BY <3>2, <3>6 DEF n
    <3>8. \A i \in b.rows : /\ table'[i].to \in b.to /\ table'[i].from = b.from /\ table'[i].about = b.about
                            /\ \A j \in RowIds' : j > i => j \in b.rows
      BY <3>2, <3>3, <3>6
    <3> QED BY <2>2, <3>5, <3>7, <3>8 DEF Fresh
  <2> QED BY <2>1, <2>2
<1>4. CASE ~\E h \in Handlers : HandlerStep(h)
  <2>1. UNCHANGED handler
    <3>1. CASE \E u \in Users, i \in RowIds : MarkedElsewhere(u, i)
      BY <3>1 DEF MarkedElsewhere, rowVars
    <3>2. CASE Rest
      BY <3>2 DEF Rest, inboxVars, rowVars
    <3> QED BY <1>4, <3>1, <3>2, Steps, OfTabs, OfMarks
  <2>2. RowIds' = RowIds
    BY <1>4, OnlyStoredAdds DEF HandlerStep
  <2> QED BY <1>2, <2>1, <2>2
<1> QED BY <1>3, <1>4

\* findMany finds what the handler stored, unless it has been read meanwhile: what matches
\* and is newer than one of the handler's rows is one of them.
LEMMA FindsItsRows ==
  ASSUME Typed, NEW h \in Handlers, Fresh(h), handler[h].rows \subseteq RowIds,
         NEW i \in handler[h].rows, ~table[i].read
  PROVE  i \in NewestOf(Cardinality(handler[h].to), Matching(h))
<1>1. PICK b : b = handler[h]
  OBVIOUS
<1>2. i \in Matching(h)
  BY DEF Fresh, Matching
<1>3. PICK M : M = {j \in Matching(h) : j > i}
  OBVIOUS
<1>4. M \subseteq b.rows \ {i}
  <2>1. \A j \in M : j \in RowIds /\ j > i /\ table[j].from = b.from /\ table[j].about = b.about
    BY <1>1, <1>3 DEF Matching
  <2>2. \A j \in M : j \in b.rows
    BY <1>1, <2>1 DEF Fresh
  <2>3. \A j \in M : j # i
    BY <2>1, RowsAre
  <2> QED BY <2>2, <2>3
<1>5. /\ IsFiniteSet(b.rows) /\ Cardinality(b.rows) = Cardinality(b.to) /\ i \in b.rows
  BY <1>1 DEF Fresh
<1>6. Cardinality(b.rows) \in Nat
  BY <1>5, FS_CardinalityType
<1>7. IsFiniteSet(b.rows \ {i}) /\ Cardinality(b.rows \ {i}) = Cardinality(b.rows) - 1
  BY <1>5, FS_RemoveElement
<1>8. Cardinality(M) <= Cardinality(b.rows \ {i}) /\ Cardinality(M) \in Nat
  BY <1>4, <1>7, FS_Subset, FS_CardinalityType
<1>9. Cardinality(M) < Cardinality(b.to)
  BY <1>5, <1>6, <1>7, <1>8
<1> QED BY <1>1, <1>2, <1>3, <1>9 DEF NewestOf

\* A row that is owed stays read, shown or on its way.
LEMMA StayComing ==
  ASSUME InboxInv, AllFresh, AllComing, [InboxNext]_inboxVars, Grows
  PROVE  AllComing'
<1>0. Typed /\ due \subseteq Tabs \X Nat /\ handler \in [Handlers -> Working \cup {Idle}]
  BY DEF InboxInv, Typed
<1>1. ASSUME NEW t \in Tabs, NEW i, <<t, i>> \in due, <<t, i>> \in due' PROVE Coming(t, i)'
  <2>0. /\ Coming(t, i) /\ t \in online /\ i \in Own(t) /\ loading[t] = "loaded"
    BY <1>1 DEF AllComing, InboxInv, DueTrue
  <2>1. CASE i \in ReadRows
    BY <2>1 DEF Coming, Grows
  <2>2. CASE i \in IdsOf(items[t])
    <3>1. i \in IdsOf(items'[t])
      BY <2>0, <2>2, ItemsBecome
    <3> QED BY <3>1 DEF Coming, IdsOf
  <2>3. ASSUME Created(i) \in ToSet(pushes[t]) PROVE Coming(t, i)'
    <3>1. pushes[t] \in Seq(PushesIn(Own(t), ReadRows)) /\ pushes \in [Tabs -> Seq(PushesIn(Nat, Nat))]
      BY DEF InboxInv, PushesTrue, Typed
    <3>2. ASSUME Created(i) \in ToSet(pushes'[t]) PROVE Coming(t, i)'
      BY <3>2 DEF Coming, Created, ToSet
    <3>3. ASSUME UNCHANGED pushes PROVE Coming(t, i)'
      BY <2>3, <3>2, <3>3
    <3>4. ASSUME NEW h \in Handlers, Pushed(h) PROVE Coming(t, i)'
      <4>1. handler[h].rows \in SUBSET RowIds
        BY <3>4 DEF Pushed, At, InboxInv, RowsStored
      <4>2. PICK w : w = PushesTo(t, handler[h].rows)
        OBVIOUS
      <4>3. w \in Seq(PushesIn(Own(t), ReadRows))
        BY <1>0, <4>1, <4>2, PushesToIs
      <4>4. pushes'[t] = pushes[t] \o w
        BY <3>4, <4>2 DEF Pushed
      <4>5. ToSet(pushes[t] \o w) = ToSet(pushes[t]) \cup ToSet(w)
        BY <3>1, <4>3, Behind
      <4> QED BY <2>3, <3>2, <4>4, <4>5
    <3>5. ASSUME NEW s \in Tabs, ConnectionLost(s) PROVE Coming(t, i)'
      <4>1. s # t
        BY <1>1, <3>5 DEF ConnectionLost
      <4>2. pushes'[t] = pushes[t]
        BY <3>1, <3>5, <4>1 DEF ConnectionLost
      <4> QED BY <2>3, <3>2, <4>2
    <3>6. ASSUME NEW s \in Tabs, CreatedHeard(s) \/ ReadHeard(s) PROVE Coming(t, i)'
      <4>1. pushes' = [pushes EXCEPT ![s] = Tail(pushes[s])] /\ pushes[s] # <<>>
        BY <3>6 DEF CreatedHeard, ReadHeard, PushHeard
      <4>2. CASE s # t
        <5>1. pushes'[t] = pushes[t]
          BY <3>1, <4>1, <4>2
        <5> QED BY <2>3, <3>2, <5>1
      <4>3. CASE s = t
        <5>1. pushes'[t] = Tail(pushes[t])
          BY <3>1, <4>1, <4>3
        <5>2. ToSet(pushes[t]) = {Head(pushes[t])} \cup ToSet(Tail(pushes[t]))
          BY <3>1, <4>1, <4>3, OneHeard
        <5>3. CASE Created(i) \in ToSet(Tail(pushes[t]))
          BY <3>2, <5>1, <5>3
        <5>4. CASE Created(i) = Head(pushes[t])
          <6>1. CreatedHeard(t) /\ Head(pushes[t]).id = i
            BY <3>6, <4>3, <5>4 DEF Created, ReadHeard, PushHeard
          <6>2. i \in IdsOf(items'[t])
            BY <6>1, ItemsBecome
          <6> QED BY <6>2 DEF Coming, IdsOf
        <5> QED BY <2>3, <5>2, <5>3, <5>4
      <4> QED BY <4>2, <4>3
    <3>7. ASSUME NEW m \in marks, MarkPushed(m) PROVE Coming(t, i)'
      <4>1. PICK x : x = [kind |-> "read", id |-> m.id]
        OBVIOUS
      <4>2. pushes'[t] = pushes[t] \/ pushes'[t] = Append(pushes[t], x)
        BY <3>7, <4>1 DEF MarkPushed
      <4>3. x \in PushesIn(Nat, Nat) /\ pushes[t] \in Seq(PushesIn(Nat, Nat))
        <5>1. m.id \in Nat
          BY <1>0, RowsAre DEF InboxInv, MarksTrue, MarkTrue
        <5> QED BY <3>1, <4>1, <5>1 DEF PushesIn
      <4>4. ToSet(Append(pushes[t], x)) = ToSet(pushes[t]) \cup {x}
        BY <4>3, OneMore
      <4> QED BY <2>3, <3>2, <4>2, <4>4
    <3>8. CASE \E h \in Handlers : HandlerStep(h)
      BY <3>3, <3>4, <3>8, OfHandlers
    <3>9. CASE \E s \in Tabs : TabStep(s)
      BY <3>3, <3>5, <3>6, <3>9, OfTabs
    <3>10. CASE \E m \in marks : MarkStep(m)
      BY <3>3, <3>7, <3>10, OfMarks
    <3>11. CASE \E u \in Users, j \in RowIds : MarkedElsewhere(u, j)
      BY <3>3, <3>11 DEF MarkedElsewhere
    <3>12. CASE Rest
      BY <3>3, <3>12 DEF Rest, inboxVars
    <3> QED BY <3>8, <3>9, <3>10, <3>11, <3>12, Steps
  <2>4. ASSUME NEW g \in Handlers, ~At(g, "idle"), i \in handler[g].rows PROVE Coming(t, i)'
    <3>1. ASSUME handler'[g] = handler[g] PROVE Coming(t, i)'
      BY <2>4, <3>1 DEF Coming, Held, At
    <3>2. ASSUME HandlerStep(g) PROVE Coming(t, i)'
      <4>1. handler[g] \in Working /\ handler[g].rows \subseteq RowIds
        BY <1>0, <2>4, WorkingIs DEF InboxInv, RowsStored
      <4>2. ASSUME NEW from \in Users, NEW to \in SUBSET Users, NEW about \in Subjects,
                   Published(g, from, to, about)
            PROVE  FALSE
        BY <2>4, <4>2 DEF Published
      <4>3. ASSUME Stored(g) PROVE FALSE
        BY <2>4, <4>1, <4>3 DEF Stored, At, Working
      <4>4. CASE Found(g)
        <5>1. PICK rows : rows = NewestOf(Cardinality(handler[g].to), Matching(g))
          OBVIOUS
        <5>2. handler' = [handler EXCEPT ![g].at = "push", ![g].rows = rows]
          BY <4>4, <5>1 DEF Found
        <5>3. handler'[g].at = "push" /\ handler'[g].rows = rows
          BY <1>0, <4>1, <5>2 DEF Working
        <5>4. CASE i \in ReadRows
          BY <2>1, <5>4
        <5>5. CASE i \notin ReadRows
          <6>1. ~table[i].read
            BY <2>4, <4>1, <5>5 DEF ReadRows
          <6>2. Fresh(g)
            BY <4>4 DEF Found, AllFresh
          <6>3. i \in rows
            BY <1>0, <2>4, <4>1, <5>1, <6>1, <6>2, FindsItsRows
          <6> QED BY <5>3, <6>3 DEF Coming, Held, At
        <5> QED BY <5>4, <5>5
      <4>5. CASE Pushed(g)
        <5>1. PICK w : w = PushesTo(t, handler[g].rows)
          OBVIOUS
        <5>2. w \in Seq(PushesIn(Own(t), ReadRows)) /\ Created(i) \in ToSet(w)
          BY <1>0, <2>0, <2>4, <4>1, <5>1, PushesToIs
        <5>3. pushes'[t] = pushes[t] \o w
          BY <4>5, <5>1 DEF Pushed
        <5>4. pushes[t] \in Seq(PushesIn(Own(t), ReadRows))
          BY DEF InboxInv, PushesTrue
        <5>5. Created(i) \in ToSet(pushes'[t])
          BY <5>2, <5>3, <5>4, Behind
        <5> QED BY <5>5 DEF Coming, Created, ToSet
      <4>6. ASSUME HandlerFailed(g) PROVE FALSE
        BY <1>1, <2>4, <4>6 DEF HandlerFailed
      <4> QED BY <3>2, <4>2, <4>3, <4>4, <4>5, <4>6 DEF HandlerStep
    <3>3. CASE \E h \in Handlers : HandlerStep(h)
      BY <1>0, <2>4, <3>1, <3>2, <3>3, OthersKeep
    <3>4. CASE \E s \in Tabs : TabStep(s)
      BY <3>1, <3>4, OfTabs
    <3>5. CASE \E m \in marks : MarkStep(m)
      BY <3>1, <3>5, OfMarks
    <3>6. CASE \E u \in Users, j \in RowIds : MarkedElsewhere(u, j)
      BY <3>1, <3>6 DEF MarkedElsewhere, rowVars
    <3>7. CASE Rest
      BY <3>1, <3>7 DEF Rest, inboxVars, rowVars
    <3> QED BY <3>3, <3>4, <3>5, <3>6, <3>7, Steps
  <2> QED BY <2>0, <2>1, <2>2, <2>3, <2>4 DEF Coming, Held
\* One that becomes due has just been stored by a handler.
<1>2. ASSUME NEW t, NEW i, <<t, i>> \in due', <<t, i>> \notin due PROVE Coming(t, i)'
  <2>1. PICK h \in Handlers : Stored(h)
    <3>1. CASE \E h \in Handlers : HandlerStep(h)
      BY <1>2, <3>1, OfHandlers DEF HandlerFailed
    <3>2. CASE \E s \in Tabs : TabStep(s)
      BY <1>2, <3>2, OfTabs DEF ConnectionLost
    <3>3. CASE \E m \in marks : MarkStep(m)
      BY <1>2, <3>3, OfMarks
    <3>4. CASE \E u \in Users, j \in RowIds : MarkedElsewhere(u, j)
      BY <1>2, <3>4 DEF MarkedElsewhere
    <3>5. CASE Rest
      BY <1>2, <3>5 DEF Rest, inboxVars
    <3> QED BY <3>1, <3>2, <3>3, <3>4, <3>5, Steps
  <2> DEFINE ids == Len(table) + 1 .. Len(table) + Cardinality(handler[h].to)
  <2>2. /\ handler' = [handler EXCEPT ![h].at = "find", ![h].rows = ids]
        /\ due' \subseteq due \cup (online \X ids)
    BY <1>0, <2>1, StoredIs
  <2> HIDE DEF ids
  <2>3. i \in ids
    BY <1>2, <2>2
  <2>4. handler[h] \in Working
    BY <1>0, <2>1, WorkingIs DEF Stored, At
  <2>5. handler'[h].at = "find" /\ handler'[h].rows = ids
    BY <1>0, <2>2, <2>4 DEF Working
  <2> QED BY <2>3, <2>5 DEF Coming, Held, At
<1>3. due' \subseteq Tabs \X Nat
  BY TypedStep DEF Typed
<1>4. \A p \in due' : p = <<p[1], p[2]>> /\ p[1] \in Tabs
  BY <1>3
<1>5. \A p \in due' : Coming(p[1], p[2])'
  BY <1>1, <1>2, <1>4
<1> QED BY <1>5 DEF AllComing

LEMMA DeliveryStart == InboxInit => DeliveryInv
  BY DEF InboxInit, DeliveryInv, Apart, AllFresh, AllComing, At, Idle

LEMMA DeliveryStep ==
  ~Repeats => (InboxInv /\ DeliveryInv /\ [InboxNext]_inboxVars => DeliveryInv')
<1> SUFFICES ASSUME ~Repeats, InboxInv, DeliveryInv, [InboxNext]_inboxVars PROVE DeliveryInv'
  OBVIOUS
<1>1. Grows
  BY TablesGrow
<1>2. Apart' /\ AllFresh' /\ AllComing'
  BY <1>1, StayApart, StayFresh, StayComing DEF DeliveryInv
<1> QED BY <1>2 DEF DeliveryInv

\* When no event is repeated while it is handled, what findMany reads back contains what
\* createMany stored: a row stored while a tab was connected and loaded is in its list once no
\* handler is at work and its pushes have been heard, unless it has been read.
THEOREM InboxNeverMisses ==
  ASSUME ~Repeats
  PROVE  InboxSpec => []NothingMissed
<1>1. InboxInv /\ DeliveryInv => NothingMissed
  <2> SUFFICES ASSUME InboxInv, DeliveryInv, \A h \in Handlers : At(h, "idle"),
                      NEW p \in due, pushes[p[1]] = <<>>, ~table[p[2]].read
               PROVE  \E k \in DOMAIN items[p[1]] : items[p[1]][k].id = p[2]
    BY DEF NothingMissed
  <2>1. Coming(p[1], p[2])
    BY DEF DeliveryInv, AllComing
  <2>2. p[2] \notin ReadRows
    BY DEF ReadRows
  <2>3. ~Held(p[2])
    BY DEF Held
  <2>4. ToSet(pushes[p[1]]) = {}
    BY DEF ToSet
  <2>5. p[2] \in IdsOf(items[p[1]])
    BY <2>1, <2>2, <2>3, <2>4 DEF Coming
  <2> QED BY <2>5 DEF IdsOf
<1>2. InboxInv /\ DeliveryInv /\ [InboxNext]_inboxVars => DeliveryInv'
  BY DeliveryStep
<1> QED BY <1>1, <1>2, InboxAlways, DeliveryStart, PTL DEF InboxSpec
=============================================================================
