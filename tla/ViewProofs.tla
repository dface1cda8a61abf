----------------------------- MODULE ViewProofs -----------------------------
(***************************************************************************)
(* What the web client shows of lists it loads.                            *)
(*                                                                         *)
(* For every view, any number of requests in flight, of changes and of     *)
(* switches: at rest the list is that of the server.  For a trail and a    *)
(* page of any length: the rows shown have no gap.  For days and steps of  *)
(* any length: the calendar shows each occurrence once, where it belongs.  *)
(***************************************************************************)
EXTENDS ListViews, AuditPages, Calendar, FiniteSetTheorems, TLAPS

LEMMA NatOrder == IsWellFoundedOn(OpToRel(<, Nat), Nat)
BY NatLessThanWellFounded

\* Every set of numbers has a least one.
LEMMA HasLeast ==
  ASSUME NEW S \in SUBSET Nat, S # {}
  PROVE  \E m \in S : \A x \in S : m <= x
<1>1. PICK m \in S : \A x \in S : <<x, m>> \notin OpToRel(<, Nat)
  BY NatOrder, WFMin
<1>2. \A x \in S : ~(x < m)
  BY <1>1 DEF OpToRel
<1> QED BY <1>2

LEMMA HasGreatest ==
  ASSUME NEW n \in Nat, NEW S \in SUBSET (0..n), S # {}
  PROVE  \E m \in S : \A x \in S : x <= m
<1> DEFINE T == {n - x : x \in S}
<1>1. PICK z \in S : TRUE
  OBVIOUS
<1>2. n - z \in T /\ \A y \in T : y \in Nat
  OBVIOUS
<1>3. PICK k \in T : \A y \in T : k <= y
  <2>1. T \in SUBSET Nat /\ T # {}
    BY <1>2
  <2> QED BY <2>1, HasLeast
<1>4. PICK m \in S : k = n - m
  BY <1>3
<1>5. \A x \in S : n - m <= n - x
  BY <1>3, <1>4
<1> QED BY <1>5

-----------------------------------------------------------------------------
(***************************************************************************)
(* The pages of the audit trail.                                           *)
(***************************************************************************)

\* The rows a page is taken from: those that match, below the cursor if there is one.
Below(f, c) == {r \in Matching(f) : c # NoCursor => r < c}

\* Rows of a filter between which none is missing.
Gapless(S, f) ==
  /\ S \subseteq Matching(f)
  /\ \A x \in S, y \in S, r \in Matching(f) : x <= r /\ r <= y => r \in S

\* Where to go on below them: after one of them, or nothing older is left.
EndsAt(S, next, f) ==
  IF next = NoCursor THEN \A x \in S, r \in Matching(f) : r <= x => r \in S ELSE next \in S

\* A page is the newest of the rows below its cursor.
PageOf(p, f, c) ==
  /\ p.items \subseteq Below(f, c)
  /\ \A x \in p.items, r \in Below(f, c) : x <= r => r \in p.items
  /\ IF p.next = NoCursor THEN p.items = Below(f, c) ELSE p.next \in p.items

Modes == {"replace", "append"}
AllFilters == Results \cup {"any"}
SentRecords == [at : {"sent"}, mode : Modes, filter : AllFilters, no : Nat, cursor : Nat]
ReadRecords ==
  [at : {"read"}, mode : Modes, no : Nat, page : [items : SUBSET Nat, next : Nat]]

RequestsTypeOK ==
  pageCall \in [PageCalls -> {PageIdle} \cup SentRecords \cup ReadRecords]

\* A request is of the filter of its number, and none is of a later one.
RequestsOfFilters ==
  \A k \in PageCalls : pageCall[k] # PageIdle =>
    /\ pageCall[k].no <= filterNo
    /\ pageCall[k].at = "sent" /\ pageCall[k].no = filterNo => pageCall[k].filter = filter
    /\ pageCall[k].at = "sent" /\ pageCall[k].mode = "replace" => pageCall[k].cursor = NoCursor

\* The first page of a filter is alone on its way, into an empty list.
FirstPageAlone ==
  ~mixed => \A k \in PageCalls :
    pageCall[k] # PageIdle /\ pageCall[k].no = filterNo /\ pageCall[k].mode = "replace" =>
      /\ rows = {} /\ cursor = NoCursor
      /\ \A l \in PageCalls \ {k} : pageCall[l] # PageIdle => pageCall[l].no # filterNo
      /\ pageCall[k].at = "read" =>
           /\ Gapless(pageCall[k].page.items, filter)
           /\ EndsAt(pageCall[k].page.items, pageCall[k].page.next, filter)

\* A later page goes on after a row that is shown, still the last of them or not.
LaterPagesFit ==
  ~mixed => \A k \in PageCalls :
    pageCall[k] # PageIdle /\ pageCall[k].no = filterNo /\ pageCall[k].mode = "append" =>
      /\ pageCall[k].at = "sent" => pageCall[k].cursor \in rows
      /\ pageCall[k].at = "read" => \E c \in rows : PageOf(pageCall[k].page, filter, c)

RowsGapless == ~mixed => Gapless(rows, filter) /\ EndsAt(rows, cursor, filter)

\* Whatever is read, even for a filter of before, are rows of the trail.
PagesOfTrail ==
  \A k \in PageCalls : pageCall[k] # PageIdle /\ pageCall[k].at = "read" =>
    /\ pageCall[k].page.items \subseteq DOMAIN trail
    /\ pageCall[k].page.next \in {NoCursor} \cup DOMAIN trail

PagesInv ==
  /\ PagesTypeOK /\ RequestsTypeOK /\ RequestsOfFilters /\ PagesOfTrail
  /\ FirstPageAlone /\ LaterPagesFit /\ RowsGapless

SplitsOff(page, found, B) ==
  /\ page \subseteq B
  /\ \A x \in page, r \in B : x <= r => r \in page
  /\ found = page => page = B
  /\ found # page => \E m \in page : \A x \in page : m <= x

\* Of a set of numbers, the page is its newest; it is all of it unless the next row
\* was read too, and then the page has an oldest row to go on from.
LEMMA NewestOfNewest ==
  ASSUME NEW n \in Nat, NEW B \in SUBSET (1..n), NEW P \in Nat \ {0}
  PROVE  SplitsOff(Newest(Newest(B, P + 1), P), Newest(B, P + 1), B)
<1> SUFFICES ASSUME NEW found, found = Newest(B, P + 1), NEW page, page = Newest(found, P)
             PROVE  SplitsOff(page, found, B)
  OBVIOUS
<1>0. /\ found \subseteq B /\ page \subseteq found
      /\ \A x \in B : x \in 0..n /\ x \in Nat
  <2>1. found \subseteq B
    BY Zenon DEF Newest
  <2>2. page \subseteq found
    BY Zenon DEF Newest
  <2> QED BY <2>1, <2>2
<1>1. IsFiniteSet(B) /\ \A S \in SUBSET B : IsFiniteSet(S)
  <2>1. IsFiniteSet(1..n)
    BY FS_Interval
  <2> QED BY <2>1, FS_Subset
<1> DEFINE Above(S, r) == {x \in S : x > r}
<1>2. ASSUME NEW S \in SUBSET B, NEW x \in S, NEW r \in S, x <= r
      PROVE  Cardinality(Above(S, r)) <= Cardinality(Above(S, x))
             /\ Cardinality(Above(S, r)) \in Nat /\ Cardinality(Above(S, x)) \in Nat
  <2>1. Above(S, r) \in SUBSET Above(S, x) /\ Above(S, x) \in SUBSET B /\ Above(S, r) \in SUBSET B
    <3>1. \A z \in S : z \in Nat
      BY <1>0
    <3>2. \A z \in S : z > r => z > x
      BY <1>2, <3>1
    <3> QED BY <3>2
  <2>2. IsFiniteSet(Above(S, x)) /\ IsFiniteSet(Above(S, r))
    BY <1>1, <2>1
  <2> QED BY <2>1, <2>2, FS_Subset, FS_CardinalityType
<1>3. \A x \in found, r \in B : x <= r => r \in found
  <2> SUFFICES ASSUME NEW x \in found, NEW r \in B, x <= r
               PROVE  r \in found
    OBVIOUS
  <2>1. Cardinality(Above(B, r)) <= Cardinality(Above(B, x))
        /\ Cardinality(Above(B, r)) \in Nat /\ Cardinality(Above(B, x)) \in Nat
    BY <1>0, <1>2
  <2>2. Cardinality(Above(B, x)) < P + 1
    BY DEF Newest
  <2> QED BY <2>1, <2>2 DEF Newest
<1>4. \A x \in page, r \in B : x <= r => r \in page
  <2> SUFFICES ASSUME NEW x \in page, NEW r \in B, x <= r
               PROVE  r \in page
    OBVIOUS
  <2>1. x \in found /\ r \in found /\ found \in SUBSET B
    BY <1>0, <1>3
  <2>2. Cardinality(Above(found, r)) <= Cardinality(Above(found, x))
        /\ Cardinality(Above(found, r)) \in Nat /\ Cardinality(Above(found, x)) \in Nat
    BY <1>2, <2>1
  <2>3. Cardinality(Above(found, x)) < P
    BY DEF Newest
  <2> QED BY <2>1, <2>2, <2>3 DEF Newest
<1>5. ASSUME found = page, page # B
      PROVE  FALSE
  <2>1. B \ page \in SUBSET (0..n) /\ B \ page # {}
    <3>1. page \subseteq B
      BY <1>0
    <3> QED BY <1>0, <1>5, <3>1
  <2>2. PICK r \in B \ page : \A y \in B \ page : y <= r
    BY <2>1, HasGreatest
  <2>3. page = Above(B, r)
    <3>1. \A z \in B : z \in page => z > r
      BY <1>0, <1>4
    <3>2. \A z \in B : z > r => z \in page
      BY <1>0, <2>2
    <3>3. page \subseteq B
      BY <1>0
    <3> QED BY <3>1, <3>2, <3>3
  <2>4. Cardinality(page) >= P + 1 /\ Cardinality(page) \in Nat
    <3>1. ~(Cardinality(Above(B, r)) < P + 1)
      BY <1>5, <2>2 DEF Newest
    <3>2. Cardinality(page) \in Nat
      BY <1>0, <1>1, FS_CardinalityType
    <3> QED BY <2>3, <3>1, <3>2
  <2>5. page # {}
    BY <2>4, FS_EmptySet
  <2>6. PICK m \in page : \A y \in page : m <= y
    BY <1>0, <2>5, HasLeast
  <2>7. Cardinality(Above(page, m)) < P
    BY <1>5 DEF Newest
  <2>8. Above(page, m) = page \ {m}
    <3>1. \A z \in page : z > m <=> z # m
      BY <1>0, <2>6
    <3> QED BY <3>1
  <2>9. Cardinality(page \ {m}) = Cardinality(page) - 1
    BY <1>0, <1>1, FS_RemoveElement
  <2> QED BY <2>4, <2>7, <2>8, <2>9
<1>6. ASSUME found # page
      PROVE  \E m \in page : \A x \in page : m <= x
  <2>1. found \in SUBSET (0..n) /\ found # {}
    BY <1>0, <1>6
  <2>2. PICK g \in found : \A y \in found : y <= g
    BY <2>1, HasGreatest
  <2>3. Above(found, g) = {}
    <3>1. \A z \in found : ~(z > g)
      BY <1>0, <2>2
    <3> QED BY <3>1
  <2>4. Cardinality(Above(found, g)) = 0
    BY <2>3, FS_EmptySet
  <2>5. g \in page
    BY <2>4 DEF Newest
  <2> QED BY <1>0, <2>5, HasLeast
<1> QED BY <1>0, <1>4, <1>5, <1>6 DEF SplitsOff

LEMMA TrailDomain ==
  ASSUME PagesTypeOK
  PROVE  \E n \in Nat : n <= LastRow /\ DOMAIN trail = 1..n /\ trail \in [1..n -> Results]
<1>1. PICK n \in 0..LastRow : trail \in [1..n -> Results]
  BY DEF PagesTypeOK
<1> QED BY <1>1, PageConstants

\* What the server answers is a page of the rows there are.
LEMMA AnswerIsPage ==
  ASSUME PagesTypeOK, NEW f, NEW c \in Nat
  PROVE  PageOf(listLogs(f, c), f, c) /\ listLogs(f, c).next \in Nat
<1> DEFINE found == Newest(Below(f, c), PageSize + 1)
           page == Newest(found, PageSize)
<1>1. PICK n \in Nat : DOMAIN trail = 1..n
  BY TrailDomain
<1>2. Below(f, c) \in SUBSET (1..n)
  BY <1>1 DEF Below, Matching
<1>3. SplitsOff(page, found, Below(f, c))
  BY <1>1, <1>2, NewestOfNewest, PageConstants
<1>4. found # page => Oldest(page) \in page
  BY <1>3 DEF Oldest, SplitsOff
<1>5. \A x \in page : x \in Nat /\ x # NoCursor
  BY <1>2, <1>3 DEF NoCursor, SplitsOff
<1>6. listLogs(f, c) = [items |-> page, next |-> IF found # page THEN Oldest(page) ELSE NoCursor]
  BY DEF listLogs, Below
<1>7. NoCursor \in Nat
  BY DEF NoCursor
<1> HIDE DEF found, page
<1> QED BY <1>3, <1>4, <1>5, <1>6, <1>7 DEF PageOf, SplitsOff

\* The trail grows at its newer end.
LEMMA TrailGrows ==
  ASSUME PagesTypeOK, Recorded
  PROVE  \E n \in Nat :
           /\ DOMAIN trail = 1..n
           /\ trail' \in [1..(n + 1) -> Results] /\ n + 1 <= LastRow
           /\ \A f : Matching(f) \subseteq Matching(f)'
                     /\ Matching(f)' \subseteq Matching(f) \cup {n + 1}
<1>1. PICK n \in Nat : n <= LastRow /\ DOMAIN trail = 1..n /\ trail \in [1..n -> Results]
  BY TrailDomain
<1>2. Cardinality(DOMAIN trail) = n
  BY <1>1, FS_Interval
<1>3. PICK result \in Results :
        trail' = [r \in 1..(n + 1) |-> IF r \in 1..n THEN trail[r] ELSE result]
  BY <1>1, <1>2 DEF Recorded
<1>4. n < LastRow
  BY <1>2 DEF Recorded
<1>5. trail' \in [1..(n + 1) -> Results]
  BY <1>1, <1>3
<1>6. /\ \A r \in 1..n : trail'[r] = trail[r]
      /\ DOMAIN trail' = 1..(n + 1)
  BY <1>3
<1>7. \A f : Matching(f) \subseteq Matching(f)'
             /\ Matching(f)' \subseteq Matching(f) \cup {n + 1}
  BY <1>1, <1>6 DEF Matching
<1>8. n + 1 <= LastRow
  BY <1>4, PageConstants
<1> QED BY <1>1, <1>5, <1>7, <1>8

LEMMA MatchingRows ==
  ASSUME PagesTypeOK
  PROVE  /\ rows \subseteq Nat \ {NoCursor} /\ cursor \in Nat /\ filterNo \in Nat
         /\ filter \in AllFilters
         /\ \A f : Matching(f) \subseteq Nat /\ NoCursor \notin Matching(f)
<1>1. PICK n \in Nat : DOMAIN trail = 1..n
  BY TrailDomain
<1>2. \A r \in DOMAIN trail : r \in Nat /\ r # NoCursor
  BY <1>1 DEF NoCursor
<1> QED BY <1>2, PageConstants DEF PagesTypeOK, Matching, NoCursor, AllFilters

LEMMA RequestShape ==
  ASSUME RequestsTypeOK, NEW k \in PageCalls, pageCall[k] # PageIdle
  PROVE  /\ pageCall[k].mode \in Modes /\ pageCall[k].no \in Nat
         /\ \/ /\ pageCall[k].at = "sent" /\ pageCall[k] \in SentRecords
               /\ pageCall[k].filter \in AllFilters /\ pageCall[k].cursor \in Nat
            \/ /\ pageCall[k].at = "read" /\ pageCall[k] \in ReadRecords
               /\ pageCall[k].page.items \subseteq Nat /\ pageCall[k].page.next \in Nat
BY DEF RequestsTypeOK, SentRecords, ReadRecords

\* A page that goes on after a row that is shown leaves no gap, and where it ends is
\* where to go on.
LEMMA PageJoins ==
  ASSUME NEW f, Matching(f) \subseteq Nat, NEW S, Gapless(S, f),
         NEW c \in S, c # NoCursor, NEW p, PageOf(p, f, c)
  PROVE  Gapless(S \cup p.items, f) /\ EndsAt(S \cup p.items, p.next, f)
<1>1. \A r \in Matching(f) : r < c => r \in Below(f, c)
  BY DEF Below
<1>2. \A x \in p.items : x \in Matching(f) /\ x < c
  BY DEF PageOf, Below
<1>3. \A x \in S : x \in Matching(f)
  BY DEF Gapless
<1>4. ASSUME NEW x \in S \cup p.items, NEW y \in S \cup p.items, NEW r \in Matching(f),
             x <= r, r <= y
      PROVE  r \in S \cup p.items
  <2>1. x \in Nat /\ y \in Nat /\ r \in Nat /\ c \in Nat
    BY <1>2, <1>3
  <2>2. CASE x \in S
    <3>1. CASE y \in S
      BY <1>4, <2>2, <3>1 DEF Gapless
    <3>2. CASE y \in p.items
      <4>1. r <= c
        BY <1>2, <1>4, <2>1, <3>2
      <4> QED BY <1>4, <2>2, <4>1 DEF Gapless
    <3> QED BY <3>1, <3>2
  <2>3. CASE x \in p.items
    <3>1. CASE r < c
      <4>1. r \in Below(f, c)
        BY <1>1, <3>1
      <4> QED BY <1>4, <2>3, <4>1 DEF PageOf
    <3>2. CASE ~(r < c)
      <4>1. c <= r
        BY <2>1, <3>2
      <4>2. y \in S
        BY <1>2, <1>4, <2>1, <4>1
      <4> QED BY <1>4, <4>1, <4>2 DEF Gapless
    <3> QED BY <3>1, <3>2
  <2> QED BY <2>2, <2>3
<1>5. ASSUME p.next = NoCursor, NEW x \in S \cup p.items, NEW r \in Matching(f), r <= x
      PROVE  r \in S \cup p.items
  <2>1. x \in Nat /\ r \in Nat /\ c \in Nat
    BY <1>2, <1>3
  <2>2. CASE r < c
    BY <1>1, <1>5, <2>2 DEF PageOf
  <2>3. CASE c <= r
    BY <1>4, <1>5, <2>3
  <2> QED BY <2>1, <2>2, <2>3
<1>6. p.next # NoCursor => p.next \in p.items
  BY DEF PageOf
<1> QED
  BY <1>2, <1>3, <1>4, <1>5, <1>6 DEF Gapless, EndsAt

\* The growth of the trail spoils no page that has been read.
LEMMA GrowthSpares ==
  ASSUME NEW n \in Nat, NEW f, Matching(f) \subseteq 1..n, Matching(f) \subseteq Matching(f)',
         Matching(f)' \subseteq Matching(f) \cup {n + 1}
  PROVE  /\ \A S : Gapless(S, f) => Gapless(S, f)'
         /\ \A S, x : Gapless(S, f) /\ EndsAt(S, x, f) => EndsAt(S, x, f)'
         /\ \A p, c : c \in 1..n /\ PageOf(p, f, c) => PageOf(p, f, c)'
<1>1. ASSUME NEW S, Gapless(S, f)
      PROVE  Gapless(S, f)'
  <2>1. \A y \in S : y \in 1..n /\ ~(n + 1 <= y)
    BY <1>1 DEF Gapless
  <2> QED BY <1>1, <2>1 DEF Gapless
<1>2. ASSUME NEW S, NEW x, Gapless(S, f), EndsAt(S, x, f)
      PROVE  EndsAt(S, x, f)'
  <2>1. \A y \in S : y \in 1..n /\ ~(n + 1 <= y)
    BY <1>2 DEF Gapless
  <2> QED BY <1>2, <2>1 DEF EndsAt
<1>3. ASSUME NEW p, NEW c \in 1..n, PageOf(p, f, c)
      PROVE  PageOf(p, f, c)'
  <2>1. ~(n + 1 < c) /\ c # NoCursor
    BY DEF NoCursor
  <2>2. Below(f, c)' = Below(f, c)
    BY <2>1 DEF Below
  <2> QED BY <1>3, <2>2 DEF PageOf
<1> QED BY <1>1, <1>2, <1>3

LEMMA RecordedKeeps ==
  ASSUME PagesInv, Recorded
  PROVE  PagesInv'
<1>0. PagesTypeOK /\ RequestsTypeOK
  BY DEF PagesInv
<1>1. PICK n \in Nat :
        /\ DOMAIN trail = 1..n
        /\ trail' \in [1..(n + 1) -> Results] /\ n + 1 <= LastRow
        /\ \A f : Matching(f) \subseteq Matching(f)'
                  /\ Matching(f)' \subseteq Matching(f) \cup {n + 1}
  BY <1>0, TrailGrows
<1>2. UNCHANGED <<filter, filterNo, rows, cursor, more, pageCall, mixed>>
  BY DEF Recorded
<1>3. \A f : Matching(f) \subseteq 1..n
  BY <1>1 DEF Matching
<1>4. /\ \A S : Gapless(S, filter) => Gapless(S, filter)'
      /\ \A S, x : Gapless(S, filter) /\ EndsAt(S, x, filter) => EndsAt(S, x, filter)'
      /\ \A p, c : c \in 1..n /\ PageOf(p, filter, c) => PageOf(p, filter, c)'
  <2>1. PICK f : f = filter /\ f = filter'
    BY <1>2
  <2>2. /\ \A S : Gapless(S, f) => Gapless(S, f)'
        /\ \A S, x : Gapless(S, f) /\ EndsAt(S, x, f) => EndsAt(S, x, f)'
        /\ \A p, c : c \in 1..n /\ PageOf(p, f, c) => PageOf(p, f, c)'
    BY <1>1, <1>3, GrowthSpares
  <2>3. /\ \A S : Gapless(S, filter)' <=> Gapless(S, f)'
        /\ \A S, x : EndsAt(S, x, filter)' <=> EndsAt(S, x, f)'
        /\ \A p, c : PageOf(p, filter, c)' <=> PageOf(p, f, c)'
    BY <2>1 DEF Gapless, EndsAt, PageOf, Below, Matching
  <2> QED BY <2>1, <2>2, <2>3
<1>5. PagesTypeOK'
  <2>1. 1..n \subseteq 1..(n + 1) /\ n + 1 \in 0..LastRow /\ DOMAIN trail' = 1..(n + 1)
    BY <1>1, PageConstants
  <2> QED BY <1>0, <1>1, <1>2, <2>1 DEF PagesTypeOK
<1>6. RequestsTypeOK' /\ RequestsOfFilters'
  BY <1>2 DEF PagesInv, RequestsTypeOK, RequestsOfFilters
<1>7. FirstPageAlone'
  BY <1>2, <1>4 DEF PagesInv, FirstPageAlone
<1>8. LaterPagesFit'
  <2>1. \A c \in rows : c \in 1..n
    BY <1>0, <1>1 DEF PagesTypeOK
  <2> QED BY <1>2, <1>4, <2>1 DEF PagesInv, LaterPagesFit
<1>9. RowsGapless'
  BY <1>2, <1>4 DEF PagesInv, RowsGapless
<1>10. PagesOfTrail'
  <2>1. \A x \in DOMAIN trail : x \in DOMAIN trail'
    BY <1>1
  <2> QED BY <1>2, <2>1 DEF PagesInv, PagesOfTrail
<1> QED BY <1>5, <1>6, <1>7, <1>8, <1>9, <1>10 DEF PagesInv

\* What a step that leaves the trail alone leaves of the facts about pages.
LEMMA SameTrail ==
  ASSUME trail' = trail
  PROVE  /\ \A S, f : Gapless(S, f)' <=> Gapless(S, f)
         /\ \A S, x, f : EndsAt(S, x, f)' <=> EndsAt(S, x, f)
         /\ \A p, f, c : PageOf(p, f, c)' <=> PageOf(p, f, c)
BY DEF Gapless, EndsAt, PageOf, Below, Matching

LEMMA FilterChangedKeeps ==
  ASSUME PagesInv, NEW k \in PageCalls, FilterChanged(k)
  PROVE  PagesInv'
<1>0. PagesTypeOK /\ RequestsTypeOK /\ filterNo \in Nat /\ filterNo < LastFilter
  BY MatchingRows DEF PagesInv, FilterChanged
<1>1. PICK f \in AllFilters :
        /\ filter' = f
        /\ pageCall' = [pageCall EXCEPT ![k] = PageAsked("replace", f, filterNo + 1, NoCursor)]
  BY DEF FilterChanged, AllFilters
<1>2. /\ filterNo' = filterNo + 1 /\ rows' = {} /\ cursor' = NoCursor /\ mixed' = FALSE
      /\ UNCHANGED <<trail, more>>
  BY DEF FilterChanged
<1>3. /\ pageCall'[k] = PageAsked("replace", f, filterNo + 1, NoCursor)
      /\ \A l \in PageCalls \ {k} : pageCall'[l] = pageCall[l]
  BY <1>0, <1>1 DEF RequestsTypeOK
<1>4. \A l \in PageCalls \ {k} : pageCall'[l] # PageIdle =>
        pageCall'[l].no # filterNo' /\ pageCall'[l].no <= filterNo'
  <2>1. \A l \in PageCalls : pageCall[l] # PageIdle => pageCall[l].no <= filterNo /\ pageCall[l].no \in Nat
    BY <1>0, RequestShape DEF PagesInv, RequestsOfFilters
  <2> QED BY <1>0, <1>2, <1>3, <2>1
<1>5. PageAsked("replace", f, filterNo + 1, NoCursor) \in SentRecords
  BY <1>0 DEF PageAsked, SentRecords, Modes, NoCursor
<1>6. PagesTypeOK'
  <2>1. filterNo' \in 0..LastFilter
    BY <1>0, <1>2, PageConstants
  <2>2. DOMAIN trail' = DOMAIN trail
    BY <1>2
  <2> QED BY <1>0, <1>1, <1>2, <2>1, <2>2 DEF PagesTypeOK, AllFilters
<1>7. RequestsTypeOK'
  BY <1>0, <1>1, <1>5 DEF RequestsTypeOK
<1>8. RequestsOfFilters'
  BY <1>0, <1>1, <1>2, <1>3, <1>4 DEF PagesInv, RequestsOfFilters, PageAsked
<1>9. FirstPageAlone'
  BY <1>2, <1>3, <1>4 DEF FirstPageAlone, PageAsked
<1>10. LaterPagesFit'
  BY <1>3, <1>4 DEF LaterPagesFit, PageAsked
<1>11. RowsGapless'
  BY <1>2 DEF RowsGapless, Gapless, EndsAt
<1>12. PagesOfTrail'
  BY <1>2, <1>3 DEF PagesInv, PagesOfTrail, PageAsked
<1> QED BY <1>6, <1>7, <1>8, <1>9, <1>10, <1>11, <1>12 DEF PagesInv

LEMMA MoreAskedKeeps ==
  ASSUME PagesInv, NEW k \in PageCalls, MoreAsked(k)
  PROVE  PagesInv'
<1>0. /\ PagesTypeOK /\ RequestsTypeOK /\ filterNo \in Nat /\ cursor \in Nat
      /\ filter \in AllFilters /\ cursor # NoCursor
  BY MatchingRows DEF PagesInv, MoreAsked
<1>1. /\ UNCHANGED <<trail, filter, filterNo, rows, cursor, mixed>> /\ more' = TRUE
      /\ pageCall' = [pageCall EXCEPT ![k] = PageAsked("append", filter, filterNo, cursor)]
  BY DEF MoreAsked
<1>2. /\ pageCall'[k] = PageAsked("append", filter, filterNo, cursor)
      /\ \A l \in PageCalls \ {k} : pageCall'[l] = pageCall[l]
  BY <1>0, <1>1 DEF RequestsTypeOK
<1>3. PageAsked("append", filter, filterNo, cursor) \in SentRecords
  BY <1>0 DEF PageAsked, SentRecords, Modes
<1>4. PagesTypeOK'
  BY <1>0, <1>1 DEF PagesTypeOK
<1>5. RequestsTypeOK'
  BY <1>0, <1>1, <1>3 DEF RequestsTypeOK
<1>6. RequestsOfFilters'
  BY <1>0, <1>1, <1>2 DEF PagesInv, RequestsOfFilters, PageAsked
\* With a cursor there is no first page under way.
<1>7. FirstPageAlone'
  BY <1>0, <1>1, <1>2, SameTrail DEF PagesInv, FirstPageAlone, PageAsked
<1>8. LaterPagesFit'
  <2>1. ~mixed => cursor \in rows
    BY <1>0 DEF PagesInv, RowsGapless, EndsAt
  <2> QED BY <1>1, <1>2, <2>1, SameTrail DEF PagesInv, LaterPagesFit, PageAsked
<1>9. RowsGapless'
  BY <1>1, SameTrail DEF PagesInv, RowsGapless
<1>10. PagesOfTrail'
  BY <1>1, <1>2 DEF PagesInv, PagesOfTrail, PageAsked
<1> QED BY <1>4, <1>5, <1>6, <1>7, <1>8, <1>9, <1>10 DEF PagesInv

LEMMA PageReadKeeps ==
  ASSUME PagesInv, NEW k \in PageCalls, PageRead(k)
  PROVE  PagesInv'
<1> DEFINE r == pageCall[k]
           p == listLogs(r.filter, r.cursor)
           read == [at |-> "read", mode |-> r.mode, no |-> r.no, page |-> p]
<1>0. PagesTypeOK /\ RequestsTypeOK
  BY DEF PagesInv
<1>1. /\ r # PageIdle /\ r.at = "sent" /\ r.mode \in Modes /\ r.no \in Nat
      /\ r.filter \in AllFilters /\ r.cursor \in Nat
  BY <1>0, RequestShape DEF PageRead
<1>2. /\ pageCall' = [pageCall EXCEPT ![k] = read]
      /\ UNCHANGED <<trail, filter, filterNo, rows, cursor, more, mixed>>
  BY DEF PageRead
<1>3. PageOf(p, r.filter, r.cursor) /\ p.next \in Nat
  BY <1>0, <1>1, AnswerIsPage
<1>4. p.items \subseteq Nat
  BY <1>0, <1>3, MatchingRows DEF PageOf, Below
<1>5. p = [items |-> p.items, next |-> p.next]
  BY DEF listLogs
<1> HIDE DEF p
<1>6. p \in [items : SUBSET Nat, next : Nat]
  BY <1>3, <1>4, <1>5
<1>7. read \in ReadRecords
  BY <1>1, <1>6 DEF ReadRecords
<1>8. /\ pageCall'[k] = read
      /\ \A l \in PageCalls \ {k} : pageCall'[l] = pageCall[l]
  BY <1>0, <1>2 DEF RequestsTypeOK
<1>9. read # PageIdle /\ read.at = "read" /\ read.mode = r.mode /\ read.no = r.no /\ read.page = p
  BY DEF PageIdle
<1>10. r.no <= filterNo /\ (r.no = filterNo => r.filter = filter)
       /\ (r.mode = "replace" => r.cursor = NoCursor)
  BY <1>1 DEF PagesInv, RequestsOfFilters
<1> HIDE DEF read
<1>11. PagesTypeOK'
  BY <1>0, <1>2 DEF PagesTypeOK
<1>12. RequestsTypeOK'
  BY <1>0, <1>2, <1>7 DEF RequestsTypeOK
<1>13. RequestsOfFilters'
  BY <1>2, <1>8, <1>9, <1>10 DEF PagesInv, RequestsOfFilters
<1>14. ASSUME r.no = filterNo, r.mode = "replace"
       PROVE  Gapless(p.items, filter) /\ EndsAt(p.items, p.next, filter)
  BY <1>3, <1>10, <1>14 DEF PageOf, Below, Gapless, EndsAt
<1>15. FirstPageAlone'
  BY <1>1, <1>2, <1>8, <1>9, <1>14, SameTrail DEF PagesInv, FirstPageAlone
<1>16. LaterPagesFit'
  BY <1>1, <1>2, <1>3, <1>8, <1>9, <1>10, SameTrail DEF PagesInv, LaterPagesFit
<1>17. RowsGapless'
  BY <1>2, SameTrail DEF PagesInv, RowsGapless
<1>18. PagesOfTrail'
  <2>1. p.items \subseteq DOMAIN trail /\ p.next \in {NoCursor} \cup DOMAIN trail
    BY <1>3 DEF PageOf, Below, Matching
  <2> QED BY <1>2, <1>8, <1>9, <2>1 DEF PagesInv, PagesOfTrail
<1> QED BY <1>11, <1>12, <1>13, <1>15, <1>16, <1>17, <1>18 DEF PagesInv

LEMMA PageFailedKeeps ==
  ASSUME PagesInv, NEW k \in PageCalls, PageFailed(k)
  PROVE  PagesInv'
<1>0. PagesTypeOK /\ RequestsTypeOK
  BY DEF PagesInv
<1>1. /\ UNCHANGED <<trail, filter, filterNo, rows, cursor, mixed>> /\ more' = FALSE
      /\ pageCall' = [pageCall EXCEPT ![k] = PageIdle]
  BY DEF PageFailed
<1>2. pageCall'[k] = PageIdle /\ \A l \in PageCalls \ {k} : pageCall'[l] = pageCall[l]
  BY <1>0, <1>1 DEF RequestsTypeOK
<1>3. PagesTypeOK' /\ RequestsTypeOK'
  BY <1>0, <1>1 DEF PagesTypeOK, RequestsTypeOK
<1>4. RequestsOfFilters'
  BY <1>1, <1>2 DEF PagesInv, RequestsOfFilters
<1>5. FirstPageAlone' /\ LaterPagesFit' /\ RowsGapless'
  BY <1>1, <1>2, SameTrail DEF PagesInv, FirstPageAlone, LaterPagesFit, RowsGapless
<1>6. PagesOfTrail'
  BY <1>1, <1>2 DEF PagesInv, PagesOfTrail
<1> QED BY <1>3, <1>4, <1>5, <1>6 DEF PagesInv

LEMMA PageShownKeeps ==
  ASSUME PagesInv, NEW k \in PageCalls, PageShown(k)
  PROVE  PagesInv'
<1> DEFINE r == pageCall[k]
<1>0. PagesTypeOK /\ RequestsTypeOK
  BY DEF PagesInv
<1>1. /\ r # PageIdle /\ r.at = "read" /\ r.mode \in Modes /\ r.no \in Nat
      /\ r.page.items \subseteq Nat /\ r.page.next \in Nat
  BY <1>0, RequestShape DEF PageShown
<1>2. /\ rows' = (IF r.mode = "replace" THEN {} ELSE rows) \cup r.page.items
      /\ cursor' = r.page.next /\ more' = FALSE
      /\ mixed' = (mixed \/ r.no # filterNo)
      /\ pageCall' = [pageCall EXCEPT ![k] = PageIdle]
      /\ UNCHANGED <<trail, filter, filterNo>>
  BY DEF PageShown, appendAuditPage
<1>3. pageCall'[k] = PageIdle /\ \A l \in PageCalls \ {k} : pageCall'[l] = pageCall[l]
  BY <1>0, <1>2 DEF RequestsTypeOK
<1>4. mixed \in BOOLEAN
  BY <1>0 DEF PagesTypeOK
<1>5. ASSUME ~mixed, r.no = filterNo
      PROVE  Gapless(rows', filter) /\ EndsAt(rows', cursor', filter) /\ rows \subseteq rows'
  <2>1. CASE r.mode = "replace"
    BY <1>1, <1>2, <1>5, <2>1 DEF PagesInv, FirstPageAlone
  <2>2. CASE r.mode = "append"
    <3>1. PICK c \in rows : PageOf(r.page, filter, c)
      BY <1>1, <1>5, <2>2 DEF PagesInv, LaterPagesFit
    <3>2. c # NoCursor /\ Matching(filter) \subseteq Nat /\ Gapless(rows, filter)
      BY <1>0, <1>5, MatchingRows DEF PagesInv, RowsGapless
    <3>3. /\ Gapless(rows \cup r.page.items, filter)
          /\ EndsAt(rows \cup r.page.items, r.page.next, filter)
      BY <3>1, <3>2, PageJoins
    <3>4. rows' = rows \cup r.page.items
      BY <1>2, <2>2
    <3> QED BY <1>2, <3>3, <3>4
  <2> QED BY <1>1, <2>1, <2>2 DEF Modes
<1>6. RowsGapless'
  BY <1>2, <1>4, <1>5, SameTrail DEF RowsGapless
<1>7. RequestsTypeOK' /\ RequestsOfFilters'
  <2>1. RequestsTypeOK'
    BY <1>0, <1>2 DEF RequestsTypeOK
  <2> QED BY <1>2, <1>3, <2>1 DEF PagesInv, RequestsOfFilters
\* Of the first page under way, none other is of this filter.
<1>8. FirstPageAlone'
  <2> SUFFICES ASSUME ~mixed', NEW l \in PageCalls, pageCall'[l] # PageIdle,
                      pageCall'[l].no = filterNo, pageCall'[l].mode = "replace"
               PROVE  FALSE
    BY <1>2 DEF FirstPageAlone
  <2>1. l # k /\ pageCall[l] = pageCall'[l] /\ ~mixed /\ r.no = filterNo
    BY <1>2, <1>3, <1>4
  <2> QED BY <1>1, <2>1 DEF PagesInv, FirstPageAlone
<1>9. LaterPagesFit'
  <2> SUFFICES ASSUME ~mixed', NEW l \in PageCalls, pageCall'[l] # PageIdle,
                      pageCall'[l].no = filterNo, pageCall'[l].mode = "append"
               PROVE  /\ pageCall'[l].at = "sent" => pageCall'[l].cursor \in rows'
                      /\ pageCall'[l].at = "read" =>
                           \E c \in rows' : PageOf(pageCall'[l].page, filter, c)
    BY <1>2, SameTrail DEF LaterPagesFit
  <2>1. l # k /\ pageCall[l] = pageCall'[l] /\ ~mixed /\ r.no = filterNo
    BY <1>2, <1>3, <1>4
  <2> QED BY <1>5, <2>1 DEF PagesInv, LaterPagesFit
<1>10. PagesTypeOK'
  BY <1>0, <1>1, <1>2, <1>4 DEF PagesInv, PagesTypeOK, PagesOfTrail
<1>11. PagesOfTrail'
  BY <1>2, <1>3 DEF PagesInv, PagesOfTrail
<1> QED BY <1>6, <1>7, <1>8, <1>9, <1>10, <1>11 DEF PagesInv

LEMMA PagesInvHolds == PagesSpec => []PagesInv
<1>1. PagesInit => PagesInv
  <2> SUFFICES ASSUME PagesInit PROVE PagesInv
    OBVIOUS
  <2>1. PICK k \in PageCalls :
          pageCall = [c \in PageCalls |->
            IF c = k THEN PageAsked("replace", "any", 0, NoCursor) ELSE PageIdle]
    BY DEF PagesInit
  <2>2. PageAsked("replace", "any", 0, NoCursor) \in SentRecords
    BY DEF PageAsked, SentRecords, Modes, AllFilters, NoCursor
  <2>3. /\ pageCall[k] = PageAsked("replace", "any", 0, NoCursor)
        /\ \A l \in PageCalls \ {k} : pageCall[l] = PageIdle
    BY <2>1
  <2>4. PagesTypeOK
    <3>1. PICK n \in 0..LastRow : trail \in [1..n -> Results]
      BY DEF PagesInit
    <3>2. 0 \in 0..LastFilter
      BY PageConstants
    <3> QED BY <3>1, <3>2 DEF PagesInit, PagesTypeOK
  <2>5. RequestsTypeOK
    BY <2>1, <2>2 DEF RequestsTypeOK
  <2>6. RequestsOfFilters /\ FirstPageAlone /\ LaterPagesFit /\ RowsGapless /\ PagesOfTrail
    BY <2>3 DEF PagesInit, RequestsOfFilters, FirstPageAlone, LaterPagesFit, RowsGapless,
        PagesOfTrail, PageAsked, Gapless, EndsAt
  <2> QED BY <2>4, <2>5, <2>6 DEF PagesInv
<1>2. PagesInv /\ [PagesNext]_pageVars => PagesInv'
  <2>1. ASSUME PagesInv, UNCHANGED pageVars
        PROVE  PagesInv'
    BY <2>1, SameTrail DEF PagesInv, PagesTypeOK, RequestsTypeOK, RequestsOfFilters,
        FirstPageAlone, LaterPagesFit, RowsGapless, PagesOfTrail, pageVars
  <2> QED BY <2>1, RecordedKeeps, FilterChangedKeeps, MoreAskedKeeps, PageReadKeeps,
             PageShownKeeps, PageFailedKeeps DEF PagesNext
<1> QED
  BY <1>1, <1>2, PTL DEF PagesSpec

\* However long the trail, whatever the size of a page and however many requests are
\* on their way: without an answer for the filter of before, the rows shown have no
\* gap and the next page begins right after one of them.
THEOREM PagesAlwaysContiguous == PagesSpec => []PagesContiguous
<1>1. PagesInv => PagesContiguous
  <2> SUFFICES ASSUME PagesInv, ~mixed, rows # {}
               PROVE  LET M == Matching(filter)
                          newest == CHOOSE r \in rows : \A x \in rows : x <= r
                          down == {r \in M : r <= newest}
                      IN  /\ rows = {r \in down : r >= Oldest(rows)}
                          /\ IF cursor # NoCursor THEN cursor \in rows ELSE rows = down
    BY DEF PagesContiguous
  <2>0. PagesTypeOK /\ Gapless(rows, filter) /\ EndsAt(rows, cursor, filter)
    BY DEF PagesInv, RowsGapless
  <2>1. PICK n \in Nat : DOMAIN trail = 1..n
    BY <2>0, TrailDomain
  <2>2. \A r \in rows : r \in 0..n /\ r \in Nat
    BY <2>0, <2>1 DEF PagesTypeOK
  <2> DEFINE newest == CHOOSE r \in rows : \A x \in rows : x <= r
  <2>3. newest \in rows /\ \A x \in rows : x <= newest
    <3>1. rows \in SUBSET (0..n)
      BY <2>2
    <3>2. \E r \in rows : \A x \in rows : x <= r
      BY <2>1, <3>1, HasGreatest
    <3> QED BY <3>2
  <2>4. Oldest(rows) \in rows /\ \A x \in rows : Oldest(rows) <= x
    <3>1. \E r \in rows : \A x \in rows : r <= x
      BY <2>2, HasLeast
    <3> QED BY <3>1 DEF Oldest
  <2>5. \A r \in Matching(filter) : r \in Nat
    BY <2>0, MatchingRows
  <2> HIDE DEF newest
  <2>6. rows = {r \in {q \in Matching(filter) : q <= newest} : r >= Oldest(rows)}
    <3>1. \A r \in rows : r \in Matching(filter) /\ r <= newest /\ r >= Oldest(rows)
      BY <2>0, <2>2, <2>3, <2>4 DEF Gapless
    <3>2. \A r \in Matching(filter) : r <= newest /\ r >= Oldest(rows) => r \in rows
      BY <2>0, <2>2, <2>3, <2>4, <2>5 DEF Gapless
    <3> QED BY <3>1, <3>2
  <2>7. cursor # NoCursor => cursor \in rows
    BY <2>0 DEF EndsAt
  <2>8. cursor = NoCursor => rows = {r \in Matching(filter) : r <= newest}
    BY <2>0, <2>3 DEF EndsAt, Gapless
  <2> QED BY <2>6, <2>7, <2>8 DEF newest
<1> QED
  BY <1>1, PagesInvHolds, PTL

-----------------------------------------------------------------------------
(***************************************************************************)
(* The list views.                                                         *)
(***************************************************************************)

Loads ==
  [at : {"sent", "served"}, what : {"load"}, mount : Nat, by : {"shown", "change"},
   got : SUBSET ({0, 1} \X Nat)]
Changes ==
  [at : {"sent", "served", "refused"}, what : {"change"}, mount : Nat,
   after : {"reload", "local", "both", "optimistic"}, item : {0, 1} \X Nat]

ViewShape ==
  /\ view \in Views /\ mount \in Nat /\ asked \in Nat
  /\ server \in SUBSET ({0, 1} \X Nat) /\ list \in SUBSET ({0, 1} \X Nat)
  /\ flight \in [ViewCalls -> {ViewIdle} \cup Loads \cup Changes]
  /\ failed \in BOOLEAN /\ crossed \in BOOLEAN

Guarded == {"shown", "change"} \subseteq view.guarded

\* What a request brings is on the server, an operation is about what was shown.
RequestsTrue ==
  \A k \in ViewCalls :
    /\ IsLoad(flight[k]) => flight[k].got \subseteq OnServer(flight[k].mount)
    /\ IsChange(flight[k]) =>
         /\ flight[k].item[1] = Shown(flight[k].mount)
         /\ flight[k].after \in view.after
         /\ flight[k].at = "served" => flight[k].item \in server

NothingLoads == \A k \in ViewCalls : ~Live(flight[k], mount)

\* Operations under way whose change the list shows before they are carried out.
Moving(k) == IsChange(flight[k]) /\ flight[k].after = "optimistic"
MovedTo(item) == \E k \in ViewCalls : Moving(k) /\ Mounted(flight[k]) /\ flight[k].item = item

\* A view mounted for its workspace shows nothing else, once nothing loads.
ShowsNoGhost ==
  Guarded /\ ~failed /\ NothingLoads =>
    \A item \in list : item \in OnServer(mount) \/ MovedTo(item)

\* While no answer can pass another there is one load at most that will be shown,
\* it is for what is shown, and every operation under way will be shown too.
NoneCrosses ==
  ~crossed => /\ ~Crossing(flight, mount)
              /\ \A k \in ViewCalls : IsChange(flight[k]) => Mounted(flight[k])

\* Changes the server has and the answer to whose operation is still to come.
Answering(item) ==
  \E k \in ViewCalls : /\ IsChange(flight[k]) /\ flight[k].at = "served"
                       /\ flight[k].after # "optimistic" /\ flight[k].item = item
Ahead(item) == \E k \in ViewCalls : Moving(k) /\ flight[k].at # "served" /\ flight[k].item = item

\* A list read, or shown, is behind the server by such changes, and ahead of it by
\* those that are shown before they are carried out.
LoadNearly ==
  ~crossed /\ ~failed => \A k \in ViewCalls :
    Live(flight[k], mount) /\ flight[k].at = "served" =>
      \A item \in OnServer(mount) : item \in flight[k].got \/ Answering(item)

ListNearly ==
  ~crossed /\ ~failed /\ NothingLoads =>
    /\ \A item \in list : item \in OnServer(mount) \/ Ahead(item)
    /\ \A item \in OnServer(mount) : item \in list \/ Answering(item)
    /\ \A k \in ViewCalls : Moving(k) => flight[k].item \in list

ViewInv == ViewShape /\ RequestsTrue /\ ShowsNoGhost /\ NoneCrosses /\ LoadNearly /\ ListNearly

\* What the proofs need to know of the habits.
Habits ==
  /\ "change" \in view.guarded => Guarded
  /\ Guarded => view.clears
  /\ \A after \in view.after :
       /\ after \in {"reload", "local", "both", "optimistic"}
       /\ after # "reload" => Guarded

LEMMA HabitsOfViews ==
  ASSUME view \in Views
  PROVE  Habits
<1>1. ASSUME NEW after, NEW refresh, NEW busy, view = Keyed(after, refresh, busy),
             after \in SUBSET {"reload", "local", "both", "optimistic"}
      PROVE  Habits
  BY <1>1 DEF Keyed, Habits, Guarded
<1>2. CASE view = MembersView \/ view = SearchPalette
  BY <1>2 DEF MembersView, SearchPalette, Habits, Guarded
<1>3. CASE view \in {FilesView, RequestsView, CalendarView, FeedbackView, OrgTreeView}
  <2>1. \E refresh, busy : view = Keyed({"reload"}, refresh, busy)
    BY <1>3 DEF FilesView, RequestsView, CalendarView, FeedbackView, OrgTreeView
  <2> QED BY <1>1, <2>1
<1>4. CASE view \in {AttendanceView, ModerationQueueView, ProjectsView, AdminView, ClientPortalView}
  <2>1. \E after \in SUBSET {"reload", "local", "both", "optimistic"} : \E refresh, busy :
          view = Keyed(after, refresh, busy)
    BY <1>4 DEF AttendanceView, ModerationQueueView, ProjectsView, AdminView, ClientPortalView
  <2> QED BY <1>1, <2>1
<1> QED BY <1>2, <1>3, <1>4 DEF Views

LEMMA Kinds ==
  ASSUME NEW r \in {ViewIdle} \cup Loads \cup Changes
  PROVE  /\ IsLoad(r) <=> r \in Loads
         /\ IsChange(r) <=> r \in Changes
         /\ ~(IsLoad(r) /\ IsChange(r))
<1>1. r \in Loads => r.at # "idle" /\ r.what = "load"
  BY DEF Loads
<1>2. r \in Changes => r.at # "idle" /\ r.what = "change"
  BY DEF Changes
<1>3. ViewIdle.at = "idle"
  BY DEF ViewIdle
<1> QED BY <1>1, <1>2, <1>3 DEF IsLoad, IsChange

LEMMA IdleIsNeither ==
  /\ ~IsLoad(ViewIdle) /\ ~IsChange(ViewIdle) /\ \A m : ~Live(ViewIdle, m)
BY DEF IsLoad, IsChange, Live

\* Of what is on the server nothing goes.
LEMMA ServerGrows ==
  ASSUME server \subseteq server', NEW m
  PROVE  OnServer(m) \subseteq OnServer(m)'
BY DEF OnServer

\* A step that sends a load which will be shown: the list may be anything until it
\* is there.
LEMMA SentLoad ==
  ASSUME NEW f, NEW m, Requests(f, m), view' = view,
         NEW k \in ViewCalls, Live(f[k], m), f[k].at = "sent", \A c \in ViewCalls : ~(IsLoad(f[c]) /\ IsChange(f[c]))
  PROVE  /\ flight' = f /\ mount' = m
         /\ (ShowsNoGhost /\ NoneCrosses /\ LoadNearly /\ ListNearly)'
<1>1. flight' = f /\ mount' = m
  BY DEF Requests
<1>2. crossed' = FALSE => ~Crossing(f, m)
  BY DEF Requests
<1>3. Crossing(flight, mount)' <=> Crossing(f, m)
  BY <1>1 DEF Crossing, Live, MountedAt
<1>4. Live(flight[k], mount)'
  BY <1>1 DEF Live
<1>5. ~NothingLoads'
  BY <1>4 DEF NothingLoads
<1>6. ShowsNoGhost' /\ ListNearly'
  BY <1>5 DEF ShowsNoGhost, ListNearly
<1>7. ASSUME ~Crossing(f, m), NEW c \in ViewCalls \ {k}
      PROVE  ~Live(f[c], m) /\ (IsChange(f[c]) => MountedAt(f[c], m))
  BY <1>7 DEF Crossing
<1>8. ~IsChange(f[k])
  BY DEF Live
<1>9. NoneCrosses'
  <2>1. ASSUME ~Crossing(f, m), NEW c \in ViewCalls, IsChange(f[c])
        PROVE  MountedAt(f[c], m)
    BY <1>7, <1>8, <2>1
  <2>2. \A c \in ViewCalls : Mounted(flight[c])' <=> MountedAt(f[c], m)
    BY <1>1 DEF Mounted, MountedAt
  <2> QED BY <1>1, <1>2, <1>3, <2>1, <2>2 DEF NoneCrosses
<1>10. LoadNearly'
  <2>1. \A c \in ViewCalls : Live(flight[c], mount)' <=> Live(f[c], m)
    BY <1>1 DEF Live
  <2> QED BY <1>1, <1>2, <1>7, <2>1 DEF LoadNearly
<1> QED BY <1>1, <1>6, <1>9, <1>10

\* Any other step leaves the two histories as they were, but for a new crossing.
LEMMA SentNoLoad ==
  ASSUME ViewShape, NEW f, NEW m, Requests(f, m),
         \A k \in ViewCalls : f[k] # flight[k] => ~(Live(f[k], m) /\ f[k].at = "sent")
  PROVE  /\ flight' = f /\ mount' = m /\ failed' = failed
         /\ crossed' \in BOOLEAN /\ (~crossed' => ~crossed /\ ~Crossing(f, m))
BY DEF Requests, ViewShape

\* Without a crossing, a load that will be shown is the only one, for what is shown,
\* and every operation under way is shown by loading again.
LEMMA LoadAlone ==
  ASSUME ~Crossing(flight, mount), NEW k \in ViewCalls, Live(flight[k], mount)
  PROVE  /\ Shown(flight[k].mount) = Shown(mount)
         /\ \A c \in ViewCalls \ {k} : ~Live(flight[c], mount)
         /\ \A c \in ViewCalls : IsChange(flight[c]) /\ c # k =>
              flight[c].after \notin {"local", "optimistic"}
BY DEF Crossing

LEMMA FlightOf ==
  ASSUME ViewShape, NEW k \in ViewCalls
  PROVE  /\ flight[k] \in {ViewIdle} \cup Loads \cup Changes
         /\ IsLoad(flight[k]) <=> flight[k] \in Loads
         /\ IsChange(flight[k]) <=> flight[k] \in Changes
         /\ ~(IsLoad(flight[k]) /\ IsChange(flight[k]))
<1>1. flight[k] \in {ViewIdle} \cup Loads \cup Changes
  BY DEF ViewShape
<1> QED BY <1>1, Kinds

\* A load sent from call k.
LEMMA LoadKeeps ==
  ASSUME ViewInv, NEW k \in ViewCalls, NEW m \in Nat, NEW n \in Nat,
         NEW by \in {"shown", "change"},
         Requests([flight EXCEPT ![k] = Load(n, by)], m),
         by \in view.guarded => n = m,
         UNCHANGED <<view, server>>, asked' \in Nat, list' \in SUBSET ({0, 1} \X Nat)
  PROVE  ViewInv'
<1> DEFINE f == [flight EXCEPT ![k] = Load(n, by)]
<1>1. ViewShape /\ RequestsTrue
  BY DEF ViewInv
<1>2. Load(n, by) \in Loads
  BY DEF Load, Loads
<1>3. f \in [ViewCalls -> {ViewIdle} \cup Loads \cup Changes]
  BY <1>1, <1>2 DEF ViewShape
<1>4. f[k] = Load(n, by) /\ \A c \in ViewCalls \ {k} : f[c] = flight[c]
  BY <1>1 DEF ViewShape
<1>5. \A c \in ViewCalls : ~(IsLoad(f[c]) /\ IsChange(f[c]))
  BY <1>3, Kinds
<1>6. IsLoad(Load(n, by)) /\ ~IsChange(Load(n, by))
  BY <1>2, Kinds
<1>7. Live(f[k], m) /\ f[k].at = "sent"
  BY <1>4, <1>6 DEF Live, Load
<1> HIDE DEF f
<1>8. Requests(f, m)
  BY DEF f
<1>9. /\ flight' = f /\ mount' = m
      /\ (ShowsNoGhost /\ NoneCrosses /\ LoadNearly /\ ListNearly)'
  BY <1>5, <1>7, <1>8, SentLoad
<1>10. crossed' \in BOOLEAN /\ failed' \in BOOLEAN
  BY <1>1 DEF Requests, ViewShape
<1>11. ViewShape'
  BY <1>1, <1>3, <1>9, <1>10 DEF ViewShape
<1>12. RequestsTrue'
  <2>1. Load(n, by).got = {}
    BY DEF Load
  <2>2. server' = server /\ view' = view
    OBVIOUS
  <2> QED BY <1>1, <1>4, <1>6, <1>9, <2>1, <2>2 DEF RequestsTrue, OnServer
<1> QED BY <1>9, <1>11, <1>12 DEF ViewInv

LEMMA SwitchKeeps ==
  ASSUME ViewInv, NEW k \in ViewCalls, Switch(k)
  PROVE  ViewInv'
<1>1. ViewShape
  BY DEF ViewInv
<1>2. mount + 1 \in Nat /\ asked' \in Nat /\ list' \in SUBSET ({0, 1} \X Nat)
  BY <1>1 DEF Switch, ViewShape
<1>3. Requests([flight EXCEPT ![k] = Load(mount + 1, "shown")], mount + 1)
  BY DEF Switch
<1>4. UNCHANGED <<view, server>>
  BY DEF Switch
<1> QED BY <1>2, <1>3, <1>4, LoadKeeps

LEMMA RefreshKeeps ==
  ASSUME ViewInv, NEW k \in ViewCalls, Refresh(k)
  PROVE  ViewInv'
<1>1. ViewShape
  BY DEF ViewInv
<1>2. mount \in Nat /\ asked' \in Nat /\ list' \in SUBSET ({0, 1} \X Nat)
  BY <1>1 DEF Refresh, ViewShape
<1>3. Requests([flight EXCEPT ![k] = Load(mount, "shown")], mount)
  BY DEF Refresh
<1>4. UNCHANGED <<view, server>>
  BY DEF Refresh
<1> QED BY <1>2, <1>3, <1>4, LoadKeeps

\* An operation is asked for.
LEMMA ChangeKeeps ==
  ASSUME ViewInv, NEW k \in ViewCalls, Change(k)
  PROVE  ViewInv'
<1>1. ViewShape /\ RequestsTrue
  BY DEF ViewInv
<1>2. PICK after \in view.after :
        LET item == <<Shown(mount), asked + 1>>
        IN  /\ Requests([flight EXCEPT ![k] =
                 [at |-> "sent", what |-> "change", mount |-> mount, after |-> after,
                  item |-> item]], mount)
            /\ list' = IF after = "optimistic" THEN list \cup {item} ELSE list
  BY DEF Change
<1>0. PICK item : item = <<Shown(mount), asked + 1>>
  OBVIOUS
<1>r. PICK r : r = [at |-> "sent", what |-> "change", mount |-> mount, after |-> after,
                    item |-> item]
  OBVIOUS
<1> DEFINE f == [flight EXCEPT ![k] = r]
<1>3. UNCHANGED <<view, server>> /\ asked' = asked + 1 /\ flight[k] = ViewIdle
  BY DEF Change
<1>4. Habits
  BY <1>1, HabitsOfViews DEF ViewShape
<1>5. item \in {0, 1} \X Nat /\ item[1] = Shown(mount)
  BY <1>0, <1>1 DEF ViewShape, Shown
<1>6. r \in Changes
  BY <1>r, <1>1, <1>4, <1>5 DEF Changes, Habits, ViewShape
<1>7. /\ r.mount = mount /\ r.after = after /\ r.item = item /\ r.at = "sent"
      /\ IsChange(r) /\ ~IsLoad(r) /\ \A m : ~Live(r, m)
  BY <1>r, <1>6, Kinds DEF Live
<1>8. f[k] = r /\ \A c \in ViewCalls \ {k} : f[c] = flight[c]
  BY <1>1 DEF ViewShape
<1>9. f \in [ViewCalls -> {ViewIdle} \cup Loads \cup Changes]
  BY <1>1, <1>6 DEF ViewShape
<1>10. Requests(f, mount) /\ list' = IF after = "optimistic" THEN list \cup {item} ELSE list
  BY <1>0, <1>r, <1>2
<1> HIDE DEF f
<1>11. /\ flight' = f /\ mount' = mount /\ failed' = failed
       /\ crossed' \in BOOLEAN /\ (~crossed' => ~crossed /\ ~Crossing(f, mount))
  <2>1. \A c \in ViewCalls : f[c] # flight[c] => ~(Live(f[c], mount) /\ f[c].at = "sent")
    BY <1>7, <1>8
  <2> QED BY <1>1, <1>10, <2>1, SentNoLoad
<1>12. ViewShape'
  BY <1>1, <1>3, <1>5, <1>9, <1>10, <1>11 DEF ViewShape
<1>13. RequestsTrue'
  BY <1>1, <1>3, <1>5, <1>7, <1>8, <1>11 DEF RequestsTrue, OnServer
<1>14. OnServer(mount)' = OnServer(mount)
  BY <1>3, <1>11 DEF OnServer
<1>15. \A c \in ViewCalls : Live(flight[c], mount)' <=> Live(flight[c], mount) /\ c # k
  <2>1. \A c \in ViewCalls : Live(flight[c], mount)' <=> Live(f[c], mount)
    BY <1>3, <1>11 DEF Live
  <2>2. ~Live(flight[k], mount)
    BY <1>3, IdleIsNeither
  <2> QED BY <1>7, <1>8, <2>1, <2>2
<1>16. NothingLoads' <=> NothingLoads
  <2>1. ~Live(flight[k], mount)
    BY <1>3, IdleIsNeither
  <2> QED BY <1>15, <2>1 DEF NothingLoads
<1>17. Mounted(r)' /\ \A q : Mounted(q)' <=> Mounted(q)
  BY <1>3, <1>7, <1>11 DEF Mounted, MountedAt
<1>18. ASSUME NEW x
       PROVE  /\ MovedTo(x) => MovedTo(x)' 
              /\ Answering(x) => Answering(x)'
              /\ Ahead(x) => Ahead(x)'
  <2>1. \A c \in ViewCalls : IsChange(flight[c]) => c # k /\ flight'[c] = flight[c]
    BY <1>3, <1>8, <1>11, IdleIsNeither
  <2>2. MovedTo(x) => MovedTo(x)'
    BY <1>17, <2>1 DEF MovedTo, Moving
  <2>3. Answering(x) => Answering(x)'
    BY <2>1 DEF Answering
  <2>4. Ahead(x) => Ahead(x)'
    BY <2>1 DEF Ahead, Moving
  <2> QED BY <2>2, <2>3, <2>4
<1>19. after = "optimistic" => MovedTo(item)' /\ Ahead(item)'
  <2>1. flight'[k] = r /\ Mounted(flight[k])'
    BY <1>3, <1>7, <1>8, <1>11 DEF Mounted, MountedAt
  <2> SUFFICES ASSUME after = "optimistic" PROVE MovedTo(item)' /\ Ahead(item)'
    OBVIOUS
  <2>2. Moving(k)' /\ flight'[k].item = item /\ flight'[k].at # "served"
    BY <1>7, <2>1 DEF Moving
  <2> QED BY <2>1, <2>2 DEF MovedTo, Ahead
<1>20. ShowsNoGhost'
  <2> SUFFICES ASSUME Guarded', ~failed', NothingLoads', NEW x \in list'
               PROVE  (x \in OnServer(mount) \/ MovedTo(x))'
    BY DEF ShowsNoGhost
  <2>1. x \in list => x \in OnServer(mount) \/ MovedTo(x)
    BY <1>3, <1>11, <1>16 DEF ViewInv, ShowsNoGhost, Guarded
  <2>2. CASE x \in list
    BY <1>14, <1>18, <2>1, <2>2
  <2>3. CASE x \notin list
    <3>1. after = "optimistic" /\ x = item
      BY <1>10, <2>3
    <3> QED BY <1>19, <3>1
  <2> QED BY <2>2, <2>3
<1>21. NoneCrosses'
  <2>1. ~crossed' => ~Crossing(flight, mount)'
    <3>1. Crossing(flight, mount)' <=> Crossing(f, mount)
      BY <1>3, <1>11 DEF Crossing, Live, MountedAt
    <3> QED BY <1>11, <3>1
  <2>2. ASSUME ~crossed', NEW c \in ViewCalls, IsChange(flight'[c])
        PROVE  Mounted(flight[c])'
    <3>1. Mounted(flight[c])' <=> Mounted(f[c])
      BY <1>3, <1>11 DEF Mounted, MountedAt
    <3>2. Mounted(r)
      BY <1>7 DEF Mounted, MountedAt
    <3>3. c # k => Mounted(flight[c])
      BY <1>8, <1>11, <2>2 DEF ViewInv, NoneCrosses
    <3> QED BY <1>8, <3>1, <3>2, <3>3
  <2> QED BY <2>1, <2>2 DEF NoneCrosses
<1>22. LoadNearly'
  <2> SUFFICES ASSUME ~crossed', ~failed', NEW c \in ViewCalls, Live(flight[c], mount)',
                      flight'[c].at = "served", NEW x \in OnServer(mount)'
               PROVE  x \in flight'[c].got \/ Answering(x)'
    BY DEF LoadNearly
  <2>1. Live(flight[c], mount) /\ flight'[c] = flight[c] /\ x \in OnServer(mount)
    BY <1>8, <1>11, <1>14, <1>15
  <2>2. x \in flight[c].got \/ Answering(x)
    BY <1>11, <2>1 DEF ViewInv, LoadNearly
  <2> QED BY <1>18, <2>1, <2>2
<1>23. ListNearly'
  <2> SUFFICES ASSUME ~crossed', ~failed', NothingLoads'
               PROVE  /\ \A x \in list' : x \in OnServer(mount)' \/ Ahead(x)'
                      /\ \A x \in OnServer(mount)' : x \in list' \/ Answering(x)'
                      /\ \A c \in ViewCalls : Moving(c)' => flight'[c].item \in list'
    BY DEF ListNearly
  <2>1. /\ \A x \in list : x \in OnServer(mount) \/ Ahead(x)
        /\ \A x \in OnServer(mount) : x \in list \/ Answering(x)
        /\ \A c \in ViewCalls : Moving(c) => flight[c].item \in list
    BY <1>11, <1>16 DEF ViewInv, ListNearly
  <2>2. \A x \in list' : x \in list \/ (x = item /\ after = "optimistic")
    BY <1>10
  <2>3. list \subseteq list'
    BY <1>10
  <2>4. \A x \in list' : x \in OnServer(mount)' \/ Ahead(x)'
    BY <1>14, <1>18, <1>19, <2>1, <2>2
  <2>5. \A x \in OnServer(mount)' : x \in list' \/ Answering(x)'
    BY <1>14, <1>18, <2>1, <2>3
  <2>6. ASSUME NEW c \in ViewCalls, Moving(c)'
        PROVE  flight'[c].item \in list'
    <3>1. CASE c = k
      BY <1>7, <1>8, <1>10, <1>11, <2>6, <3>1 DEF Moving
    <3>2. CASE c # k
      BY <1>8, <1>11, <2>1, <2>3, <2>6, <3>2 DEF Moving
    <3> QED BY <3>1, <3>2
  <2> QED BY <2>4, <2>5, <2>6
<1> QED BY <1>12, <1>13, <1>20, <1>21, <1>22, <1>23 DEF ViewInv

\* The server reads the list.
LEMMA ListReadKeeps ==
  ASSUME ViewInv, NEW k \in ViewCalls, Served(k), IsLoad(flight[k])
  PROVE  ViewInv'
<1>1. ViewShape /\ RequestsTrue
  BY DEF ViewInv
<1>2. PICK f : f = [flight EXCEPT ![k].at = "served", ![k].got = OnServer(flight[k].mount)]
  OBVIOUS
<1>3. Requests(f, mount) /\ UNCHANGED <<view, server, list, asked>> /\ flight[k].at = "sent"
  BY <1>2 DEF Served
<1>4. flight[k] \in Loads /\ ~IsChange(flight[k])
  BY <1>1, FlightOf
<1>5. /\ f[k] = [flight[k] EXCEPT !.at = "served", !.got = OnServer(flight[k].mount)]
      /\ \A c \in ViewCalls \ {k} : f[c] = flight[c]
  BY <1>1, <1>2 DEF ViewShape
<1>6. /\ f[k] \in Loads /\ f[k].at = "served" /\ f[k].got = OnServer(flight[k].mount)
      /\ f[k].mount = flight[k].mount /\ f[k].by = flight[k].by
  BY <1>1, <1>4, <1>5 DEF Loads, OnServer, ViewShape
<1>7. IsLoad(f[k]) /\ ~IsChange(f[k])
  BY <1>6, Kinds
<1>8. f \in [ViewCalls -> {ViewIdle} \cup Loads \cup Changes]
  <2>1. f = [c \in ViewCalls |-> f[c]] /\ \A c \in ViewCalls : f[c] \in {ViewIdle} \cup Loads \cup Changes
    BY <1>1, <1>2, <1>5, <1>6 DEF ViewShape
  <2> QED BY <2>1
<1>9. \A c \in ViewCalls : Live(f[c], mount) <=> Live(flight[c], mount)
  BY <1>5, <1>6, <1>7 DEF Live
<1>10. /\ flight' = f /\ mount' = mount /\ failed' = failed
       /\ crossed' \in BOOLEAN /\ (~crossed' => ~crossed /\ ~Crossing(f, mount))
  <2>1. \A c \in ViewCalls : f[c] # flight[c] => ~(Live(f[c], mount) /\ f[c].at = "sent")
    BY <1>5, <1>6
  <2> QED BY <1>1, <1>3, <2>1, SentNoLoad
<1>11. ViewShape'
  BY <1>1, <1>3, <1>8, <1>10 DEF ViewShape
<1>12. RequestsTrue'
  <2>1. ASSUME NEW c \in ViewCalls
        PROVE  /\ IsLoad(flight'[c]) => flight'[c].got \subseteq OnServer(flight[c].mount)'
               /\ IsChange(flight'[c]) =>
                    /\ flight'[c].item[1] = Shown(flight'[c].mount)
                    /\ flight'[c].after \in view'.after
                    /\ flight'[c].at = "served" => flight'[c].item \in server'
    <3>1. CASE c = k
      BY <1>3, <1>6, <1>7, <1>10, <3>1 DEF OnServer
    <3>2. CASE c # k
      <4>1. flight'[c] = flight[c]
        BY <1>5, <1>10, <3>2
      <4> QED BY <1>1, <1>3, <4>1 DEF RequestsTrue, OnServer
    <3> QED BY <3>1, <3>2
  <2> QED BY <2>1 DEF RequestsTrue
<1>13. \A c \in ViewCalls : Live(flight[c], mount)' <=> Live(flight[c], mount)
  <2>1. \A c \in ViewCalls : Live(flight[c], mount)' <=> Live(f[c], mount)
    BY <1>3, <1>10 DEF Live
  <2> QED BY <1>9, <2>1
<1>14. /\ OnServer(mount)' = OnServer(mount)
       /\ NothingLoads' <=> NothingLoads
  BY <1>3, <1>10, <1>13 DEF OnServer, NothingLoads
<1>15. ASSUME NEW c \in ViewCalls, IsChange(flight[c]) \/ IsChange(flight'[c])
       PROVE  flight'[c] = flight[c] /\ (Mounted(flight[c])' <=> Mounted(flight[c]))
  BY <1>3, <1>4, <1>5, <1>7, <1>10, <1>15 DEF Mounted, MountedAt
<1>16. ASSUME NEW x
       PROVE  /\ MovedTo(x)' <=> MovedTo(x)
              /\ Answering(x)' <=> Answering(x)
              /\ Ahead(x)' <=> Ahead(x)
  <2>1. MovedTo(x)' <=> MovedTo(x)
    BY <1>15 DEF MovedTo, Moving
  <2>2. Answering(x)' <=> Answering(x)
    BY <1>15 DEF Answering
  <2>3. Ahead(x)' <=> Ahead(x)
    BY <1>15 DEF Ahead, Moving
  <2> QED BY <2>1, <2>2, <2>3
<1>17. ShowsNoGhost'
  <2>1. Guarded' <=> Guarded
    BY <1>3 DEF Guarded
  <2> QED BY <1>3, <1>10, <1>14, <1>16, <2>1 DEF ViewInv, ShowsNoGhost
<1>18. NoneCrosses'
  <2>1. Crossing(flight, mount)' <=> Crossing(f, mount)
    BY <1>3, <1>10 DEF Crossing, Live, MountedAt
  <2> QED BY <1>10, <1>15, <2>1 DEF ViewInv, NoneCrosses
<1>19. LoadNearly'
  <2> SUFFICES ASSUME ~crossed', ~failed', NEW c \in ViewCalls, Live(flight[c], mount)',
                      flight'[c].at = "served", NEW x \in OnServer(mount)'
               PROVE  x \in flight'[c].got \/ Answering(x)'
    BY DEF LoadNearly
  <2>1. CASE c = k
    <3>1. ~Crossing(flight, mount) /\ Live(flight[k], mount)
      BY <1>10, <1>13, <2>1 DEF ViewInv, NoneCrosses
    <3>2. Shown(flight[k].mount) = Shown(mount)
      BY <3>1, LoadAlone
    <3>3. x \in OnServer(flight[k].mount)
      BY <1>14, <3>2 DEF OnServer
    <3> QED BY <1>6, <1>10, <2>1, <3>3
  <2>2. CASE c # k
    <3>1. flight'[c] = flight[c] /\ Live(flight[c], mount) /\ x \in OnServer(mount)
      BY <1>5, <1>10, <1>13, <1>14, <2>2
    <3>2. x \in flight[c].got \/ Answering(x)
      BY <1>10, <3>1 DEF ViewInv, LoadNearly
    <3> QED BY <1>16, <3>1, <3>2
  <2> QED BY <2>1, <2>2
<1>20. ListNearly'
  <2>1. \A c \in ViewCalls : Moving(c)' => Moving(c) /\ flight'[c] = flight[c]
    BY <1>15 DEF Moving
  <2> QED BY <1>3, <1>10, <1>14, <1>16, <2>1 DEF ViewInv, ListNearly
<1> QED BY <1>11, <1>12, <1>17, <1>18, <1>19, <1>20 DEF ViewInv

\* The server carries an operation out, or refuses it.
LEMMA WrittenKeeps ==
  ASSUME ViewInv, NEW k \in ViewCalls, Served(k), ~IsLoad(flight[k])
  PROVE  ViewInv'
<1>1. ViewShape /\ RequestsTrue
  BY DEF ViewInv
<1>2. PICK at \in {"served", "refused"} :
        /\ Requests([flight EXCEPT ![k].at = at], mount)
        /\ server' = IF at = "served" THEN server \cup {flight[k].item} ELSE server
  BY DEF Served
<1>3. PICK f : f = [flight EXCEPT ![k].at = at]
  OBVIOUS
<1>4. UNCHANGED <<view, list, asked>> /\ flight[k].at = "sent" /\ flight[k] # ViewIdle
  BY DEF Served
<1>5. flight[k] \in Changes /\ IsChange(flight[k])
  BY <1>1, <1>4, FlightOf
<1>6. f[k] = [flight[k] EXCEPT !.at = at] /\ \A c \in ViewCalls \ {k} : f[c] = flight[c]
  BY <1>1, <1>3 DEF ViewShape
<1>7. /\ f[k] \in Changes /\ f[k].at = at /\ f[k].mount = flight[k].mount
      /\ f[k].after = flight[k].after /\ f[k].item = flight[k].item
  BY <1>5, <1>6 DEF Changes
<1>8. IsChange(f[k]) /\ ~IsLoad(f[k])
  BY <1>7, Kinds
<1>9. f \in [ViewCalls -> {ViewIdle} \cup Loads \cup Changes]
  <2>1. f = [c \in ViewCalls |-> f[c]] /\ \A c \in ViewCalls : f[c] \in {ViewIdle} \cup Loads \cup Changes
    BY <1>1, <1>3, <1>6, <1>7 DEF ViewShape
  <2> QED BY <2>1
<1>10. \A c \in ViewCalls : ~IsLoad(f[c]) <=> ~IsLoad(flight[c])
  BY <1>5, <1>6, <1>8, FlightOf, <1>1
<1>11. /\ flight' = f /\ mount' = mount /\ failed' = failed
       /\ crossed' \in BOOLEAN /\ (~crossed' => ~crossed /\ ~Crossing(f, mount))
  <2>1. \A c \in ViewCalls : f[c] # flight[c] => ~(Live(f[c], mount) /\ f[c].at = "sent")
    BY <1>6, <1>8 DEF Live
  <2>2. Requests(f, mount)
    BY <1>2, <1>3
  <2> QED BY <1>1, <2>1, <2>2, SentNoLoad
<1>12. flight[k].item \in {0, 1} \X Nat
  BY <1>5 DEF Changes
<1>13. ViewShape'
  BY <1>1, <1>2, <1>4, <1>9, <1>11, <1>12 DEF ViewShape
<1>14. server \subseteq server' /\ \A x \in server' : x \in server \/ (x = flight[k].item /\ at = "served")
  BY <1>2
<1>15. \A m : OnServer(m) \subseteq OnServer(m)'
  BY <1>14 DEF OnServer
<1>16. RequestsTrue'
  <2>1. ASSUME NEW c \in ViewCalls, IsLoad(flight'[c])
        PROVE  flight'[c].got \subseteq OnServer(flight[c].mount)'
    <3>1. flight'[c] = flight[c]
      BY <1>6, <1>8, <1>11, <2>1
    <3>2. flight[c].got \subseteq OnServer(flight[c].mount)
      BY <1>1, <2>1, <3>1 DEF RequestsTrue
    <3> QED BY <1>14, <3>1, <3>2 DEF OnServer
  <2>2. ASSUME NEW c \in ViewCalls, IsChange(flight'[c])
        PROVE  /\ flight'[c].item[1] = Shown(flight'[c].mount)
               /\ flight'[c].after \in view'.after
               /\ flight'[c].at = "served" => flight'[c].item \in server'
    <3>1. CASE c = k
      BY <1>1, <1>2, <1>4, <1>5, <1>7, <1>11, <3>1 DEF RequestsTrue
    <3>2. CASE c # k
      BY <1>1, <1>4, <1>6, <1>11, <1>14, <2>2, <3>2 DEF RequestsTrue
    <3> QED BY <3>1, <3>2
  <2> QED BY <2>1, <2>2 DEF RequestsTrue
<1>17. \A c \in ViewCalls : Live(flight[c], mount)' <=> Live(flight[c], mount)
  BY <1>4, <1>5, <1>6, <1>8, <1>11 DEF Live, IsLoad, IsChange
<1>18. NothingLoads' <=> NothingLoads
  BY <1>17 DEF NothingLoads
<1>19. /\ OnServer(mount) \subseteq OnServer(mount)'
       /\ \A x \in OnServer(mount)' : x \in OnServer(mount) \/ (x = flight[k].item /\ at = "served")
  BY <1>11, <1>14 DEF OnServer
<1>20. ASSUME NEW c \in ViewCalls
       PROVE  /\ IsChange(flight'[c]) <=> IsChange(flight[c])
              /\ IsChange(flight[c]) =>
                   /\ flight'[c].item = flight[c].item /\ flight'[c].after = flight[c].after
                   /\ flight'[c].mount = flight[c].mount
                   /\ c # k => flight'[c].at = flight[c].at
                   /\ Mounted(flight[c])' <=> Mounted(flight[c])
  BY <1>4, <1>5, <1>6, <1>7, <1>8, <1>11 DEF Mounted, MountedAt
<1>21. ASSUME NEW x
       PROVE  /\ MovedTo(x)' <=> MovedTo(x)
              /\ Answering(x) => Answering(x)'
              /\ Ahead(x) /\ ~Ahead(x)' => x = flight[k].item /\ at = "served" /\ Moving(k)
  <2>1. MovedTo(x)' <=> MovedTo(x)
    BY <1>20 DEF MovedTo, Moving
  <2>2. Answering(x) => Answering(x)'
    <3>1. \A c \in ViewCalls : IsChange(flight[c]) /\ flight[c].at = "served" => c # k
      BY <1>4
    <3> QED BY <1>20, <3>1 DEF Answering
  <2>3. Ahead(x) /\ ~Ahead(x)' => x = flight[k].item /\ at = "served" /\ Moving(k)
    BY <1>7, <1>11, <1>20 DEF Ahead, Moving
  <2> QED BY <2>1, <2>2, <2>3
<1>22. ShowsNoGhost'
  <2>1. Guarded' <=> Guarded
    BY <1>4 DEF Guarded
  <2> QED BY <1>4, <1>11, <1>18, <1>19, <1>21, <2>1 DEF ViewInv, ShowsNoGhost
<1>23. NoneCrosses'
  <2>1. Crossing(flight, mount)' <=> Crossing(f, mount)
    BY <1>4, <1>11 DEF Crossing, Live, MountedAt
  <2> QED BY <1>11, <1>20, <2>1 DEF ViewInv, NoneCrosses
<1>24. ASSUME NEW x, x = flight[k].item, at = "served", flight[k].after # "optimistic"
       PROVE  Answering(x)'
  BY <1>24, <1>7, <1>8, <1>11 DEF Answering
<1>25. LoadNearly'
  <2> SUFFICES ASSUME ~crossed', ~failed', NEW c \in ViewCalls, Live(flight[c], mount)',
                      flight'[c].at = "served", NEW x \in OnServer(mount)'
               PROVE  x \in flight'[c].got \/ Answering(x)'
    BY DEF LoadNearly
  <2>1. Live(flight[c], mount) /\ c # k /\ flight'[c] = flight[c]
    BY <1>6, <1>8, <1>11, <1>17 DEF Live
  <2>2. CASE x \in OnServer(mount)
    <3>1. x \in flight[c].got \/ Answering(x)
      BY <1>11, <2>1, <2>2 DEF ViewInv, LoadNearly
    <3> QED BY <1>21, <2>1, <3>1
  <2>3. CASE x \notin OnServer(mount)
    <3>1. x = flight[k].item /\ at = "served"
      BY <1>19, <2>3
    <3>2. ~Crossing(flight, mount)
      BY <1>11 DEF ViewInv, NoneCrosses
    <3>3. flight[k].after # "optimistic"
      BY <1>5, <2>1, <3>2, LoadAlone
    <3> QED BY <1>24, <3>1, <3>3
  <2> QED BY <2>2, <2>3
<1>26. ListNearly'
  <2> SUFFICES ASSUME ~crossed', ~failed', NothingLoads'
               PROVE  /\ \A x \in list' : x \in OnServer(mount)' \/ Ahead(x)'
                      /\ \A x \in OnServer(mount)' : x \in list' \/ Answering(x)'
                      /\ \A c \in ViewCalls : Moving(c)' => flight'[c].item \in list'
    BY DEF ListNearly
  <2>1. /\ \A x \in list : x \in OnServer(mount) \/ Ahead(x)
        /\ \A x \in OnServer(mount) : x \in list \/ Answering(x)
        /\ \A c \in ViewCalls : Moving(c) => flight[c].item \in list
    BY <1>11, <1>18 DEF ViewInv, ListNearly
  <2>2. ASSUME NEW x \in list'
        PROVE  x \in OnServer(mount)' \/ Ahead(x)'
    <3>1. CASE x \in OnServer(mount) \/ Ahead(x)'
      BY <1>19, <3>1
    <3>2. CASE x \notin OnServer(mount) /\ ~Ahead(x)'
      <4>1. x = flight[k].item /\ at = "served" /\ Moving(k)
        BY <1>4, <1>21, <2>1, <2>2, <3>2
      <4>2. Guarded /\ Mounted(flight[k])
        <5>1. Habits /\ flight[k].after \in view.after /\ flight[k].after = "optimistic"
          BY <1>1, <1>5, <4>1, HabitsOfViews DEF ViewShape, RequestsTrue, Moving
        <5>2. Guarded
          BY <5>1 DEF Habits
        <5>3. Mounted(flight[k])
          BY <1>5, <1>11 DEF ViewInv, NoneCrosses
        <5> QED BY <5>2, <5>3
      <4>3. flight[k].mount = mount /\ flight[k].item[1] = Shown(mount)
        BY <1>1, <1>5, <4>2 DEF Guarded, Mounted, MountedAt, RequestsTrue
      <4>4. x \in server'
        BY <1>2, <4>1
      <4> QED BY <1>11, <4>1, <4>3, <4>4 DEF OnServer
    <3> QED BY <3>1, <3>2
  <2>3. ASSUME NEW x \in OnServer(mount)'
        PROVE  x \in list' \/ Answering(x)'
    <3>1. CASE x \in OnServer(mount)
      BY <1>4, <1>21, <2>1, <3>1
    <3>2. CASE x \notin OnServer(mount)
      <4>1. x = flight[k].item /\ at = "served"
        BY <1>19, <2>3, <3>2
      <4>2. flight[k].after = "optimistic" => x \in list
        BY <1>5, <2>1, <4>1 DEF Moving
      <4> QED BY <1>4, <1>24, <4>1, <4>2
    <3> QED BY <3>1, <3>2
  <2>4. \A c \in ViewCalls : Moving(c)' => flight'[c].item \in list'
    BY <1>4, <1>20, <2>1 DEF Moving
  <2> QED BY <2>2, <2>3, <2>4
<1> QED BY <1>13, <1>16, <1>22, <1>23, <1>25, <1>26 DEF ViewInv

\* A request is over: what holds whatever becomes of the list.
LEMMA OverKeeps ==
  ASSUME ViewInv, NEW k \in ViewCalls, flight' = [flight EXCEPT ![k] = ViewIdle],
         UNCHANGED <<view, mount, server, asked>>, list' \in SUBSET ({0, 1} \X Nat),
         failed' \in BOOLEAN, crossed' \in BOOLEAN, ~crossed' => ~crossed
  PROVE  (ViewShape /\ RequestsTrue /\ NoneCrosses)'
<1>1. ViewShape /\ RequestsTrue /\ NoneCrosses
  BY DEF ViewInv
<1>2. flight'[k] = ViewIdle /\ \A c \in ViewCalls \ {k} : flight'[c] = flight[c]
  BY <1>1 DEF ViewShape
<1>3. flight' \in [ViewCalls -> {ViewIdle} \cup Loads \cup Changes]
  BY <1>1 DEF ViewShape
<1>4. ViewShape'
  BY <1>1, <1>3 DEF ViewShape
<1>5. RequestsTrue'
  <2>1. ASSUME NEW c \in ViewCalls
        PROVE  /\ IsLoad(flight'[c]) => flight'[c].got \subseteq OnServer(flight[c].mount)'
               /\ IsChange(flight'[c]) =>
                    /\ flight'[c].item[1] = Shown(flight'[c].mount)
                    /\ flight'[c].after \in view'.after
                    /\ flight'[c].at = "served" => flight'[c].item \in server'
    <3>1. CASE c = k
      BY <1>2, <3>1, IdleIsNeither
    <3>2. CASE c # k
      <4>1. flight'[c] = flight[c]
        BY <1>2, <3>2
      <4> QED BY <1>1, <4>1 DEF RequestsTrue, OnServer
    <3> QED BY <3>1, <3>2
  <2> QED BY <2>1 DEF RequestsTrue
<1>6. NoneCrosses'
  <2> SUFFICES ASSUME ~crossed'
               PROVE  /\ ~Crossing(flight, mount)'
                      /\ \A c \in ViewCalls : IsChange(flight'[c]) => Mounted(flight[c])'
    BY DEF NoneCrosses
  <2>1. ~Crossing(flight, mount) /\ \A c \in ViewCalls : IsChange(flight[c]) => Mounted(flight[c])
    BY <1>1 DEF NoneCrosses
  <2>2. ASSUME NEW c \in ViewCalls
        PROVE  /\ Live(flight[c], mount)' => flight'[c] = flight[c] /\ Live(flight[c], mount)
               /\ IsChange(flight'[c]) => flight'[c] = flight[c] /\ IsChange(flight[c])
    BY <1>2, IdleIsNeither DEF Live
  <2>3. \A r, m : MountedAt(r, m)' <=> MountedAt(r, m)
    BY DEF MountedAt
  <2>4. ~Crossing(flight, mount)'
    <3> SUFFICES ASSUME NEW c \in ViewCalls, Live(flight[c], mount)',
                        \/ Shown(flight'[c].mount) # Shown(mount)
                        \/ \E other \in ViewCalls \ {c} :
                             \/ Live(flight[other], mount)'
                             \/ IsChange(flight'[other]) /\ flight'[other].after \in {"local", "optimistic"}
                             \/ IsChange(flight'[other]) /\ ~MountedAt(flight[other], mount)'
                 PROVE  FALSE
      BY DEF Crossing
    <3>1. flight'[c] = flight[c] /\ Live(flight[c], mount)
      BY <2>2
    <3>2. Shown(flight[c].mount) = Shown(mount)
      BY <2>1, <3>1, LoadAlone
    <3>3. PICK other \in ViewCalls \ {c} :
            \/ Live(flight[other], mount)'
            \/ IsChange(flight'[other]) /\ flight'[other].after \in {"local", "optimistic"}
            \/ IsChange(flight'[other]) /\ ~MountedAt(flight[other], mount)'
      BY <3>1, <3>2
    <3>4. \/ Live(flight[other], mount)
          \/ IsChange(flight[other]) /\ flight[other].after \in {"local", "optimistic"}
      <4>1. IsChange(flight'[other]) => MountedAt(flight[other], mount)'
        BY <2>1, <2>2 DEF Mounted, MountedAt
      <4> QED BY <2>2, <3>3, <4>1
    <3> QED BY <2>1, <3>1, <3>4, LoadAlone
  <2>5. \A c \in ViewCalls : IsChange(flight'[c]) => Mounted(flight[c])'
    BY <2>1, <2>2 DEF Mounted, MountedAt
  <2> QED BY <2>4, <2>5
<1> QED BY <1>4, <1>5, <1>6

\* Who else is under way stays under way.
LEMMA OthersStay ==
  ASSUME ViewShape, NEW k \in ViewCalls, flight' = [flight EXCEPT ![k] = ViewIdle],
         UNCHANGED <<view, mount, server>>
  PROVE  /\ flight'[k] = ViewIdle /\ \A c \in ViewCalls \ {k} : flight'[c] = flight[c]
         /\ \A c \in ViewCalls : Live(flight[c], mount)' <=> Live(flight[c], mount) /\ c # k
         /\ \A c \in ViewCalls : IsChange(flight'[c]) <=> IsChange(flight[c]) /\ c # k
         /\ \A c \in ViewCalls \ {k} : Mounted(flight[c])' <=> Mounted(flight[c])
         /\ OnServer(mount)' = OnServer(mount)
         /\ Guarded' <=> Guarded
<1>1. flight'[k] = ViewIdle /\ \A c \in ViewCalls \ {k} : flight'[c] = flight[c]
  BY DEF ViewShape
<1>2. \A c \in ViewCalls : Live(flight[c], mount)' <=> Live(flight[c], mount) /\ c # k
  BY <1>1, IdleIsNeither DEF Live
<1>3. \A c \in ViewCalls : IsChange(flight'[c]) <=> IsChange(flight[c]) /\ c # k
  BY <1>1, IdleIsNeither
<1>4. \A c \in ViewCalls \ {k} : Mounted(flight[c])' <=> Mounted(flight[c])
  BY <1>1 DEF Mounted, MountedAt
<1>5. OnServer(mount)' = OnServer(mount) /\ (Guarded' <=> Guarded)
  BY DEF OnServer, Guarded
<1> QED BY <1>1, <1>2, <1>3, <1>4, <1>5

\* The same of the operations in question.
LEMMA OtherItems ==
  ASSUME ViewShape, NEW k \in ViewCalls, flight' = [flight EXCEPT ![k] = ViewIdle],
         UNCHANGED <<view, mount, server>>, NEW x
  PROVE  /\ MovedTo(x) => MovedTo(x)' \/ (Moving(k) /\ Mounted(flight[k]) /\ flight[k].item = x)
         /\ Answering(x) =>
              \/ Answering(x)'
              \/ /\ IsChange(flight[k]) /\ flight[k].at = "served"
                 /\ flight[k].after # "optimistic" /\ flight[k].item = x
         /\ Ahead(x) => Ahead(x)' \/ (Moving(k) /\ flight[k].at # "served" /\ flight[k].item = x)
<1>1. \A c \in ViewCalls \ {k} :
        /\ flight'[c] = flight[c] /\ (IsChange(flight'[c]) <=> IsChange(flight[c]))
        /\ Mounted(flight[c])' <=> Mounted(flight[c])
  BY OthersStay
<1>2. MovedTo(x) => MovedTo(x)' \/ (Moving(k) /\ Mounted(flight[k]) /\ flight[k].item = x)
  BY <1>1 DEF MovedTo, Moving
<1>3. Answering(x) =>
        \/ Answering(x)'
        \/ /\ IsChange(flight[k]) /\ flight[k].at = "served"
           /\ flight[k].after # "optimistic" /\ flight[k].item = x
  BY <1>1 DEF Answering
<1>4. Ahead(x) => Ahead(x)' \/ (Moving(k) /\ flight[k].at # "served" /\ flight[k].item = x)
  BY <1>1 DEF Ahead, Moving
<1> QED BY <1>2, <1>3, <1>4

\* A load that is over and will not be shown.
LEMMA IgnoredKeeps ==
  ASSUME ViewInv, NEW k \in ViewCalls, IsLoad(flight[k]), ~Live(flight[k], mount),
         flight' = [flight EXCEPT ![k] = ViewIdle],
         UNCHANGED <<view, mount, server, asked, list, failed>>,
         crossed' \in BOOLEAN, ~crossed' => ~crossed
  PROVE  ViewInv'
<1>1. ViewShape /\ ~IsChange(flight[k])
  BY FlightOf DEF ViewInv
<1>2. (ViewShape /\ RequestsTrue /\ NoneCrosses)'
  BY <1>1, OverKeeps DEF ViewShape
<1>3. /\ \A c \in ViewCalls \ {k} : flight'[c] = flight[c]
      /\ \A c \in ViewCalls : Live(flight[c], mount)' <=> Live(flight[c], mount)
      /\ \A c \in ViewCalls : IsChange(flight'[c]) <=> IsChange(flight[c])
      /\ OnServer(mount)' = OnServer(mount) /\ (Guarded' <=> Guarded)
  BY <1>1, OthersStay
<1>4. NothingLoads' <=> NothingLoads
  BY <1>3 DEF NothingLoads
<1>5. \A x : (MovedTo(x) => MovedTo(x)') /\ (Answering(x) => Answering(x)') /\ (Ahead(x) => Ahead(x)')
  BY <1>1, OtherItems DEF Moving
<1>6. ShowsNoGhost'
  BY <1>3, <1>4, <1>5 DEF ViewInv, ShowsNoGhost
<1>7. LoadNearly'
  <2> SUFFICES ASSUME ~crossed', ~failed', NEW c \in ViewCalls, Live(flight[c], mount)',
                      flight'[c].at = "served", NEW x \in OnServer(mount)'
               PROVE  x \in flight'[c].got \/ Answering(x)'
    BY DEF LoadNearly
  <2>1. Live(flight[c], mount) /\ flight'[c] = flight[c] /\ x \in OnServer(mount)
    BY <1>3
  <2>2. x \in flight[c].got \/ Answering(x)
    BY <2>1 DEF ViewInv, LoadNearly
  <2> QED BY <1>5, <2>1, <2>2
<1>8. ListNearly'
  <2> SUFFICES ASSUME ~crossed', ~failed', NothingLoads'
               PROVE  /\ \A x \in list' : x \in OnServer(mount)' \/ Ahead(x)'
                      /\ \A x \in OnServer(mount)' : x \in list' \/ Answering(x)'
                      /\ \A c \in ViewCalls : Moving(c)' => flight'[c].item \in list'
    BY DEF ListNearly
  <2>1. /\ \A x \in list : x \in OnServer(mount) \/ Ahead(x)
        /\ \A x \in OnServer(mount) : x \in list \/ Answering(x)
        /\ \A c \in ViewCalls : Moving(c) => flight[c].item \in list
    BY <1>4 DEF ViewInv, ListNearly
  <2>2. \A c \in ViewCalls : Moving(c)' => Moving(c) /\ flight'[c] = flight[c]
    BY <1>1, <1>3 DEF Moving
  <2> QED BY <1>3, <1>5, <2>1, <2>2
<1> QED BY <1>2, <1>6, <1>7, <1>8 DEF ViewInv

LEMMA LoadedKeeps ==
  ASSUME ViewInv, NEW k \in ViewCalls, Loaded(k)
  PROVE  ViewInv'
<1>1. ViewShape /\ RequestsTrue /\ Habits
  BY HabitsOfViews DEF ViewInv, ViewShape
<1>2. IsLoad(flight[k]) /\ flight[k].at = "served" /\ flight[k] \in Loads /\ ~IsChange(flight[k])
  BY <1>1, FlightOf DEF Loaded
<1>3. /\ flight' = [flight EXCEPT ![k] = ViewIdle] /\ UNCHANGED <<view, mount, server, asked>>
      /\ failed' = failed /\ crossed' \in BOOLEAN /\ (~crossed' => ~crossed)
  <2>1. PICK f : f = [flight EXCEPT ![k] = ViewIdle]
    OBVIOUS
  <2>2. \A c \in ViewCalls : f[c] # flight[c] => ~(Live(f[c], mount) /\ f[c].at = "sent")
    BY <1>1, <2>1, IdleIsNeither DEF ViewShape
  <2>3. Requests(f, mount)
    BY <2>1 DEF Loaded
  <2>4. /\ flight' = f /\ mount' = mount /\ failed' = failed /\ crossed' \in BOOLEAN
        /\ (~crossed' => ~crossed)
    BY <1>1, <2>2, <2>3, SentNoLoad
  <2> QED BY <2>1, <2>4 DEF Loaded
<1>4. CASE ~Live(flight[k], mount)
  <2>1. list' = list
    BY <1>4 DEF Loaded
  <2> QED BY <1>2, <1>3, <1>4, <2>1, IgnoredKeeps
<1>5. CASE Live(flight[k], mount)
  <2>1. list' = flight[k].got
    BY <1>5 DEF Loaded
  <2>2. list' \in SUBSET ({0, 1} \X Nat)
    BY <1>2, <2>1 DEF Loads
  <2>3. (ViewShape /\ RequestsTrue /\ NoneCrosses)'
    BY <1>1, <1>3, <2>2, OverKeeps DEF ViewShape
  <2>4. /\ \A c \in ViewCalls \ {k} : flight'[c] = flight[c]
        /\ \A c \in ViewCalls : Live(flight[c], mount)' <=> Live(flight[c], mount) /\ c # k
        /\ \A c \in ViewCalls : IsChange(flight'[c]) <=> IsChange(flight[c]) /\ c # k
        /\ OnServer(mount)' = OnServer(mount) /\ (Guarded' <=> Guarded)
    BY <1>1, <1>3, OthersStay
  <2>5. \A x : Answering(x) => Answering(x)'
    BY <1>1, <1>2, <1>3, OtherItems
  <2>6. list' \subseteq OnServer(flight[k].mount)
    BY <1>1, <1>2, <2>1 DEF RequestsTrue
  <2>7. ShowsNoGhost'
    <3>1. Guarded => flight[k].mount = mount
      BY <1>2, <1>5 DEF Guarded, Live, Loads
    <3> QED BY <2>4, <2>6, <3>1 DEF ShowsNoGhost
  <2>8. ASSUME ~crossed'
        PROVE  /\ Shown(flight[k].mount) = Shown(mount)
               /\ \A c \in ViewCalls : ~Live(flight[c], mount)'
               /\ \A c \in ViewCalls : ~Moving(c)'
    <3>1. ~Crossing(flight, mount)
      BY <1>3, <2>8 DEF ViewInv, NoneCrosses
    <3>2. /\ Shown(flight[k].mount) = Shown(mount)
          /\ \A c \in ViewCalls \ {k} : ~Live(flight[c], mount)
          /\ \A c \in ViewCalls : IsChange(flight[c]) /\ c # k =>
               flight[c].after \notin {"local", "optimistic"}
      BY <1>5, <3>1, LoadAlone
    <3> QED BY <2>4, <3>2 DEF Moving
  <2>9. LoadNearly'
    BY <2>8 DEF LoadNearly
  <2>10. ListNearly'
    <3> SUFFICES ASSUME ~crossed', ~failed'
                 PROVE  /\ \A x \in list' : x \in OnServer(mount)'
                        /\ \A x \in OnServer(mount)' : x \in list' \/ Answering(x)'
                        /\ \A c \in ViewCalls : ~Moving(c)'
      BY DEF ListNearly
    <3>1. \A x \in list' : x \in OnServer(mount)
      BY <2>6, <2>8 DEF OnServer
    <3>2. \A x \in OnServer(mount) : x \in flight[k].got \/ Answering(x)
      BY <1>2, <1>3, <1>5 DEF ViewInv, LoadNearly
    <3> QED BY <2>1, <2>4, <2>5, <2>8, <3>1, <3>2
  <2> QED BY <2>3, <2>7, <2>9, <2>10 DEF ViewInv
<1> QED BY <1>4, <1>5

\* A load fails: one that would have been shown is on record.
LEMMA LoadFailedKeeps ==
  ASSUME ViewInv, NEW k \in ViewCalls, LoadFailed(k)
  PROVE  ViewInv'
<1>1. ViewShape
  BY DEF ViewInv
<1>2. /\ flight' = [flight EXCEPT ![k] = ViewIdle]
      /\ UNCHANGED <<view, mount, server, asked, crossed>> /\ IsLoad(flight[k])
      /\ failed' = (failed \/ Live(flight[k], mount))
      /\ list' = IF view.empties /\ Live(flight[k], mount) THEN {} ELSE list
  BY DEF LoadFailed
<1>3. crossed' \in BOOLEAN /\ list' \in SUBSET ({0, 1} \X Nat)
  BY <1>1, <1>2 DEF ViewShape
<1>4. CASE ~Live(flight[k], mount)
  <2>1. list' = list /\ failed' = failed
    BY <1>1, <1>2, <1>4 DEF ViewShape
  <2> QED BY <1>2, <1>3, <1>4, <2>1, IgnoredKeeps
<1>5. CASE Live(flight[k], mount)
  <2>1. failed' = TRUE
    BY <1>2, <1>5
  <2>2. (ViewShape /\ RequestsTrue /\ NoneCrosses)'
    BY <1>2, <1>3, <2>1, OverKeeps
  <2>3. (ShowsNoGhost /\ LoadNearly /\ ListNearly)'
    BY <2>1 DEF ShowsNoGhost, LoadNearly, ListNearly
  <2> QED BY <2>2, <2>3 DEF ViewInv
<1> QED BY <1>4, <1>5

\* The answer of an operation sends a load: what reloads is shown, or ignored with
\* the mount it was for.
LEMMA ReloadKeeps ==
  ASSUME ViewInv, NEW k \in ViewCalls, IsChange(flight[k]), Mounted(flight[k]),
         Requests([flight EXCEPT ![k] = Load(flight[k].mount, "change")], mount),
         UNCHANGED <<view, server, asked>>, list' \in SUBSET ({0, 1} \X Nat)
  PROVE  ViewInv'
<1>1. ViewShape /\ Habits
  BY HabitsOfViews DEF ViewInv, ViewShape
<1>2. flight[k] \in Changes
  BY <1>1, FlightOf
<1>3. PICK n \in Nat : n = flight[k].mount
  BY <1>2 DEF Changes
<1>4. "change" \in view.guarded => n = mount
  BY <1>1, <1>3 DEF Habits, Guarded, Mounted, MountedAt
<1>5. mount \in Nat /\ asked' \in Nat
  BY <1>1 DEF ViewShape
<1> QED BY <1>3, <1>4, <1>5, LoadKeeps

\* An operation succeeded: its change is shown, by the copy or by a load.
LEMMA ChangedKeeps ==
  ASSUME ViewInv, NEW k \in ViewCalls, Changed(k)
  PROVE  ViewInv'
<1>1. ViewShape /\ RequestsTrue /\ Habits
  BY HabitsOfViews DEF ViewInv, ViewShape
<1>2. /\ IsChange(flight[k]) /\ flight[k].at = "served" /\ flight[k] \in Changes
      /\ ~IsLoad(flight[k]) /\ UNCHANGED <<view, server, asked>>
  BY <1>1, FlightOf DEF Changed
<1> DEFINE reloads == Mounted(flight[k]) /\ flight[k].after \in {"reload", "both"}
           copied == Mounted(flight[k]) /\ flight[k].after \in {"local", "both"}
<1>3. /\ list' = IF copied THEN list \cup {flight[k].item} ELSE list
      /\ Requests([flight EXCEPT ![k] = IF reloads THEN Load(flight[k].mount, "change")
                                        ELSE ViewIdle], mount)
  BY DEF Changed, ShownBy
<1>4. list' \in SUBSET ({0, 1} \X Nat)
  BY <1>1, <1>2, <1>3 DEF ViewShape, Changes
<1>5. CASE reloads
  BY <1>2, <1>3, <1>4, <1>5, ReloadKeeps
<1>6. CASE ~reloads
  <2>1. /\ flight' = [flight EXCEPT ![k] = ViewIdle] /\ UNCHANGED <<view, mount, server, asked>>
        /\ failed' = failed /\ crossed' \in BOOLEAN /\ (~crossed' => ~crossed)
    <3>1. PICK f : f = [flight EXCEPT ![k] = ViewIdle]
      OBVIOUS
    <3>2. \A c \in ViewCalls : f[c] # flight[c] => ~(Live(f[c], mount) /\ f[c].at = "sent")
      BY <1>1, <3>1, IdleIsNeither DEF ViewShape
    <3>3. Requests(f, mount)
      BY <1>3, <1>6, <3>1
    <3>4. /\ flight' = f /\ mount' = mount /\ failed' = failed /\ crossed' \in BOOLEAN
          /\ (~crossed' => ~crossed)
      BY <1>1, <3>2, <3>3, SentNoLoad
    <3> QED BY <1>2, <3>1, <3>4
  <2>2. (ViewShape /\ RequestsTrue /\ NoneCrosses)'
    BY <1>1, <1>4, <2>1, OverKeeps DEF ViewShape
  <2>3. /\ \A c \in ViewCalls \ {k} : flight'[c] = flight[c]
        /\ \A c \in ViewCalls : Live(flight[c], mount)' <=> Live(flight[c], mount) /\ c # k
        /\ \A c \in ViewCalls : IsChange(flight'[c]) <=> IsChange(flight[c]) /\ c # k
        /\ OnServer(mount)' = OnServer(mount) /\ (Guarded' <=> Guarded)
    BY <1>1, <2>1, OthersStay
  <2>4. \A c \in ViewCalls : Live(flight[c], mount)' <=> Live(flight[c], mount)
    BY <1>2, <2>3 DEF Live
  <2>5. NothingLoads' <=> NothingLoads
    BY <2>4 DEF NothingLoads
  <2>6. Guarded /\ Mounted(flight[k]) => flight[k].item \in OnServer(mount)
    <3>1. Guarded /\ Mounted(flight[k]) => flight[k].mount = mount
      BY DEF Guarded, Mounted, MountedAt
    <3> QED BY <1>1, <1>2, <3>1 DEF RequestsTrue, OnServer
  <2>7. copied => Guarded /\ flight[k].item \in OnServer(mount)
    <3>1. copied => Guarded
      BY <1>1, <1>2 DEF Habits, RequestsTrue
    <3> QED BY <2>6, <3>1
  <2>8. ASSUME NEW x \in list'
        PROVE  x \in list \/ x \in OnServer(mount)
    BY <1>3, <2>7
  <2>9. ShowsNoGhost'
    <3> SUFFICES ASSUME Guarded, ~failed, NothingLoads, NEW x \in list'
                 PROVE  x \in OnServer(mount) \/ MovedTo(x)'
      BY <2>1, <2>3, <2>5 DEF ShowsNoGhost
    <3>1. x \in OnServer(mount) \/ MovedTo(x)
      BY <2>8 DEF ViewInv, ShowsNoGhost
    <3>2. MovedTo(x) => MovedTo(x)' \/ (Mounted(flight[k]) /\ flight[k].item = x)
      BY <1>1, <2>1, OtherItems
    <3> QED BY <2>6, <3>1, <3>2
  <2>10. ASSUME ~crossed'
         PROVE  ~Crossing(flight, mount) /\ Mounted(flight[k])
    BY <1>2, <2>1, <2>10 DEF ViewInv, NoneCrosses
  <2>11. LoadNearly'
    <3> SUFFICES ASSUME ~crossed', NEW c \in ViewCalls, Live(flight[c], mount)
                 PROVE  FALSE
      BY <2>4 DEF LoadNearly
    <3>1. flight[k].after \notin {"local", "optimistic"}
      BY <1>2, <2>10, LoadAlone DEF Live
    <3> QED BY <1>2, <1>6, <2>10, <3>1 DEF Changes
  <2>12. ListNearly'
    <3> SUFFICES ASSUME ~crossed', ~failed', NothingLoads
                 PROVE  /\ \A x \in list' : x \in OnServer(mount) \/ Ahead(x)'
                        /\ \A x \in OnServer(mount) : x \in list' \/ Answering(x)'
                        /\ \A c \in ViewCalls : Moving(c)' => flight'[c].item \in list'
      BY <2>3, <2>5 DEF ListNearly
    <3>1. /\ \A x \in list : x \in OnServer(mount) \/ Ahead(x)
          /\ \A x \in OnServer(mount) : x \in list \/ Answering(x)
          /\ \A c \in ViewCalls : Moving(c) => flight[c].item \in list
      BY <2>1 DEF ViewInv, ListNearly
    <3>2. ASSUME NEW x \in list'
          PROVE  x \in OnServer(mount) \/ Ahead(x)'
      <4>1. Ahead(x) => Ahead(x)'
        BY <1>1, <1>2, <2>1, OtherItems
      <4> QED BY <2>8, <3>1, <3>2, <4>1
    <3>3. ASSUME NEW x \in OnServer(mount)
          PROVE  x \in list' \/ Answering(x)'
      <4>1. Answering(x) => Answering(x)' \/ (flight[k].after # "optimistic" /\ flight[k].item = x)
        BY <1>1, <2>1, OtherItems
      <4>2. flight[k].after # "optimistic" => flight[k].item \in list'
        <5>1. flight[k].after # "optimistic" => copied
          BY <1>2, <1>6, <2>10 DEF Changes
        <5> QED BY <1>3, <5>1
      <4>3. list \subseteq list'
        BY <1>3
      <4> QED BY <3>1, <4>1, <4>2, <4>3
    <3>4. \A c \in ViewCalls : Moving(c)' => flight'[c].item \in list'
      <4>1. \A c \in ViewCalls : Moving(c)' => Moving(c) /\ flight'[c] = flight[c]
        BY <2>3 DEF Moving
      <4>2. list \subseteq list'
        BY <1>3
      <4> QED BY <3>1, <4>1, <4>2
    <3> QED BY <3>2, <3>3, <3>4
  <2> QED BY <2>2, <2>9, <2>11, <2>12 DEF ViewInv
<1> QED BY <1>5, <1>6

\* An operation failed: a board that is ahead loads again, an answer that was lost
\* is on record.
LEMMA ChangeFailedKeeps ==
  ASSUME ViewInv, NEW k \in ViewCalls, ChangeFailed(k)
  PROVE  ViewInv'
<1>1. ViewShape /\ RequestsTrue
  BY DEF ViewInv
<1>2. /\ IsChange(flight[k]) /\ flight[k].at \in {"served", "refused"} /\ flight[k] \in Changes
      /\ ~IsLoad(flight[k]) /\ UNCHANGED <<view, server, asked>>
  BY <1>1, FlightOf DEF ChangeFailed
<1> DEFINE reloads == flight[k].after = "optimistic" /\ Mounted(flight[k])
<1>3. IF reloads
      THEN /\ Requests([flight EXCEPT ![k] = Load(flight[k].mount, "change")], mount)
           /\ list' = list
      ELSE /\ flight' = [flight EXCEPT ![k] = ViewIdle]
           /\ failed' = (failed \/ (Mounted(flight[k]) /\ flight[k].at = "served"))
           /\ UNCHANGED <<list, mount, crossed>>
  BY DEF ChangeFailed, FailureShown
<1>4. list' \in SUBSET ({0, 1} \X Nat)
  BY <1>1, <1>3 DEF ViewShape
<1>5. CASE reloads
  BY <1>2, <1>3, <1>4, <1>5, ReloadKeeps
<1>6. CASE ~reloads
  <2>1. /\ flight' = [flight EXCEPT ![k] = ViewIdle]
        /\ UNCHANGED <<view, mount, server, asked, list, crossed>>
        /\ failed' \in BOOLEAN /\ crossed' \in BOOLEAN
        /\ ~failed' => ~failed /\ ~(Mounted(flight[k]) /\ flight[k].at = "served")
    BY <1>1, <1>2, <1>3, <1>6 DEF ViewShape
  <2>2. (ViewShape /\ RequestsTrue /\ NoneCrosses)'
    BY <1>4, <2>1, OverKeeps
  <2>3. /\ \A c \in ViewCalls \ {k} : flight'[c] = flight[c]
        /\ \A c \in ViewCalls : Live(flight[c], mount)' <=> Live(flight[c], mount) /\ c # k
        /\ \A c \in ViewCalls : IsChange(flight'[c]) <=> IsChange(flight[c]) /\ c # k
        /\ OnServer(mount)' = OnServer(mount) /\ (Guarded' <=> Guarded)
    BY <1>1, <2>1, OthersStay
  <2>4. \A c \in ViewCalls : Live(flight[c], mount)' <=> Live(flight[c], mount)
    BY <1>2, <2>3 DEF Live
  <2>5. NothingLoads' <=> NothingLoads
    BY <2>4 DEF NothingLoads
  <2>6. \A x : MovedTo(x) => MovedTo(x)'
    BY <1>1, <1>6, <2>1, OtherItems DEF Moving
  <2>7. ShowsNoGhost'
    BY <2>1, <2>3, <2>5, <2>6 DEF ViewInv, ShowsNoGhost
  <2>8. ASSUME ~crossed', ~failed', NEW x
        PROVE  (Answering(x) => Answering(x)') /\ (Ahead(x) => Ahead(x)')
    <3>1. Mounted(flight[k])
      BY <1>2, <2>1, <2>8 DEF ViewInv, NoneCrosses
    <3>2. flight[k].at # "served" /\ ~Moving(k)
      BY <1>6, <2>1, <2>8, <3>1 DEF Moving
    <3> QED BY <1>1, <2>1, <3>2, OtherItems
  <2>9. LoadNearly'
    <3> SUFFICES ASSUME ~crossed', ~failed', NEW c \in ViewCalls, Live(flight[c], mount)',
                        flight'[c].at = "served", NEW x \in OnServer(mount)'
                 PROVE  x \in flight'[c].got \/ Answering(x)'
      BY DEF LoadNearly
    <3>1. Live(flight[c], mount) /\ flight'[c] = flight[c] /\ x \in OnServer(mount)
      BY <2>3
    <3>2. x \in flight[c].got \/ Answering(x)
      BY <2>1, <3>1 DEF ViewInv, LoadNearly
    <3> QED BY <2>8, <3>1, <3>2
  <2>10. ListNearly'
    <3> SUFFICES ASSUME ~crossed', ~failed', NothingLoads
                 PROVE  /\ \A x \in list : x \in OnServer(mount) \/ Ahead(x)'
                        /\ \A x \in OnServer(mount) : x \in list \/ Answering(x)'
                        /\ \A c \in ViewCalls : Moving(c)' => flight'[c].item \in list
      BY <2>1, <2>3, <2>5 DEF ListNearly
    <3>1. /\ \A x \in list : x \in OnServer(mount) \/ Ahead(x)
          /\ \A x \in OnServer(mount) : x \in list \/ Answering(x)
          /\ \A c \in ViewCalls : Moving(c) => flight[c].item \in list
      BY <2>1 DEF ViewInv, ListNearly
    <3>2. \A c \in ViewCalls : Moving(c)' => Moving(c) /\ flight'[c] = flight[c]
      BY <2>3 DEF Moving
    <3> QED BY <2>8, <3>1, <3>2
  <2> QED BY <2>2, <2>7, <2>9, <2>10 DEF ViewInv
<1> QED BY <1>5, <1>6

LEMMA ViewInvHolds == ViewsSpec => []ViewInv
<1>1. ViewsInit => ViewInv
  <2> SUFFICES ASSUME ViewsInit PROVE ViewInv
    OBVIOUS
  <2>1. PICK k \in ViewCalls :
          flight = [c \in ViewCalls |-> IF c = k THEN Load(0, "shown") ELSE ViewIdle]
    BY DEF ViewsInit
  <2>2. /\ view \in Views /\ mount = 0 /\ asked = 0 /\ list = {} /\ failed = FALSE
        /\ crossed = FALSE /\ server = {<<0, 0>>, <<1, 0>>}
    BY DEF ViewsInit
  <2>3. Load(0, "shown") \in Loads
    BY DEF Load, Loads
  <2>4. /\ flight[k] = Load(0, "shown") /\ IsLoad(flight[k]) /\ ~IsChange(flight[k])
        /\ \A c \in ViewCalls \ {k} : flight[c] = ViewIdle /\ ~IsLoad(flight[c]) /\ ~IsChange(flight[c])
    BY <2>1, <2>3, Kinds, IdleIsNeither
  <2>5. flight[k].mount = 0 /\ flight[k].at = "sent" /\ flight[k].got = {}
    BY <2>4 DEF Load
  <2>6. ViewShape
    <3>1. flight \in [ViewCalls -> {ViewIdle} \cup Loads \cup Changes]
      BY <2>1, <2>3
    <3>2. server \in SUBSET ({0, 1} \X Nat) /\ list \in SUBSET ({0, 1} \X Nat)
      BY <2>2
    <3> QED BY <2>2, <3>1, <3>2 DEF ViewShape
  <2>7. RequestsTrue
    BY <2>4, <2>5 DEF RequestsTrue
  <2>8. Live(flight[k], mount) /\ \A c \in ViewCalls \ {k} : ~Live(flight[c], mount)
    BY <2>2, <2>4, <2>5 DEF Live
  <2>9. NoneCrosses
    BY <2>2, <2>4, <2>5, <2>8 DEF NoneCrosses, Crossing
  <2>10. LoadNearly
    BY <2>5, <2>8 DEF LoadNearly
  <2>11. ShowsNoGhost /\ ListNearly
    BY <2>8 DEF ShowsNoGhost, ListNearly, NothingLoads
  <2> QED BY <2>6, <2>7, <2>9, <2>10, <2>11 DEF ViewInv
<1>2. ViewInv /\ [ViewsNext]_viewVars => ViewInv'
  <2>1. ASSUME ViewInv, UNCHANGED viewVars
        PROVE  ViewInv'
    BY <2>1 DEF ViewInv, viewVars, ViewShape, RequestsTrue, ShowsNoGhost, NoneCrosses, LoadNearly,
        ListNearly, OnServer, NothingLoads, Guarded, Moving, MovedTo, Answering, Ahead, Mounted,
        MountedAt, Crossing, Live
  <2>2. ASSUME ViewInv, NEW k \in ViewCalls, Served(k)
        PROVE  ViewInv'
    BY <2>2, ListReadKeeps, WrittenKeeps
  <2> QED BY <2>1, <2>2, SwitchKeeps, RefreshKeeps, ChangeKeeps, LoadedKeeps, LoadFailedKeeps,
             ChangedKeeps, ChangeFailedKeeps DEF ViewsNext
<1> QED
  BY <1>1, <1>2, PTL DEF ViewsSpec

\* For every view, however many requests are out and however often it is switched:
\* at rest, and unless an answer was lost, a view mounted for its workspace shows
\* nothing that workspace does not hold, and a view of any kind exactly what it holds
\* if no answer could pass another.
THEOREM ListAlwaysRight == ViewsSpec => []ListRight
<1>1. ViewInv => ListRight
  <2> SUFFICES ASSUME ViewInv, Flying = {}, ~failed
               PROVE  /\ {"shown", "change"} \subseteq view.guarded => list \subseteq OnServer(mount)
                      /\ ~crossed => list = OnServer(mount)
    BY DEF ListRight
  <2>1. \A k \in ViewCalls : flight[k] = ViewIdle
    BY DEF Flying
  <2>2. \A k \in ViewCalls : ~Live(flight[k], mount) /\ ~IsChange(flight[k])
    BY <2>1, IdleIsNeither
  <2>3. NothingLoads /\ \A x : ~MovedTo(x) /\ ~Answering(x) /\ ~Ahead(x)
    BY <2>2 DEF NothingLoads, MovedTo, Answering, Ahead, Moving
  <2>4. {"shown", "change"} \subseteq view.guarded => list \subseteq OnServer(mount)
    BY <2>3 DEF ViewInv, ShowsNoGhost, Guarded
  <2>5. ~crossed => list = OnServer(mount)
    BY <2>3 DEF ViewInv, ListNearly
  <2> QED BY <2>4, <2>5
<1> QED
  BY <1>1, ViewInvHolds, PTL

-----------------------------------------------------------------------------
(***************************************************************************)
(* The calendar.                                                           *)
(***************************************************************************)

\* Division by a step of any length: the quotient and the remainder are what
\* one expects of them.
LEMMA Quotient ==
  ASSUME NEW a \in Nat, NEW k \in Nat \ {0}
  PROVE  \E q \in Nat, r \in 0..(k - 1) : a = k * q + r
<1> DEFINE S == {q \in Nat : a < k * q + k}
<1>1. a \in S
  <2>1. k * a >= a
    OBVIOUS
  <2> QED BY <2>1
<1>2. PICK q \in S : \A x \in S : q <= x
  <2>1. S \in SUBSET Nat /\ S # {}
    BY <1>1
  <2> HIDE DEF S
  <2> QED BY <2>1, HasLeast
<1>3. q \in Nat /\ a < k * q + k
  OBVIOUS
<1>4. k * q <= a
  <2>1. CASE q = 0
    BY <2>1
  <2>2. CASE q # 0
    <3>1. q - 1 \in Nat /\ ~(q <= q - 1)
      BY <1>3, <2>2
    <3>2. q - 1 \notin S
      BY <1>2, <3>1
    <3>3. ~(a < k * (q - 1) + k)
      BY <3>1, <3>2
    <3>4. k * (q - 1) + k = k * q
      BY <1>3
    <3>5. k * q \in Int
      BY <1>3
    <3> QED BY <3>3, <3>4, <3>5
  <2> QED BY <2>1, <2>2
<1>5. PICK p \in Int : p = k * q
  BY <1>3
<1>6. a - p \in 0..(k - 1) /\ a = p + (a - p)
  BY <1>3, <1>4, <1>5
<1> QED BY <1>3, <1>5, <1>6

LEMMA DivisionIs ==
  ASSUME NEW a \in Int, NEW k \in Nat \ {0}, NEW q \in Int, NEW r \in 0..(k - 1), a = k * q + r
  PROVE  a \div k = q /\ a % k = r
<1>1. a \div k = q
  OBVIOUS
<1>2. a % k = r
  OBVIOUS
<1> QED BY <1>1, <1>2

LEMMA Division ==
  ASSUME NEW a \in Nat, NEW k \in Nat \ {0}
  PROVE  /\ a \div k \in Nat /\ a % k \in 0..(k - 1)
         /\ a = k * (a \div k) + (a % k)
<1>1. PICK q \in Nat, r \in 0..(k - 1) : a = k * q + r
  BY Quotient
<1>2. a \div k = q /\ a % k = r
  BY <1>1, DivisionIs
<1> QED BY <1>1, <1>2

\* What is a multiple of the step further is a larger number of steps.
LEMMA Multiples ==
  ASSUME NEW k \in Nat \ {0}, NEW p \in Int, NEW q \in Int
  PROVE  /\ k * p \in Int /\ k * q \in Int
         /\ p <= q <=> k * p <= k * q
         /\ p < q => k * p + k <= k * q
<1>1. k * p \in Int /\ k * q \in Int
  OBVIOUS
<1>2. p <= q => k * p <= k * q
  OBVIOUS
<1>3. k * p <= k * q => p <= q
  OBVIOUS
<1>4. p < q => k * p + k <= k * q
  <2>1. k * (p + 1) = k * p + k
    OBVIOUS
  <2>2. p < q => k * (p + 1) <= k * q
    OBVIOUS
  <2> QED BY <1>1, <2>1, <2>2
<1> QED BY <1>1, <1>2, <1>3, <1>4

-----------------------------------------------------------------------------
(* The series of an event *)

LEMMA StepIs ==
  ASSUME NEW recurrence
  PROVE  stepMs(recurrence) \in Nat \ {0}
<1>1. DayTicks \in Nat \ {0} /\ 7 * DayTicks \in Nat \ {0}
  BY CalendarConstants
<1> QED BY <1>1 DEF stepMs

\* The instant of an occurrence, and the event a row can hold.
At(event, n) == event.startAt + n * stepMs(event.recurrence)
Kept == {event \in Inputs : Accepted(event)}

LEMMA KeptIs ==
  ASSUME NEW event \in Kept
  PROVE  /\ event.startAt \in Nat /\ event.endAt \in Nat /\ event.endAt >= event.startAt
         /\ event.recurrence # "NONE" => event.until \in Nat /\ event.startAt <= event.until
         /\ event.recurrence \in RECURRENCE_KINDS
<1>1. /\ event.startAt \in Nat /\ event.endAt \in Nat
      /\ event.until \in Nat \cup {NoUntil} /\ event.recurrence \in RECURRENCE_KINDS
  BY CalendarConstants DEF Kept, Inputs
<1>2. event.recurrence # "NONE" => event.until # NoUntil /\ event.until - event.startAt >= 0
  BY CalendarConstants DEF Kept, Accepted
<1>3. event.endAt >= event.startAt
  BY DEF Kept, Accepted
<1> QED BY <1>1, <1>2, <1>3

LEMMA AtIs ==
  ASSUME NEW event \in Kept, NEW n \in Nat
  PROVE  /\ At(event, n) \in Nat /\ event.startAt <= At(event, n)
         /\ (At(event, n) - event.startAt) \div stepMs(event.recurrence) = n
         /\ (At(event, n) - event.startAt) % stepMs(event.recurrence) = 0
<1>1. event.startAt \in Nat
  BY KeptIs
<1>2. PICK k \in Nat \ {0} : k = stepMs(event.recurrence)
  BY StepIs
<1>3. PICK p \in Nat : p = k * n
  OBVIOUS
<1>4. n * k = p
  BY <1>3
<1>5. At(event, n) = event.startAt + p
  BY <1>2, <1>4 DEF At
<1>6. At(event, n) - event.startAt = p
  BY <1>1, <1>5
<1>7. p \in Int /\ 0 \in 0..(k - 1) /\ p = k * n + 0 /\ n \in Int
  BY <1>3
<1>8. p \div k = n /\ p % k = 0
  BY <1>7, DivisionIs
<1> QED BY <1>1, <1>2, <1>5, <1>6, <1>8

\* An event takes place at its occurrences, counted from its start.
LEMMA OccurrencesAre ==
  ASSUME NEW e, calendarEvent[e] \in Kept, calendarEvent[e].recurrence # "NONE"
  PROVE  \A t : t \in Occurrences(e) <=>
           \E n \in Nat : t = At(calendarEvent[e], n) /\ t <= calendarEvent[e].until
<1> DEFINE event == calendarEvent[e]
<1>1. event.startAt \in Nat /\ event.until \in Nat
  BY KeptIs
<1>2. PICK k \in Nat \ {0} : k = stepMs(event.recurrence)
  BY StepIs
<1>3. Occurrences(e) = {t \in event.startAt..event.until : (t - event.startAt) % k = 0}
  BY <1>2 DEF Occurrences
<1>4. ASSUME NEW t \in Occurrences(e)
      PROVE  \E n \in Nat : t = At(event, n) /\ t <= event.until
  <2>1. t \in event.startAt..event.until /\ (t - event.startAt) % k = 0
    BY <1>3
  <2>2. PICK a \in Nat : a = t - event.startAt
    BY <1>1, <2>1
  <2>3. PICK n \in Nat : n = a \div k
    BY Division
  <2>4. a = k * n + (a % k)
    BY <2>3, Division
  <2>5. k * n \in Nat /\ n * k = k * n
    OBVIOUS
  <2>6. t = event.startAt + n * k
    BY <1>1, <2>1, <2>2, <2>4, <2>5
  <2> QED BY <1>2, <2>1, <2>6 DEF At
<1>5. ASSUME NEW n \in Nat, At(event, n) <= event.until
      PROVE  At(event, n) \in Occurrences(e)
  <2>1. /\ At(event, n) \in Nat /\ event.startAt <= At(event, n)
        /\ (At(event, n) - event.startAt) % k = 0
    BY <1>2, AtIs
  <2> QED BY <1>1, <1>3, <1>5, <2>1
<1> QED BY <1>4, <1>5

\* The first index is that of the first occurrence that is not before the window,
\* rounded neither below nor above it.
LEMMA FirstIndexIs ==
  ASSUME NEW event \in Kept, NEW from \in Nat
  PROVE  /\ firstIndex(event, from) \in Nat
         /\ \A n \in Nat : firstIndex(event, from) <= n <=> from <= At(event, n)
<1>1. event.startAt \in Nat
  BY KeptIs
<1>2. PICK k \in Nat \ {0} : k = stepMs(event.recurrence)
  BY StepIs
<1>3. \A n \in Nat : At(event, n) = event.startAt + k * n /\ k * n \in Nat
  BY <1>2 DEF At
<1>4. CASE from <= event.startAt
  <2>1. firstIndex(event, from) = 0
    BY <1>4 DEF firstIndex
  <2>2. \A n \in Nat : event.startAt <= At(event, n) /\ At(event, n) \in Nat
    BY AtIs
  <2>3. \A n \in Nat : from <= At(event, n)
    BY <1>1, <1>4, <2>2
  <2> QED BY <2>1, <2>3
<1>5. CASE ~(from <= event.startAt)
  <2>1. PICK a \in Nat : a = from - event.startAt /\ a > 0
    BY <1>1, <1>5
  <2>2. PICK b \in Nat : b = a + k - 1
    BY <2>1
  <2>3. PICK m \in Nat : m = b \div k
    BY Division
  <2>4. firstIndex(event, from) = m
    BY <1>2, <1>5, <2>1, <2>2, <2>3 DEF firstIndex
  <2>5. PICK r \in 0..(k - 1) : b = k * m + r
    BY <2>3, Division
  <2>6. PICK p \in Nat : p = k * m
    OBVIOUS
  <2>7. p >= a /\ p < a + k
    BY <2>2, <2>5, <2>6
  <2>8. ASSUME NEW n \in Nat PROVE m <= n <=> from <= At(event, n)
    <3>1. PICK q \in Nat : q = k * n
      OBVIOUS
    <3>2. m <= n => p <= q
      BY <2>6, <3>1, Multiples
    <3>3. n < m => q + k <= p
      BY <2>6, <3>1, Multiples
    <3>4. At(event, n) = event.startAt + q
      BY <1>3, <3>1
    <3> QED BY <1>1, <2>1, <2>7, <3>2, <3>3, <3>4
  <2> QED BY <2>4, <2>8
<1> QED BY <1>4, <1>5

\* The range the expansion goes through leaves none out at its end.
LEMMA LastIndexIs ==
  ASSUME NEW event \in Kept, NEW to \in Nat, NEW n \in Nat, At(event, n) <= to
  PROVE  n <= to \div stepMs(event.recurrence) /\ to \div stepMs(event.recurrence) \in Nat
<1>1. event.startAt \in Nat
  BY KeptIs
<1>2. PICK k \in Nat \ {0} : k = stepMs(event.recurrence)
  BY StepIs
<1>3. PICK m \in Nat : m = to \div k
  BY Division
<1>4. PICK r \in 0..(k - 1) : to = k * m + r
  BY <1>3, Division
<1>5. PICK p \in Nat : p = k * m
  OBVIOUS
<1>6. PICK q \in Nat : q = k * n
  OBVIOUS
<1>7. At(event, n) = event.startAt + q
  <2>1. n * k = q
    BY <1>6
  <2> QED BY <1>2, <2>1 DEF At
<1>8. q <= to /\ to < p + k
  BY <1>1, <1>4, <1>5, <1>7
<1>9. m < n => p + k <= q
  BY <1>5, <1>6, Multiples
<1>10. n <= m
  BY <1>8, <1>9
<1> QED BY <1>2, <1>3, <1>10

\* What an occurrence looks like in the calendar.
EntryOf(e, n) == [kind |-> "event", id |-> <<e, n>>, startAt |-> At(calendarEvent[e], n)]

LEMMA ExpansionIs ==
  ASSUME NEW e, calendarEvent[e] \in Kept, calendarEvent[e].recurrence # "NONE",
         NEW from \in Nat, NEW to \in Nat
  PROVE  \A item : item \in expandRecurrence(e, from, to) <=>
           \E n \in Nat :
             /\ item = EntryOf(e, n)
             /\ At(calendarEvent[e], n) \in from..to
             /\ At(calendarEvent[e], n) <= calendarEvent[e].until
<1> DEFINE event == calendarEvent[e]
           k == stepMs(event.recurrence)
           indices == {i \in firstIndex(event, from)..(to \div k) :
                         /\ At(event, i) <= to /\ At(event, i) <= event.until
                         /\ At(event, i) + (event.endAt - event.startAt) >= from}
<1>0. event.until # NoUntil
  BY KeptIs DEF NoUntil
<1>1. expandRecurrence(e, from, to) = {EntryOf(e, n) : n \in indices}
  BY <1>0 DEF expandRecurrence, EntryOf, At
<1>2. /\ firstIndex(event, from) \in Nat
      /\ \A n \in Nat : firstIndex(event, from) <= n <=> from <= At(event, n)
  BY FirstIndexIs
<1>3. event.startAt \in Nat /\ event.endAt \in Nat /\ event.endAt >= event.startAt
  BY KeptIs
<1>4. to \div k \in Nat
  BY StepIs, Division
<1>5. \A n \in Nat : At(event, n) \in Nat
  BY AtIs
<1>6. \A n \in Nat : At(event, n) <= to => n <= to \div k
  BY LastIndexIs
<1> HIDE DEF k
<1>7. ASSUME NEW n \in indices
      PROVE  n \in Nat /\ At(event, n) \in from..to /\ At(event, n) <= event.until
  <2>1. n \in Nat /\ firstIndex(event, from) <= n
    BY <1>2, <1>4
  <2>2. from <= At(event, n) /\ At(event, n) \in Nat
    BY <1>2, <1>5, <2>1
  <2> QED BY <2>1, <2>2
<1>8. ASSUME NEW n \in Nat, At(event, n) \in from..to, At(event, n) <= event.until
      PROVE  n \in indices
  <2>1. firstIndex(event, from) <= n /\ n <= to \div k
    BY <1>2, <1>6, <1>8
  <2>2. n \in firstIndex(event, from)..(to \div k)
    BY <1>2, <1>4, <2>1
  <2>3. At(event, n) + (event.endAt - event.startAt) >= from
    BY <1>3, <1>5, <1>8
  <2> QED BY <1>8, <2>2, <2>3
<1> HIDE DEF indices
<1> QED BY <1>1, <1>7, <1>8

-----------------------------------------------------------------------------
(* What the calendar shows *)

CalendarInv ==
  /\ calendarEvent \in [EventIds -> Kept \cup {NoEvent}]
  /\ dated \in Dates \cup {NoDate} /\ clock \in 0..LastNow

LEMMA EventsAreKept ==
  ASSUME CalendarInv, NEW e \in Events
  PROVE  calendarEvent[e] \in Kept
BY DEF CalendarInv, Events

LEMMA KeptIsSome == \A event \in Kept : event # NoEvent
BY DEF Kept, Inputs, NoEvent, RECURRENCE_KINDS

\* What an event shows in a window, by the query and the expansion, and by its
\* occurrences.
ShownOf(e, from, to) ==
  IF calendarEvent[e].recurrence = "NONE"
  THEN {[kind |-> "event", id |-> <<e>>, startAt |-> calendarEvent[e].startAt]}
  ELSE expandRecurrence(e, from, to)

TakesPlace(e, from, to) == {EntryAt(e, t) : t \in Beginning(e, from, to)}

LEMMA SeriesExact ==
  ASSUME NEW e, calendarEvent[e] \in Kept, calendarEvent[e].recurrence # "NONE",
         NEW from \in Nat, NEW to \in Nat
  PROVE  expandRecurrence(e, from, to) = TakesPlace(e, from, to)
<1> DEFINE event == calendarEvent[e]
<1>1. \A n \in Nat : (At(event, n) - event.startAt) \div stepMs(event.recurrence) = n
  BY AtIs
<1>2. \A t : t \in Occurrences(e) <=> \E n \in Nat : t = At(event, n) /\ t <= event.until
  BY OccurrencesAre
<1> DEFINE item(t) == [kind |-> "event", startAt |-> t,
                       id |-> <<e, (t - event.startAt) \div stepMs(event.recurrence)>>]
<1>3. TakesPlace(e, from, to) = {item(t) : t \in Occurrences(e) \cap (from..to)}
  BY DEF TakesPlace, EntryAt, Beginning
<1>4. \A n \in Nat : item(At(event, n)) = EntryOf(e, n)
  BY <1>1 DEF EntryOf
<1>5. \A x : x \in expandRecurrence(e, from, to) <=>
        \E n \in Nat : /\ x = EntryOf(e, n)
                       /\ At(event, n) \in from..to /\ At(event, n) <= event.until
  BY ExpansionIs
<1> HIDE DEF item, event
<1>6. ASSUME NEW x \in expandRecurrence(e, from, to) PROVE x \in TakesPlace(e, from, to)
  <2>1. PICK n \in Nat : /\ x = EntryOf(e, n)
                         /\ At(event, n) \in from..to /\ At(event, n) <= event.until
    BY <1>5
  <2>2. At(event, n) \in Occurrences(e) \cap (from..to)
    BY <1>2, <2>1
  <2> QED BY <1>3, <1>4, <2>1, <2>2
<1>7. ASSUME NEW x \in TakesPlace(e, from, to) PROVE x \in expandRecurrence(e, from, to)
  <2>1. PICK t \in Occurrences(e) \cap (from..to) : x = item(t)
    BY <1>3
  <2>2. PICK n \in Nat : t = At(event, n) /\ t <= event.until
    BY <1>2
  <2> QED BY <1>4, <1>5, <2>1, <2>2
<1> QED BY <1>6, <1>7

\* The query passes over an event only if it shows nothing in the window.
LEMMA QueryExact ==
  ASSUME NEW e \in Events, calendarEvent[e] \in Kept, NEW from \in Nat, NEW to \in Nat
  PROVE  /\ e \in eventsFor(from, to) => ShownOf(e, from, to) = TakesPlace(e, from, to)
         /\ e \notin eventsFor(from, to) => TakesPlace(e, from, to) = {}
<1> DEFINE event == calendarEvent[e]
<1>1. /\ event.startAt \in Nat
      /\ event.recurrence # "NONE" => event.until \in Nat /\ event.startAt <= event.until
  BY KeptIs
<1>2. CASE event.recurrence = "NONE"
  <2>1. Occurrences(e) = {event.startAt}
    BY <1>2 DEF Occurrences
  <2>2. e \in eventsFor(from, to) <=> event.startAt \in from..to
    BY <1>2 DEF eventsFor
  <2>3. TakesPlace(e, from, to) =
          {[kind |-> "event", startAt |-> t, id |-> <<e>>] : t \in {event.startAt} \cap (from..to)}
    BY <1>2, <2>1 DEF TakesPlace, EntryAt, Beginning
  <2>4. ShownOf(e, from, to) = {[kind |-> "event", id |-> <<e>>, startAt |-> event.startAt]}
    BY <1>2 DEF ShownOf
  <2> QED BY <2>2, <2>3, <2>4
<1>3. CASE event.recurrence # "NONE"
  <2>1. ShownOf(e, from, to) = TakesPlace(e, from, to)
    BY <1>3, SeriesExact DEF ShownOf
  <2>2. e \in eventsFor(from, to) <=> event.startAt <= to /\ event.until >= from
    BY <1>1, <1>3 DEF eventsFor, NoUntil
  <2>3. \A t \in Occurrences(e) : t \in event.startAt..event.until
    BY <1>3 DEF Occurrences
  <2>4. e \notin eventsFor(from, to) => Occurrences(e) \cap (from..to) = {}
    BY <1>1, <1>3, <2>2, <2>3
  <2>5. Occurrences(e) \cap (from..to) = {} => TakesPlace(e, from, to) = {}
    BY DEF TakesPlace, EntryAt, Beginning
  <2> QED BY <2>1, <2>4, <2>5
<1> QED BY <1>2, <1>3

LEMMA CalendarIs ==
  ASSUME CalendarInv, NEW from \in Nat, NEW to \in Nat
  PROVE  getCalendar(from, to)
           = Days(from, to) \cup (UNION {TakesPlace(e, from, to) : e \in Events})
<1>1. \A e \in Events : calendarEvent[e] \in Kept
  BY EventsAreKept
<1>2. getCalendar(from, to)
        = (UNION {ShownOf(e, from, to) : e \in eventsFor(from, to)}) \cup Days(from, to)
  BY Zenon DEF getCalendar, ShownOf, Days
<1>3. eventsFor(from, to) \subseteq Events
  BY DEF eventsFor
<1>4. \A e \in Events :
        /\ e \in eventsFor(from, to) => ShownOf(e, from, to) = TakesPlace(e, from, to)
        /\ e \notin eventsFor(from, to) => TakesPlace(e, from, to) = {}
  BY <1>1, QueryExact
<1>5. UNION {ShownOf(e, from, to) : e \in eventsFor(from, to)}
        = UNION {TakesPlace(e, from, to) : e \in Events}
  BY <1>3, <1>4
<1> QED BY <1>2, <1>5

LEMMA WindowIs ==
  ASSUME CalendarInv, NEW from \in Nat, NEW to \in Nat
  PROVE  WindowRight(from, to)
<1>1. getCalendar(from, to) = Days(from, to) \cup (UNION {TakesPlace(e, from, to) : e \in Events})
  BY CalendarIs
<1>2. ASSUME NEW e \in Events PROVE Beginning(e, from, to) \subseteq Overlapping(e, from, to)
  <2>1. calendarEvent[e] \in Kept
    BY EventsAreKept
  <2>2. /\ calendarEvent[e].startAt \in Nat /\ calendarEvent[e].endAt \in Nat
        /\ calendarEvent[e].startAt <= calendarEvent[e].endAt
    BY <2>1, KeptIs
  <2> QED BY <2>2 DEF Beginning, Overlapping
<1>3. \A e \in Events :
        TakesPlace(e, from, to) \subseteq {EntryAt(e, t) : t \in Overlapping(e, from, to)}
  BY <1>2 DEF TakesPlace
<1>4. UNION {TakesPlace(e, from, to) : e \in Events}
        \subseteq UNION {{EntryAt(e, t) : t \in Overlapping(e, from, to)} : e \in Events}
  BY <1>3
<1>5. UNION {TakesPlace(e, from, to) : e \in Events}
        = UNION {{EntryAt(e, t) : t \in Beginning(e, from, to)} : e \in Events}
  BY DEF TakesPlace
<1> QED BY <1>1, <1>4, <1>5 DEF WindowRight

\* What a window shows begins in it.
LEMMA ShownInWindow ==
  ASSUME CalendarInv, NEW from \in Nat, NEW to \in Nat, NEW item \in getCalendar(from, to)
  PROVE  item.startAt \in Nat /\ from <= item.startAt /\ item.startAt <= to
<1>1. \A e \in Events : \A x \in TakesPlace(e, from, to) : x.startAt \in from..to
  BY DEF TakesPlace, EntryAt, Beginning
<1>2. \A x \in Days(from, to) : x.startAt \in from..to
  BY DEF Days
<1>3. item.startAt \in from..to
  BY <1>1, <1>2, CalendarIs
<1> QED BY <1>3

LEMMA OccurrencesShown ==
  ASSUME CalendarInv, NEW from \in Nat, NEW to \in Nat,
         NEW e \in Events, NEW t \in Occurrences(e), t \in from..to
  PROVE  \E item \in getCalendar(from, to) : item.kind = "event" /\ item.startAt = t
<1> DEFINE item == [kind |-> "event", startAt |-> t,
                    id |-> IF calendarEvent[e].recurrence = "NONE" THEN <<e>>
                           ELSE <<e, (t - calendarEvent[e].startAt)
                                       \div stepMs(calendarEvent[e].recurrence)>>]
<1>1. item \in TakesPlace(e, from, to)
  BY DEF TakesPlace, EntryAt, Beginning
<1>2. item.kind = "event" /\ item.startAt = t
  OBVIOUS
<1> HIDE DEF item
<1>3. item \in getCalendar(from, to)
  BY <1>1, CalendarIs
<1> QED BY <1>2, <1>3

\* A reminder of something in the window from the beginning of today is due in
\* the days its date is away.
LEMMA RemindersRight ==
  ASSUME CalendarInv, NEW horizon \in 1..2
  PROVE  /\ \A r \in listReminders(horizon) :
              /\ r.dueInDays = (r.entry.startAt \div DayTicks) - (clock \div DayTicks)
              /\ r.dueInDays \in 0..horizon
         /\ \A e \in Events : \A t \in Occurrences(e) \cap (clock..(clock + horizon * DayTicks)) :
              \E r \in listReminders(horizon) : r.entry.kind = "event" /\ r.entry.startAt = t
<1> DEFINE D == DayTicks
           today == startOfDay(clock)
           days(item) == (startOfDay(item.startAt) - today) \div D
           due(item) == IF days(item) > 0 THEN days(item) ELSE 0
           last == clock + horizon * D
<1>1. D \in Nat \ {0} /\ clock \in Nat /\ horizon \in Nat
  BY CalendarConstants DEF CalendarInv
<1>2. listReminders(horizon) =
        {[entry |-> item, dueInDays |-> due(item)] : item \in getCalendar(today, last)}
  BY DEF listReminders
<1>3. PICK y \in Nat : y = clock \div D
  BY <1>1, Division
<1>4. PICK b \in Nat : b = D * y
  BY <1>1
<1>5. today = b /\ b <= clock /\ clock < b + D
  <2>1. PICK r \in 0..(D - 1) : clock = D * y + r
    BY <1>1, <1>3, Division
  <2>2. y * D = b
    BY <1>1, <1>4
  <2>3. today = b
    BY <1>3, <2>2 DEF startOfDay
  <2> QED BY <1>1, <1>4, <2>1, <2>3
<1>6. PICK w \in Nat : w = horizon * D
  BY <1>1
<1>7. last \in Nat /\ today \in Nat /\ last = clock + w
  BY <1>1, <1>5, <1>6
<1>8. ASSUME NEW item \in getCalendar(today, last)
      PROVE  /\ due(item) = (item.startAt \div D) - y
             /\ due(item) \in 0..horizon
  <2>1. item.startAt \in Nat /\ b <= item.startAt /\ item.startAt <= clock + w
    BY <1>5, <1>7, ShownInWindow
  <2>2. PICK t \in Nat : t = item.startAt
    BY <2>1
  <2>3. PICK x \in Nat : x = t \div D
    BY <1>1, Division
  <2>4. PICK r \in 0..(D - 1) : t = D * x + r
    BY <1>1, <2>3, Division
  <2>5. PICK a \in Nat : a = D * x
    BY <1>1
  <2>6. a <= t /\ t < a + D
    BY <1>1, <2>4, <2>5
  <2>7. startOfDay(item.startAt) = a
    <3>1. x * D = a
      BY <1>1, <2>5
    <3> QED BY <2>2, <2>3, <3>1 DEF startOfDay
  <2>8. y <= x
    <3>1. x < y => a + D <= b
      BY <1>1, <1>4, <2>5, Multiples
    <3> QED BY <1>1, <2>1, <2>2, <2>6, <3>1
  <2>9. x - y <= horizon
    <3>1. PICK z \in Int : z = y + horizon
      BY <1>1
    <3>2. PICK c \in Int : c = D * z
      BY <1>1, <3>1
    <3>3. c = b + w
      BY <1>1, <1>4, <1>6, <3>1, <3>2
    <3>4. z < x => c + D <= a
      BY <1>1, <2>5, <3>2, Multiples
    <3>5. ~(z < x)
      BY <1>1, <1>5, <2>1, <2>2, <2>6, <3>3, <3>4
    <3> QED BY <1>1, <3>1, <3>5
  <2>10. (a - b) \div D = x - y
    <3>1. a - b = D * (x - y) + 0
      BY <1>1, <1>4, <2>5
    <3>2. a - b \in Int /\ x - y \in Int /\ 0 \in 0..(D - 1)
      BY <1>1
    <3> QED BY <1>1, <3>1, <3>2, DivisionIs
  <2>11. days(item) = x - y
    BY <1>5, <2>7, <2>10
  <2>12. due(item) = x - y
    BY <2>8, <2>11
  <2> HIDE DEF due
  <2> QED BY <1>1, <2>2, <2>3, <2>8, <2>9, <2>12
<1> HIDE DEF due, D
<1>9. ASSUME NEW r \in listReminders(horizon)
      PROVE  /\ r.dueInDays = (r.entry.startAt \div D) - (clock \div D)
             /\ r.dueInDays \in 0..horizon
  <2>1. PICK item \in getCalendar(today, last) : r = [entry |-> item, dueInDays |-> due(item)]
    BY <1>2
  <2>2. r.entry = item /\ r.dueInDays = due(item)
    BY <2>1
  <2> QED BY <1>3, <1>8, <2>2
<1>10. ASSUME NEW e \in Events, NEW t \in Occurrences(e) \cap (clock..last)
       PROVE  \E r \in listReminders(horizon) : r.entry.kind = "event" /\ r.entry.startAt = t
  <2>1. t \in today..last
    BY <1>1, <1>5, <1>7
  <2>2. PICK item \in getCalendar(today, last) : item.kind = "event" /\ item.startAt = t
    BY <1>7, <2>1, OccurrencesShown
  <2>3. [entry |-> item, dueInDays |-> due(item)] \in listReminders(horizon)
    BY <1>2
  <2> QED BY <2>2, <2>3
<1> QED BY <1>9, <1>10 DEF D

\* A series has as many occurrences as the form says.
LEMMA CountIs ==
  ASSUME NEW e, calendarEvent[e] \in Kept, calendarEvent[e].recurrence # "NONE"
  PROVE  countRecurrenceOccurrences(calendarEvent[e]) = Cardinality(Occurrences(e))
<1> DEFINE event == calendarEvent[e]
<1>1. event.startAt \in Nat /\ event.until \in Nat /\ event.startAt <= event.until
  BY KeptIs
<1>2. PICK k \in Nat \ {0} : k = stepMs(event.recurrence)
  BY StepIs
<1>3. PICK a \in Nat : a = event.until - event.startAt
  BY <1>1
<1>4. PICK m \in Nat : m = a \div k
  BY Division
<1>5. countRecurrenceOccurrences(event) = m + 1
  BY <1>2, <1>3, <1>4 DEF countRecurrenceOccurrences
<1>6. PICK r \in 0..(k - 1) : a = k * m + r
  BY <1>4, Division
<1>7. PICK p \in Nat : p = k * m
  OBVIOUS
<1>8. \A n \in Nat : /\ At(event, n) = event.startAt + k * n
                     /\ At(event, n) \in Nat
  <2>1. \A n \in Nat : n * k = k * n
    OBVIOUS
  <2> QED BY <1>2, <2>1, AtIs DEF At
<1>9. ASSUME NEW n \in Nat PROVE At(event, n) <= event.until <=> n <= m
  <2>1. PICK q \in Nat : q = k * n
    OBVIOUS
  <2>2. n <= m => q <= p
    BY <1>7, <2>1, Multiples
  <2>3. m < n => p + k <= q
    BY <1>7, <2>1, Multiples
  <2>4. At(event, n) = event.startAt + q
    BY <1>8, <2>1
  <2>5. p <= a /\ a < p + k
    BY <1>6, <1>7
  <2> QED BY <1>1, <1>3, <2>2, <2>3, <2>4, <2>5
<1>10. \A t : t \in Occurrences(e) <=> \E n \in Nat : t = At(event, n) /\ t <= event.until
  BY OccurrencesAre
<1> HIDE DEF event
<1>11. \A t : t \in Occurrences(e) <=> \E n \in 0..m : t = At(event, n)
  BY <1>9, <1>10
<1> DEFINE f == [n \in 0..m |-> At(event, n)]
<1>12. f \in [0..m -> Occurrences(e)]
  BY <1>11
<1>13. \A t \in Occurrences(e) : \E n \in 0..m : f[n] = t
  BY <1>11
<1>14. ASSUME NEW n \in 0..m, NEW l \in 0..m, f[n] = f[l] PROVE n = l
  <2>1. PICK q \in Nat : q = k * n
    OBVIOUS
  <2>2. PICK o \in Nat : o = k * l
    OBVIOUS
  <2>3. At(event, n) = event.startAt + q /\ At(event, l) = event.startAt + o
    BY <1>8, <2>1, <2>2
  <2>4. event.startAt + q = event.startAt + o
    BY <1>14, <2>3
  <2>5. q = o
    BY <1>1, <2>4 DEF event
  <2>6. (n <= l <=> q <= o) /\ (l <= n <=> o <= q)
    BY <2>1, <2>2, Multiples
  <2> QED BY <2>5, <2>6
<1> HIDE DEF f
<1>15. f \in Bijection(0..m, Occurrences(e))
  <2>1. IsInjective(f)
    BY <1>12, <1>14 DEF IsInjective
  <2> QED BY <1>12, <1>13, <2>1 DEF Bijection, Injection, Surjection
<1>16. IsFiniteSet(0..m) /\ Cardinality(0..m) = m + 1
  BY FS_Interval
<1>17. Cardinality(Occurrences(e)) = m + 1
  BY <1>15, <1>16, FS_Bijection DEF ExistsBijection
<1> QED BY <1>5, <1>17 DEF event

\* The grid of a month has one cell for each of its days, in the column of its weekday.
LEMMA GridRight ==
  ASSUME NEW weekday \in 0..6, NEW length \in 28..31, NEW day \in 1..length
  PROVE  LET places == {place \in buildMonthGrid(weekday, length) : place[2] = day}
         IN  /\ Cardinality(places) = 1
             /\ \A place \in places : place[1] % 7 = (weekday + day - 2) % 7
<1> DEFINE places == {place \in buildMonthGrid(weekday, length) : place[2] = day}
           offset == (weekday + 6) % 7
           cell == offset + day - 1
<1>1. offset \in 0..6 /\ cell \in 0..41 /\ cell - offset + 1 = day
  OBVIOUS
<1>2. cell % 7 = (weekday + day - 2) % 7
  BY SMTT(30)
<1> HIDE DEF cell
<1>3. buildMonthGrid(weekday, length)
        = {<<c, c - offset + 1>> : c \in 0..41} \cap ((0..41) \X (1..length))
  BY DEF buildMonthGrid
<1> HIDE DEF offset
<1>4. <<cell, day>> \in places
  BY <1>1, <1>3
<1>5. \A place \in places : place = <<cell, day>>
  <2> SUFFICES ASSUME NEW place \in places PROVE place = <<cell, day>>
    OBVIOUS
  <2>1. PICK c \in 0..41 : place = <<c, c - offset + 1>>
    BY <1>3
  <2>2. c - offset + 1 = day
    BY <2>1
  <2>3. c = cell
    BY <1>1, <2>2
  <2> QED BY <2>1, <2>2, <2>3
<1>6. places = {<<cell, day>>}
  BY <1>4, <1>5
<1> HIDE DEF places
<1>7. Cardinality(places) = 1
  BY <1>6, FS_Singleton
<1>8. \A place \in places : place[1] % 7 = (weekday + day - 2) % 7
  BY <1>2, <1>6
<1> QED BY <1>7, <1>8 DEF places

LEMMA CalendarInvHolds == CalendarSpec => []CalendarInv
<1>1. CalendarInit => CalendarInv
  BY CalendarConstants DEF CalendarInit, CalendarInv
<1>2. CalendarInv /\ [CalendarNext]_calendarVars => CalendarInv'
  <2> SUFFICES ASSUME CalendarInv, [CalendarNext]_calendarVars PROVE CalendarInv'
    OBVIOUS
  <2>1. CASE UNCHANGED calendarVars
    BY <2>1 DEF CalendarInv, calendarVars
  <2>2. CASE Dated
    BY <2>2 DEF CalendarInv, Dated
  <2>3. CASE Passes
    BY <2>3, CalendarConstants DEF CalendarInv, Passes
  <2>4. ASSUME NEW e \in EventIds, createEvent(e) PROVE CalendarInv'
    <3>1. PICK input \in Inputs :
            Accepted(input) /\ calendarEvent' = [calendarEvent EXCEPT ![e] = Stored(input)]
      BY <2>4 DEF createEvent
    <3>2. Stored(input) \in Kept
      <4>1. CASE input.recurrence = "NONE"
        <5>1. Stored(input) = [input EXCEPT !.until = NoUntil]
          BY <4>1 DEF Stored
        <5>2. Stored(input) \in Inputs
          BY <5>1 DEF Inputs
        <5>3. /\ Stored(input).recurrence = "NONE"
              /\ Stored(input).endAt = input.endAt /\ Stored(input).startAt = input.startAt
          BY <4>1, <5>1 DEF Inputs
        <5> QED BY <3>1, <5>2, <5>3 DEF Kept, Accepted
      <4>2. CASE input.recurrence # "NONE"
        <5>1. Stored(input) = input
          BY <4>2 DEF Stored, Inputs
        <5> QED BY <3>1, <5>1 DEF Kept
      <4> QED BY <4>1, <4>2
    <3>3. PICK event \in Kept : calendarEvent' = [calendarEvent EXCEPT ![e] = event]
      BY <3>1, <3>2
    <3> QED BY <2>4, <3>3 DEF CalendarInv, createEvent
  <2>5. ASSUME NEW e \in EventIds, deleteEvent(e) PROVE CalendarInv'
    BY <2>5 DEF CalendarInv, deleteEvent
  <2> QED BY <2>1, <2>2, <2>3, <2>4, <2>5 DEF CalendarNext
<1> QED BY <1>1, <1>2, PTL DEF CalendarSpec

\* For a day of any length, any instants and any rows: a window shows every
\* occurrence that begins in it and none that does not overlap it, each with one
\* name; reminders are due in the days they are away; a series has as many
\* occurrences as the form announces; and each has its cell in the grid of the
\* month.
THEOREM CalendarAlwaysExact == CalendarSpec => []CalendarExact
<1>1. CalendarInv => CalendarExact
  <2> SUFFICES ASSUME CalendarInv PROVE CalendarExact
    OBVIOUS
  <2>1. \A from, to \in Instants : WindowRight(from, to)
    BY CalendarConstants, WindowIs
  <2>2. ASSUME NEW e \in Events
        PROVE  /\ calendarEvent[e].recurrence # "NONE" =>
                    countRecurrenceOccurrences(calendarEvent[e]) = Cardinality(Occurrences(e))
               /\ validateRecurrenceInput(calendarEvent[e])
    <3>1. calendarEvent[e] \in Kept
      BY EventsAreKept
    <3>2. /\ calendarEvent[e].startAt \in Nat
          /\ calendarEvent[e].recurrence # "NONE" =>
               calendarEvent[e].until \in Nat /\ calendarEvent[e].startAt <= calendarEvent[e].until
      BY <3>1, KeptIs
    <3>3. validateRecurrenceInput(calendarEvent[e])
      BY <3>2 DEF validateRecurrenceInput, NoUntil
    <3> QED BY <3>1, <3>3, CountIs
  <2>3. ASSUME NEW e \in Events, NEW weekday \in 0..6, NEW length \in 28..31,
               NEW t \in Occurrences(e), (t \div DayTicks) + 1 <= length
        PROVE  LET places == {place \in buildMonthGrid(weekday, length) :
                                place[2] = (t \div DayTicks) + 1}
               IN  /\ Cardinality(places) = 1
                   /\ \A place \in places :
                        place[1] % 7 = (weekday + ((t \div DayTicks) + 1) - 2) % 7
    <3>1. calendarEvent[e] \in Kept
      BY EventsAreKept
    <3>2. t \in Nat
      <4>1. CASE calendarEvent[e].recurrence = "NONE"
        BY <3>1, <4>1, KeptIs DEF Occurrences
      <4>2. CASE calendarEvent[e].recurrence # "NONE"
        <5>1. t \in calendarEvent[e].startAt..calendarEvent[e].until
          BY <4>2 DEF Occurrences
        <5> QED BY <3>1, <4>2, <5>1, KeptIs
      <4> QED BY <4>1, <4>2
    <3>3. t \div DayTicks \in Nat
      BY <3>2, CalendarConstants, Division
    <3>4. PICK day \in 1..length : day = (t \div DayTicks) + 1
      BY <2>3, <3>3
    <3>5. LET places == {place \in buildMonthGrid(weekday, length) : place[2] = day}
          IN  /\ Cardinality(places) = 1
              /\ \A place \in places : place[1] % 7 = (weekday + day - 2) % 7
      BY GridRight
    <3> QED BY <3>4, <3>5
  <2> QED BY <2>1, <2>2, <2>3, RemindersRight, Zenon DEF CalendarExact
<1> QED BY <1>1, CalendarInvHolds, PTL
=============================================================================
