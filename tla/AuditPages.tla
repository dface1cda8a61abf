----------------------------- MODULE AuditPages -----------------------------
(***************************************************************************)
(* The audit trail read page by page, newest first, while it grows and     *)
(* while the reader changes the filter.  The server pages with the id of   *)
(* the last row it gave; the view keeps that id in a ref beside the rows,  *)
(* and neither ignores an answer for the filter of before.                 *)
(*                                                                         *)
(* Rows are numbered in the order of createdAt: no two share an instant.   *)
(***************************************************************************)
EXTENDS Naturals, FiniteSets

CONSTANTS
  LastRow,       \* rows the trail may reach: bounds its growth
  PageSize,      \* rows of a page
  PageCalls,     \* requests of the view: bounds those in flight
  LastFilter     \* changes of the filter: bounds them

ASSUME PageConstants == LastRow \in Nat /\ PageSize \in Nat \ {0} /\ LastFilter \in Nat

Results == {"SUCCESS", "FAILURE"}
NoCursor == 0
PageIdle == [at |-> "idle"]

VARIABLES
  trail,      \* the result of each row, row 1 the oldest
  filter,     \* the result asked for, or "any"
  filterNo,   \* history: the number of that filter
  rows,       \* the rows shown
  cursor,     \* the row after which the next page begins
  more,       \* loadingMore
  pageCall,   \* requests in flight
  mixed       \* history: an answer for a filter of before was shown with this one

pageVars == <<trail, filter, filterNo, rows, cursor, more, pageCall, mixed>>

Matching(f) == {r \in DOMAIN trail : f \in {"any", trail[r]}}
Newest(S, n) == {r \in S : Cardinality({x \in S : x > r}) < n}
Oldest(S) == CHOOSE r \in S : \A x \in S : r <= x

PageAsked(mode, f, n, c) ==
  [at |-> "sent", mode |-> mode, filter |-> f, no |-> n, cursor |-> c]

PagesTypeOK ==
  /\ trail \in UNION {[1..n -> Results] : n \in 0..LastRow}
  /\ filter \in Results \cup {"any"} /\ filterNo \in 0..LastFilter
  /\ rows \subseteq DOMAIN trail /\ cursor \in {NoCursor} \cup DOMAIN trail
  /\ more \in BOOLEAN /\ mixed \in BOOLEAN

\* The view is mounted for a workspace that has some trail already.
PagesInit ==
  /\ \E n \in 0..LastRow : trail \in [1..n -> Results]
  /\ filter = "any" /\ filterNo = 0
  /\ rows = {} /\ cursor = NoCursor /\ more = FALSE /\ mixed = FALSE
  /\ \E k \in PageCalls :
       pageCall = [c \in PageCalls |->
         IF c = k THEN PageAsked("replace", "any", 0, NoCursor) ELSE PageIdle]
-----------------------------------------------------------------------------
\* Somebody's operation leaves a row.
Recorded ==
  /\ Cardinality(DOMAIN trail) < LastRow
  /\ \E result \in Results :
       trail' = [r \in 1..(Cardinality(DOMAIN trail) + 1) |->
                   IF r \in DOMAIN trail THEN trail[r] ELSE result]
  /\ UNCHANGED <<filter, filterNo, rows, cursor, more, pageCall, mixed>>

\* Another filter: the list and the cursor are cleared and a page is asked for.
FilterChanged(k) ==
  /\ filterNo < LastFilter /\ pageCall[k] = PageIdle
  /\ \E f \in (Results \cup {"any"}) \ {filter} :
       /\ filter' = f
       /\ pageCall' = [pageCall EXCEPT ![k] = PageAsked("replace", f, filterNo + 1, NoCursor)]
  /\ filterNo' = filterNo + 1
  /\ rows' = {} /\ cursor' = NoCursor /\ mixed' = FALSE
  /\ UNCHANGED <<trail, more>>

\* The button for more: shown while there is a cursor, disabled while more is on
\* its way, or so the view believes.
MoreAsked(k) ==
  /\ cursor # NoCursor /\ ~more /\ pageCall[k] = PageIdle
  /\ more' = TRUE
  /\ pageCall' = [pageCall EXCEPT ![k] = PageAsked("append", filter, filterNo, cursor)]
  /\ UNCHANGED <<trail, filter, filterNo, rows, cursor, mixed>>
-----------------------------------------------------------------------------
\* One row more than the page is read, and tells whether there is a next page.
\* The cursor would be that row, which the next page skips.
listLogsSkipping(f, c) ==
  LET found == Newest({r \in Matching(f) : c # NoCursor => r < c}, PageSize + 1)
      page == Newest(found, PageSize)
  IN  [items |-> page, next |-> IF found # page THEN Oldest(found) ELSE NoCursor]

\* The cursor is the last row of the page.
listLogs(f, c) ==
  LET found == Newest({r \in Matching(f) : c # NoCursor => r < c}, PageSize + 1)
      page == Newest(found, PageSize)
  IN  [items |-> page, next |-> IF found # page THEN Oldest(page) ELSE NoCursor]

PageRead(k) ==
  /\ pageCall[k] # PageIdle /\ pageCall[k].at = "sent"
  /\ LET r == pageCall[k]
     IN  pageCall' = [pageCall EXCEPT ![k] =
           [at |-> "read", mode |-> r.mode, no |-> r.no, page |-> listLogs(r.filter, r.cursor)]]
  /\ UNCHANGED <<trail, filter, filterNo, rows, cursor, more, mixed>>

\* Rows are kept by their id, whichever filter they were asked for.
appendAuditPage(existing, incoming) == existing \cup incoming

\* The page arrives, and the button is enabled whatever else is on its way.
PageShown(k) ==
  /\ pageCall[k] # PageIdle /\ pageCall[k].at = "read"
  /\ rows' = appendAuditPage(IF pageCall[k].mode = "replace" THEN {} ELSE rows,
                             pageCall[k].page.items)
  /\ cursor' = pageCall[k].page.next
  /\ more' = FALSE
  /\ mixed' = (mixed \/ pageCall[k].no # filterNo)
  /\ pageCall' = [pageCall EXCEPT ![k] = PageIdle]
  /\ UNCHANGED <<trail, filter, filterNo>>

\* The request fails: what is shown and where to go on stay.
PageFailed(k) ==
  /\ pageCall[k] # PageIdle
  /\ more' = FALSE
  /\ pageCall' = [pageCall EXCEPT ![k] = PageIdle]
  /\ UNCHANGED <<trail, filter, filterNo, rows, cursor, mixed>>

PagesNext ==
  \/ Recorded
  \/ \E k \in PageCalls :
       \/ FilterChanged(k) \/ MoreAsked(k) \/ PageRead(k) \/ PageShown(k) \/ PageFailed(k)

PagesSpec == PagesInit /\ [][PagesNext]_pageVars
-----------------------------------------------------------------------------
\* However the trail grows and whichever page fails or comes late, the rows shown
\* are the matching rows from some moment back without a gap, the next page begins
\* right after one of them, and without a next page nothing older is left.  An
\* answer for the filter of before is the one thing that spoils it.
PagesContiguous ==
  ~mixed /\ rows # {} =>
    LET M == Matching(filter)
        newest == CHOOSE r \in rows : \A x \in rows : x <= r
        down == {r \in M : r <= newest}
    IN  /\ rows = {r \in down : r >= Oldest(rows)}
        /\ IF cursor # NoCursor THEN cursor \in rows ELSE rows = down
=============================================================================
