------------------------------ MODULE Listing ------------------------------
(***************************************************************************)
(* A client walks through the listing of auctions (listAuctions of         *)
(* auction.service.ts): a page by number first, which two queries answer   *)
(* beside each other, then page by page with the cursor of the page        *)
(* before, while sellers create and activate auctions and the worker ends  *)
(* them.  Clients only read, so there is one, and it asks for the active   *)
(* auctions.                                                               *)
(***************************************************************************)
EXTENDS Naturals, FiniteSets

CONSTANTS
  Auctions,  \* a set of naturals: the rows there may be, ordered as uuids are
  EndTimes,  \* a set of naturals: the end times to choose from
  Limit,     \* the page size the client asks for
  MaxPage    \* bound: the page number it may start from

ASSUME ListingAssumption ==
  /\ IsFiniteSet(Auctions) /\ Auctions \subseteq Nat
  /\ EndTimes \subseteq Nat \ {0} /\ {Limit, MaxPage} \subseteq Nat \ {0}

VARIABLES
  status,  \* auctions.status, "none" before the row exists
  end,     \* auctions.end_time, which no operation changes; 0 before
  asks,    \* what the client is doing
  page,    \* the page it started from
  rows,    \* the rows of the first page once read
  total,   \* the count beside them once read
  cursor,  \* the last row of the last page: end time and id
  border,  \* the end time of the last row of the first page
  seen,    \* the auctions it was shown
  again,   \* those it was shown twice
  stays,   \* the auctions listed ever since the walk began
  torn     \* the listing changed between the rows and their count

\* A read that was not made yet, and one that returned x.
Unread == [read |-> FALSE]
Read(x) == [read |-> TRUE, is |-> x]

dbVars == <<status, end>>
pageVars == <<page, rows, total>>
walkVars == <<cursor, border, seen, again>>
vars == <<dbVars, asks, pageVars, walkVars, stays, torn>>

Listed == {a \in Auctions : status[a] = "active"}

TypeOK ==
  /\ status \in [Auctions -> {"none", "draft", "active", "ended"}]
  /\ end \in [Auctions -> EndTimes \cup {0}]
  /\ asks \in {"nothing", "page", "cursor", "done"} /\ page \in 1 .. MaxPage
  /\ ~rows.read \/ rows.is \subseteq Auctions
  /\ ~total.read \/ total.is \in 0 .. Cardinality(Auctions)
  /\ cursor \in (EndTimes \cup {0}) \X (Auctions \cup {0})
  /\ border \in EndTimes \cup {0}
  /\ seen \subseteq Auctions /\ again \subseteq seen /\ stays \subseteq Auctions
  /\ torn \in BOOLEAN

Init ==
  /\ status = [a \in Auctions |-> "none"] /\ end = [a \in Auctions |-> 0]
  /\ asks = "nothing" /\ page = 1 /\ rows = Unread /\ total = Unread
  /\ cursor = <<0, 0>> /\ border = 0
  /\ seen = {} /\ again = {} /\ stays = {} /\ torn = FALSE

-----------------------------------------------------------------------------
(* Sellers and the worker.                                                  *)

\* An end time is in the future as long as no auction that ends then, or later,
\* has ended.
Future(e) == \A a \in Auctions : status[a] = "ended" => end[a] < e

CreateAuction(a, e) ==
  /\ status[a] = "none" /\ Future(e)
  /\ status' = [status EXCEPT ![a] = "draft"]
  /\ end' = [end EXCEPT ![a] = e]
  /\ UNCHANGED <<asks, pageVars, walkVars, stays, torn>>

\* The listing changes, perhaps between the two reads of a page.
Changes(a, to) ==
  /\ status' = [status EXCEPT ![a] = to]
  /\ torn' = (torn \/ rows.read # total.read)

ActivateAuction(a) ==
  /\ status[a] = "draft" /\ Future(end[a])
  /\ Changes(a, "active")
  /\ UNCHANGED <<end, asks, pageVars, walkVars, stays>>

\* Jobs are lost or late (AuctionLifecycle), so auctions end in any order.
EndAuction(a) ==
  /\ status[a] = "active"
  /\ Changes(a, "ended")
  /\ stays' = stays \ {a}
  /\ UNCHANGED <<end, asks, pageVars, walkVars>>

-----------------------------------------------------------------------------
(* The client.                                                              *)

StartWalk(p) ==
  /\ asks = "nothing"
  /\ asks' = "page" /\ page' = p /\ stays' = Listed
  /\ UNCHANGED <<dbVars, rows, total, walkVars, torn>>

\* OFFSET.
Skip == (page - 1) * Limit

\* ORDER BY end_time DESC LIMIT OFFSET: rows with the same end time come in any
\* order, another one in each query.
OffsetPages ==
  LET Ahead(as, bs) == \A a \in as, b \in bs : end[a] >= end[b]
      Rest(before, rs) == Listed \ (before \cup rs)
      Fits(before, rs) ==
        /\ Cardinality(before) <= Skip /\ Cardinality(rs) <= Limit
        /\ Cardinality(before) < Skip => rs = {} /\ Rest(before, rs) = {}
        /\ Cardinality(rs) < Limit => Rest(before, rs) = {}
        /\ Ahead(before, rs \cup Rest(before, rs)) /\ Ahead(rs, Rest(before, rs))
  IN {rs \in SUBSET Listed : \E before \in SUBSET (Listed \ rs) : Fits(before, rs)}

\* Promise.all: two connections, two snapshots, in either order.
ReadRows ==
  /\ asks = "page" /\ ~rows.read
  /\ \E rs \in OffsetPages : rows' = Read(rs)
  /\ UNCHANGED <<dbVars, asks, page, total, walkVars, stays, torn>>

ReadTotal ==
  /\ asks = "page" /\ ~total.read
  /\ total' = Read(Cardinality(Listed))
  /\ UNCHANGED <<dbVars, asks, page, rows, walkVars, stays, torn>>

HasMore == Cardinality(rows.is) = Limit /\ page * Limit < total.is

\* Mutant: the process is not in the zone of the column.
CursorInZone(a) == <<end[a] + 1, a>>

\* encodeCursor and decodeCursor carry the end time and the id, which the client
\* sends back as they are; another cursor is refused with 400, or fails with 500.
\* The column has no time zone, and the cursor path reads it in that of the
\* process, which is UTC unless TZ is set.
CursorOf(a) == <<end[a], a>>

\* The first page is answered.  Its last row is any that no other row of it comes
\* after.
AnswerPage ==
  /\ asks = "page" /\ rows.read /\ total.read
  /\ seen' = rows.is
  /\ IF HasMore
     THEN \E last \in rows.is :
            /\ \A a \in rows.is : end[last] <= end[a]
            /\ asks' = "cursor" /\ cursor' = CursorOf(last) /\ border' = end[last]
     ELSE /\ asks' = "done" /\ UNCHANGED cursor
          /\ \/ rows.is = {} /\ UNCHANGED border
             \/ \E last \in rows.is :
                  /\ \A a \in rows.is : end[last] <= end[a]
                  /\ border' = end[last]
  /\ rows' = Unread /\ total' = Unread
  /\ UNCHANGED <<dbVars, page, again, stays, torn>>

\* ORDER BY end_time DESC, id ASC.
Precedes(a, b) == end[a] > end[b] \/ (end[a] = end[b] /\ a < b)

\* Mutants: >= for >; the end time alone.
AfterOrAt(c, a) == end[a] < c[1] \/ (end[a] = c[1] /\ a >= c[2])
AfterTime(c, a) == end[a] < c[1]

\* The rows after a cursor.
After(c, a) == end[a] < c[1] \/ (end[a] = c[1] /\ a > c[2])

\* The cursor path: limit + 1 rows, the last of which only tells that there is more.
NextPage ==
  LET rest == {a \in Auctions : status[a] = "active" /\ After(cursor, a)}
  IN /\ asks = "cursor"
     /\ \E items \in SUBSET rest :
          /\ Cardinality(items) <= Limit /\ (Cardinality(items) < Limit => items = rest)
          /\ \A a \in items, b \in rest \ items : Precedes(a, b)
          /\ seen' = seen \cup items /\ again' = again \cup (seen \cap items)
          /\ IF items = rest THEN asks' = "done" /\ UNCHANGED cursor
             ELSE \E last \in items :
                    /\ \A a \in items \ {last} : Precedes(a, last)
                    /\ asks' = "cursor" /\ cursor' = CursorOf(last)
  /\ UNCHANGED <<dbVars, pageVars, border, stays, torn>>

Next ==
  \/ \E a \in Auctions :
       \/ \E e \in EndTimes : CreateAuction(a, e)
       \/ ActivateAuction(a) \/ EndAuction(a)
  \/ \E p \in 1 .. MaxPage : StartWalk(p)
  \/ ReadRows \/ ReadTotal \/ AnswerPage \/ NextPage

Spec == Init /\ [][Next]_vars

-----------------------------------------------------------------------------
(* What a walk shows.                                                       *)

\* The page a client starts from is cut by end time alone, the pages after it by end
\* time and id, so only auctions that end when its last row ends can be shown
\* twice or left out.

\* No other auction is shown twice, whatever is created, activated and ended
\* between the pages.
ShownOnce == \A a \in again : end[a] = border

\* An auction that stays listed while the client walks has been shown when no page
\* is left, if it comes after the first page, unless that page and its count were
\* torn apart; a walk from page 1 has also shown what comes before its last row.
NothingIsMissed ==
  /\ asks = "done" /\ ~torn => \A a \in stays : end[a] < border => a \in seen
  /\ asks \in {"cursor", "done"} /\ page = 1 =>
       \A a \in stays : end[a] > border => a \in seen
=============================================================================
