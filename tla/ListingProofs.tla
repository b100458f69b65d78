---------------------------- MODULE ListingProofs ----------------------------
(***************************************************************************)
(* The walk through the listing for any number of auctions, end times and  *)
(* page sizes: ShownOnce and NothingIsMissed.                              *)
(***************************************************************************)
EXTENDS Listing, FiniteSetTheorems, TLAPS

Types ==
  /\ status \in [Auctions -> {"none", "draft", "active", "ended"}]
  /\ end \in [Auctions -> Nat]
  /\ asks \in {"nothing", "page", "cursor", "done"} /\ page \in Nat \ {0}
  /\ rows = Unread \/ (rows = Read(rows.is) /\ rows.is \subseteq Auctions)
  /\ total = Unread \/ (total = Read(total.is) /\ total.is \in Nat)
  /\ cursor \in Nat \X Nat /\ border \in Nat
  /\ seen \subseteq Auctions /\ again \subseteq seen
  /\ stays \subseteq Listed /\ torn \in BOOLEAN

\* What was read or shown is no draft, so nobody chooses its end time any more.
Chosen ==
  /\ \A a \in seen : status[a] \in {"active", "ended"}
  /\ rows.read => \A a \in rows.is : status[a] \in {"active", "ended"}

\* The two reads belong to the first page, and nothing is shown before it.
Phases ==
  /\ asks \in {"nothing", "page"} => seen = {} /\ again = {} /\ border = 0
  /\ asks # "page" => rows = Unread /\ total = Unread

\* What the client has seen lies before the cursor, but for auctions that end when
\* the first page's last row ends.
Behind ==
  asks = "cursor" =>
    /\ cursor[1] <= border
    /\ \A a \in seen :
         end[a] > cursor[1] \/ (end[a] = cursor[1] /\ (a <= cursor[2] \/ end[a] = border))

\* What stays listed and comes after the first page was seen or lies after the cursor.
Covered ==
  /\ asks = "cursor" => \A a \in stays : end[a] < border => a \in seen \/ After(cursor, a)
  /\ asks = "done" /\ ~torn => \A a \in stays : end[a] < border => a \in seen

\* Page 1 has what comes before its last row.
Top ==
  page = 1 =>
    /\ rows.read => \A a \in stays \ rows.is :
                      rows.is # {} /\ \A b \in rows.is : end[a] <= end[b]
    /\ asks \in {"cursor", "done"} => \A a \in stays : end[a] > border => a \in seen

\* Between its two reads the first page is one the database may answer now, or the
\* listing has changed; after them, a page that is the last has what comes after its
\* rows.
Whole ==
  ~torn =>
    /\ rows.read /\ ~total.read => rows.is \in OffsetPages
    /\ total.read /\ ~rows.read => total.is = Cardinality(Listed)
    /\ rows.read /\ total.read /\ ~HasMore =>
         \A a \in stays \ rows.is, b \in rows.is : end[a] >= end[b]

LInv == Types /\ Chosen /\ Phases /\ Behind /\ Covered /\ Top /\ Whole /\ ShownOnce

-----------------------------------------------------------------------------
(* What a page by number is.                                                *)

\* Page 1 is the top of the listing; and a page that is not full, or is full and as
\* long as the listing goes, has what is not before it.
LEMMA PageFacts ==
  ASSUME Types, NEW rs \in OffsetPages
  PROVE  /\ rs \subseteq Listed
         /\ page = 1 => \A a \in Listed \ rs : rs # {} /\ \A b \in rs : end[a] <= end[b]
         /\ \/ Cardinality(rs) = Limit /\ page * Limit < Cardinality(Listed)
            \/ \A a \in Listed \ rs, b \in rs : end[a] >= end[b]
<1>1. /\ Limit \in Nat /\ Limit > 0 /\ page \in Nat /\ page > 0
      /\ \A a \in Listed : end[a] \in Nat /\ a \in Auctions
  BY ListingAssumption DEF Types, Listed
<1>2. PICK before \in SUBSET (Listed \ rs) :
        /\ Cardinality(before) <= Skip /\ Cardinality(rs) <= Limit
        /\ Cardinality(before) < Skip => rs = {} /\ Listed \ (before \cup rs) = {}
        /\ Cardinality(rs) < Limit => Listed \ (before \cup rs) = {}
        /\ \A a \in before, b \in rs \cup (Listed \ (before \cup rs)) : end[a] >= end[b]
        /\ \A a \in rs, b \in Listed \ (before \cup rs) : end[a] >= end[b]
  BY DEF OffsetPages
<1>3. rs \subseteq Listed
  BY DEF OffsetPages
<1>4. IsFiniteSet(Listed)
  BY ListingAssumption, FS_Subset DEF Listed
<1>5. IsFiniteSet(rs) /\ IsFiniteSet(before)
  BY <1>3, <1>4, FS_Subset
<1>6. Cardinality(rs) \in Nat /\ Cardinality(before) \in Nat /\ Cardinality(Listed) \in Nat
  BY <1>4, <1>5, FS_CardinalityType
<1>7. rs = {} <=> Cardinality(rs) = 0
  BY <1>5, FS_EmptySet
<1>8. Skip \in Nat /\ Skip + Limit = page * Limit
  <2>1. \A n \in Nat : n * Limit \in Nat /\ n * Limit + Limit = (n + 1) * Limit
    BY <1>1
  <2>2. page - 1 \in Nat /\ (page - 1) + 1 = page
    BY <1>1
  <2> QED BY <2>1, <2>2 DEF Skip
<1>9. ASSUME page = 1, NEW a \in Listed \ rs
      PROVE  rs # {} /\ \A b \in rs : end[a] <= end[b]
  <2>1. Skip = 0
    BY <1>1, <1>9 DEF Skip
  <2>2. before = {}
    BY <1>2, <1>5, <1>6, <2>1, FS_EmptySet
  <2>3. rs # {}
    BY <1>1, <1>2, <1>7, <1>9, <2>2
  <2>4. \A b \in rs : end[b] >= end[a]
    BY <1>2, <1>9, <2>2
  <2> QED BY <1>1, <1>3, <2>3, <2>4
<1>10. Listed = before \cup rs => \A a \in Listed \ rs, b \in rs : end[a] >= end[b]
  BY <1>2
<1>11. ASSUME Listed # before \cup rs
       PROVE  Cardinality(rs) = Limit /\ page * Limit < Cardinality(Listed)
  <2>1. Cardinality(rs) = Limit
    BY <1>1, <1>2, <1>3, <1>6, <1>11
  <2>2. Cardinality(before) = Skip
    BY <1>1, <1>2, <1>6, <1>7, <1>8, <2>1
  <2>3. Cardinality(before \cup rs) = Skip + Limit
    <3>1. before \cap rs = {}
      OBVIOUS
    <3>2. Cardinality(before \cup rs) = Cardinality(before) + Cardinality(rs) - 0
      BY <1>5, <3>1, FS_Union, FS_EmptySet
    <3> QED BY <1>1, <1>8, <2>1, <2>2, <3>2
  <2>4. Cardinality(before \cup rs) <= Cardinality(Listed) /\ Cardinality(before \cup rs) # Cardinality(Listed)
    <3>1. before \cup rs \in SUBSET Listed
      BY <1>3
    <3> QED BY <1>4, <1>11, <3>1, FS_Subset
  <2>5. Cardinality(before \cup rs) = page * Limit
    BY <1>8, <2>3
  <2>6. page * Limit \in Nat
    BY <1>1, <1>8
  <2> QED BY <1>6, <2>1, <2>4, <2>5, <2>6
<1> QED BY <1>3, <1>9, <1>10, <1>11

\* Pages are the same as long as the listing is.
LEMMA PageKeeps ==
  ASSUME Listed' = Listed, page' = page, \A a \in Listed : end'[a] = end[a],
         NEW rs \in OffsetPages
  PROVE  rs \in OffsetPages'
<1>1. PICK before \in SUBSET (Listed \ rs) :
        /\ Cardinality(before) <= Skip /\ Cardinality(rs) <= Limit
        /\ Cardinality(before) < Skip => rs = {} /\ Listed \ (before \cup rs) = {}
        /\ Cardinality(rs) < Limit => Listed \ (before \cup rs) = {}
        /\ \A a \in before, b \in rs \cup (Listed \ (before \cup rs)) : end[a] >= end[b]
        /\ \A a \in rs, b \in Listed \ (before \cup rs) : end[a] >= end[b]
  BY DEF OffsetPages
<1>2. rs \subseteq Listed
  BY DEF OffsetPages
<1>3. Skip' = Skip
  BY DEF Skip
<1>4. /\ \A a \in before, b \in rs \cup (Listed \ (before \cup rs)) : end'[a] >= end'[b]
      /\ \A a \in rs, b \in Listed \ (before \cup rs) : end'[a] >= end'[b]
  BY <1>1, <1>2
<1> QED BY <1>1, <1>2, <1>3, <1>4 DEF OffsetPages

-----------------------------------------------------------------------------
(* Every step preserves the invariant.                                      *)

LEMMA ReadTypes ==
  ASSUME Types
  PROVE  rows.read \in BOOLEAN /\ total.read \in BOOLEAN
<1>1. Unread.read = FALSE /\ \A x : Read(x).read = TRUE
  BY DEF Unread, Read
<1>2. rows = Unread \/ rows = Read(rows.is)
  BY DEF Types
<1>3. total = Unread \/ total = Read(total.is)
  BY DEF Types
<1> QED BY <1>1, <1>2, <1>3

LEMMA InitLInv == Init => LInv
<1> SUFFICES ASSUME Init PROVE LInv
  OBVIOUS
<1> USE ListingAssumption DEF Init
<1>1. Types
  <2>1. cursor \in Nat \X Nat /\ end \in [Auctions -> Nat] /\ page \in Nat \ {0}
    OBVIOUS
  <2> QED BY <2>1 DEF Types
<1>2. Chosen /\ Phases /\ Behind BY DEF Chosen, Phases, Behind, Unread
<1>3. Covered /\ Top /\ Whole BY DEF Covered, Top, Whole, Unread
<1>4. ShownOnce BY DEF ShownOnce
<1> QED BY <1>1, <1>2, <1>3, <1>4 DEF LInv

\* Sellers and the worker: what was read, shown or is listed keeps its end time.
LEMMA StoreLInv ==
  ASSUME LInv, NEW a \in Auctions,
         (\E e \in EndTimes : CreateAuction(a, e)) \/ ActivateAuction(a) \/ EndAuction(a)
  PROVE  LInv'
<1>1. /\ UNCHANGED <<asks, page, rows, total, cursor, border, seen, again>>
      /\ end' \in [Auctions -> Nat]
      /\ \A x \in Auctions : status[x] # "none" => end'[x] = end[x]
  BY ListingAssumption DEF CreateAuction, ActivateAuction, EndAuction, pageVars, walkVars, LInv, Types
<1>2. /\ status' \in [Auctions -> {"none", "draft", "active", "ended"}]
      /\ \A x \in Auctions : status[x] \in {"active", "ended"} => status'[x] \in {"active", "ended"}
      /\ stays' \subseteq stays /\ stays' \subseteq Listed'
  BY DEF CreateAuction, ActivateAuction, EndAuction, Changes, LInv, Types, Listed
<1>3. /\ torn' \in BOOLEAN
      /\ torn => torn'
      /\ ~torn' => \/ Listed' = Listed
                   \/ rows.read /\ total.read
                   \/ ~rows.read /\ ~total.read
  <2>1. rows.read \in BOOLEAN /\ total.read \in BOOLEAN /\ torn \in BOOLEAN
    BY ReadTypes DEF LInv, Types
  <2>2. CASE \E e \in EndTimes : CreateAuction(a, e)
    BY <2>1, <2>2 DEF CreateAuction, Listed, LInv, Types
  <2>3. CASE ActivateAuction(a) \/ EndAuction(a)
    <3>1. torn' = (torn \/ rows.read # total.read)
      BY <2>3 DEF ActivateAuction, EndAuction, Changes
    <3> QED BY <2>1, <3>1
  <2> QED BY <2>2, <2>3
<1>4. \A x \in seen \cup stays \cup Listed \cup (IF rows.read THEN rows.is ELSE {}) :
        end'[x] = end[x] /\ x \in Auctions
  BY <1>1 DEF LInv, Types, Chosen, Listed, Read, Unread
<1>0. torn \in BOOLEAN /\ Whole /\ Covered
  BY DEF LInv, Types
<1>5. Types'
  <2>1. rows' = Unread \/ (rows' = Read(rows'.is) /\ rows'.is \subseteq Auctions)
    BY <1>1 DEF LInv, Types
  <2>2. total' = Unread \/ (total' = Read(total'.is) /\ total'.is \in Nat)
    BY <1>1 DEF LInv, Types
  <2>3. page' \in Nat \ {0} /\ cursor' \in Nat \X Nat /\ border' \in Nat
        /\ asks' \in {"nothing", "page", "cursor", "done"}
        /\ seen' \subseteq Auctions /\ again' \subseteq seen'
    BY <1>1 DEF LInv, Types
  <2>4. torn' \in BOOLEAN
    BY <1>3
  <2> QED BY <1>1, <1>2, <2>1, <2>2, <2>3, <2>4 DEF Types
<1>6. Chosen'
  BY <1>1, <1>2, <1>4 DEF LInv, Types, Chosen
<1>7. Phases'
  BY <1>1 DEF LInv, Phases, Unread
<1>8. Behind'
  BY <1>1, <1>4 DEF LInv, Behind
<1>9. Covered'
  <2>1. \A x \in stays' : end'[x] = end[x] /\ (After(cursor, x)' <=> After(cursor, x)) /\ x \in stays
    BY <1>1, <1>2, <1>4 DEF After
  <2> QED BY <1>0, <1>1, <1>3, <2>1 DEF Covered
<1>10. Top'
  BY <1>1, <1>2, <1>4 DEF LInv, Top
<1>11. Whole'
  <2> SUFFICES ASSUME ~torn' PROVE Whole'
    BY DEF Whole
  <2>1. rows.read /\ ~total.read => rows.is \in OffsetPages'
    <3> SUFFICES ASSUME rows.read, ~total.read PROVE rows.is \in OffsetPages'
      OBVIOUS
    <3>1. rows.is \in OffsetPages /\ Listed' = Listed
      BY <1>0, <1>3 DEF Whole
    <3>2. \A x \in Listed : end'[x] = end[x]
      BY <1>4
    <3> QED BY <1>1, <3>1, <3>2, PageKeeps
  <2>2. total.read /\ ~rows.read => total.is = Cardinality(Listed')
    BY <1>0, <1>3 DEF Whole
  <2>3. HasMore' = HasMore
    BY <1>1 DEF HasMore
  <2>4. rows.read /\ total.read /\ ~HasMore =>
          \A x \in stays' \ rows.is, b \in rows.is : end'[x] >= end'[b]
    BY <1>0, <1>1, <1>2, <1>3, <1>4 DEF Whole
  <2> QED BY <1>1, <2>1, <2>2, <2>3, <2>4 DEF Whole
<1>12. ShownOnce'
  BY <1>1, <1>4 DEF LInv, Types, ShownOnce
<1> QED BY <1>5, <1>6, <1>7, <1>8, <1>9, <1>10, <1>11, <1>12 DEF LInv

LEMMA StartLInv ==
  ASSUME LInv, NEW p \in 1 .. MaxPage, StartWalk(p)
  PROVE  LInv'
<1>1. /\ asks = "nothing" /\ asks' = "page" /\ page' = p /\ stays' = Listed
      /\ UNCHANGED <<status, end, rows, total, cursor, border, seen, again, torn>>
      /\ p \in Nat \ {0} /\ rows.read = FALSE /\ total.read = FALSE
  BY ListingAssumption DEF StartWalk, dbVars, walkVars, LInv, Phases, Unread
<1>2. Listed' = Listed
  BY <1>1 DEF Listed
<1>3. Types'
  BY <1>1, <1>2 DEF LInv, Types
<1>4. Chosen' /\ Phases'
  BY <1>1 DEF LInv, Chosen, Phases
<1>5. Behind' /\ Covered' /\ Top' /\ Whole'
  BY <1>1 DEF LInv, Behind, Covered, Top, Whole
<1>6. ShownOnce'
  BY <1>1 DEF LInv, ShownOnce
<1> QED BY <1>3, <1>4, <1>5, <1>6 DEF LInv

\* The reads of the first page, in either order.
LEMMA ReadLInv ==
  ASSUME LInv, ReadRows \/ ReadTotal
  PROVE  LInv'
<1>0. Types /\ Chosen /\ Phases /\ Behind /\ Covered /\ Top /\ Whole /\ ShownOnce
      /\ rows.read \in BOOLEAN /\ total.read \in BOOLEAN /\ torn \in BOOLEAN
      /\ \A x : Read(x).read = TRUE /\ Read(x).is = x
  BY ReadTypes DEF LInv, Types, Read
<1>1. /\ asks = "page"
      /\ UNCHANGED <<status, end, asks, page, cursor, border, seen, again, stays, torn>>
  BY DEF ReadRows, ReadTotal, dbVars, walkVars
<1>2. Listed' = Listed /\ OffsetPages' = OffsetPages
  BY <1>1 DEF Listed, OffsetPages, Skip
<1>3. stays \subseteq Listed /\ Listed \subseteq Auctions
      /\ \A a \in Listed : status[a] = "active"
  BY <1>0 DEF Types, Listed
<1>4. CASE ReadRows
  <2>1. PICK rs \in OffsetPages : rows' = Read(rs)
    BY <1>4 DEF ReadRows
  <2>2. total' = total /\ rows'.read = TRUE /\ rows'.is = rs /\ rows.read = FALSE
    BY <1>0, <1>4, <2>1 DEF ReadRows
  <2>3. /\ rs \subseteq Listed
        /\ page = 1 => \A a \in Listed \ rs : rs # {} /\ \A b \in rs : end[a] <= end[b]
        /\ \/ Cardinality(rs) = Limit /\ page * Limit < Cardinality(Listed)
           \/ \A a \in Listed \ rs, b \in rs : end[a] >= end[b]
    BY <1>0, PageFacts
  <2>4. Types'
    BY <1>0, <1>1, <1>2, <1>3, <2>1, <2>2, <2>3 DEF Types
  <2>5. Chosen' /\ Phases'
    BY <1>0, <1>1, <1>3, <2>2, <2>3 DEF Chosen, Phases
  <2>6. Behind' /\ Covered'
    BY <1>0, <1>1 DEF Behind, Covered
  <2>7. Top'
    BY <1>0, <1>1, <1>3, <2>2, <2>3 DEF Top
  <2>8. Whole'
    <3> SUFFICES ASSUME ~torn PROVE Whole'
      BY <1>1 DEF Whole
    <3>1. rs \in OffsetPages'
      BY <1>2
    <3>2. total.read /\ ~HasMore' => \A a \in stays \ rs, b \in rs : end[a] >= end[b]
      <4> SUFFICES ASSUME total.read, ~(Cardinality(rs) = Limit /\ page * Limit < Cardinality(Listed))
                   PROVE  \A a \in stays \ rs, b \in rs : end[a] >= end[b]
        BY <1>0, <1>1, <2>2 DEF HasMore, Whole
      <4> QED BY <1>3, <2>3
    <3> QED BY <1>1, <2>2, <3>1, <3>2 DEF Whole
  <2>9. ShownOnce'
    BY <1>0, <1>1 DEF ShownOnce
  <2> QED BY <2>4, <2>5, <2>6, <2>7, <2>8, <2>9 DEF LInv
<1>5. CASE ReadTotal
  <2>1. /\ rows' = rows /\ total' = Read(Cardinality(Listed)) /\ total.read = FALSE
        /\ total'.read = TRUE /\ total'.is = Cardinality(Listed)
    BY <1>0, <1>5 DEF ReadTotal
  <2>2. Cardinality(Listed) \in Nat
    BY <1>3, ListingAssumption, FS_Subset, FS_CardinalityType
  <2>3. Types'
    BY <1>0, <1>1, <1>2, <2>1, <2>2 DEF Types
  <2>4. Chosen' /\ Phases'
    BY <1>0, <1>1, <2>1 DEF Chosen, Phases
  <2>5. Behind' /\ Covered' /\ Top'
    BY <1>0, <1>1, <2>1 DEF Behind, Covered, Top
  <2>6. Whole'
    <3> SUFFICES ASSUME ~torn PROVE Whole'
      BY <1>1 DEF Whole
    <3>1. rows.read /\ ~HasMore' =>
            \A a \in stays \ rows.is, b \in rows.is : end[a] >= end[b]
      <4> SUFFICES ASSUME rows.read, ~(Cardinality(rows.is) = Limit /\ page * Limit < Cardinality(Listed))
                   PROVE  \A a \in stays \ rows.is, b \in rows.is : end[a] >= end[b]
        BY <1>1, <2>1 DEF HasMore
      <4>1. rows.is \in OffsetPages
        BY <1>0, <2>1 DEF Whole
      <4> QED BY <1>0, <1>3, <4>1, PageFacts
    <3> QED BY <1>1, <1>2, <2>1, <3>1 DEF Whole
  <2>7. ShownOnce'
    BY <1>0, <1>1 DEF ShownOnce
  <2> QED BY <2>3, <2>4, <2>5, <2>6, <2>7 DEF LInv
<1> QED BY <1>4, <1>5

\* The first page is shown.
LEMMA AnswerLInv ==
  ASSUME LInv, AnswerPage
  PROVE  LInv'
<1>0. Types /\ Chosen /\ Phases /\ Behind /\ Covered /\ Top /\ Whole /\ ShownOnce
      /\ torn \in BOOLEAN /\ Unread.read = FALSE
  BY DEF LInv, Types, Unread
<1>1. /\ asks = "page" /\ rows.read /\ total.read /\ seen' = rows.is /\ seen = {} /\ again = {}
      /\ rows' = Unread /\ total' = Unread /\ border = 0
      /\ UNCHANGED <<status, end, page, again, stays, torn>>
  BY <1>0 DEF AnswerPage, Phases, dbVars
<1>2. /\ rows.is \subseteq Auctions /\ Listed' = Listed /\ stays \subseteq Listed
      /\ \A a \in Auctions : end[a] \in Nat /\ a \in Nat
      /\ stays \subseteq Auctions
  BY <1>0, <1>1, ListingAssumption DEF Types, Listed, Unread
<1>3. \/ /\ HasMore
         /\ \E last \in rows.is :
              /\ \A a \in rows.is : end[last] <= end[a]
              /\ asks' = "cursor" /\ cursor' = <<end[last], last>> /\ border' = end[last]
      \/ /\ ~HasMore /\ asks' = "done" /\ cursor' = cursor
         /\ \/ rows.is = {} /\ border' = 0
            \/ \E last \in rows.is :
                 (\A a \in rows.is : end[last] <= end[a]) /\ border' = end[last]
  BY <1>1 DEF AnswerPage, CursorOf
<1>4. border' \in Nat /\ cursor' \in Nat \X Nat /\ asks' \in {"cursor", "done"}
  BY <1>0, <1>2, <1>3 DEF Types
<1>5. Types'
  BY <1>0, <1>1, <1>2, <1>4 DEF Types
<1>6. Chosen' /\ Phases'
  BY <1>0, <1>1, <1>4 DEF Chosen, Phases
<1>7. Behind'
  BY <1>1, <1>2, <1>3 DEF Behind
<1>8. Covered'
  <2>1. ASSUME asks' = "cursor", NEW a \in stays, end[a] < border' PROVE After(cursor', a)
    BY <1>1, <1>2, <1>3, <2>1 DEF After
  <2>2. ASSUME asks' = "done", ~torn, NEW a \in stays, end[a] < border' PROVE a \in rows.is
    <3>1. ~HasMore
      BY <1>3, <2>2
    <3>2. \A x \in stays \ rows.is, b \in rows.is : end[x] >= end[b]
      BY <1>0, <1>1, <2>2, <3>1 DEF Whole
    <3> QED BY <1>2, <1>3, <2>2, <3>2
  <2> QED BY <1>1, <2>1, <2>2 DEF Covered, After
<1>9. Top'
  <2>1. ASSUME page = 1, NEW a \in stays, end[a] > border' PROVE a \in rows.is
    BY <1>0, <1>1, <1>2, <1>3, <2>1 DEF Top
  <2> QED BY <1>0, <1>1, <2>1 DEF Top
<1>10. Whole' /\ ShownOnce'
  BY <1>0, <1>1 DEF Whole, ShownOnce
<1> QED BY <1>5, <1>6, <1>7, <1>8, <1>9, <1>10 DEF LInv

\* A page by cursor is shown.
LEMMA NextPageLInv ==
  ASSUME LInv, NextPage
  PROVE  LInv'
<1> DEFINE rest == {a \in Auctions : status[a] = "active" /\ After(cursor, a)}
<1>0. Types /\ Chosen /\ Phases /\ Behind /\ Covered /\ Top /\ Whole /\ ShownOnce
  BY DEF LInv
<1>1. /\ asks = "cursor"
      /\ UNCHANGED <<status, end, page, rows, total, border, stays, torn>>
      /\ rows = Unread /\ total = Unread /\ rows.read = FALSE /\ total.read = FALSE
  BY <1>0 DEF NextPage, dbVars, pageVars, Phases, Unread
<1>2. PICK items \in SUBSET rest :
        /\ \A a \in items, b \in rest \ items : Precedes(a, b)
        /\ seen' = seen \cup items /\ again' = again \cup (seen \cap items)
        /\ \/ items = rest /\ asks' = "done" /\ cursor' = cursor
           \/ \E last \in items :
                /\ \A a \in items \ {last} : Precedes(a, last)
                /\ asks' = "cursor" /\ cursor' = <<end[last], last>>
  BY DEF NextPage, CursorOf
<1>3. /\ \A a \in Auctions : end[a] \in Nat /\ a \in Nat
      /\ cursor[1] \in Nat /\ cursor[2] \in Nat /\ border \in Nat
      /\ seen \subseteq Auctions /\ rest \subseteq Auctions /\ Listed' = Listed
      /\ \A a \in stays : status[a] = "active" /\ a \in Auctions
  BY <1>0, <1>1, ListingAssumption DEF Types, Listed
<1>4. /\ \A a \in rest : end[a] < cursor[1] \/ (end[a] = cursor[1] /\ a > cursor[2])
      /\ \A a \in items, b \in rest \ items : end[a] > end[b] \/ (end[a] = end[b] /\ a < b)
      /\ \A last \in items : (\A a \in items \ {last} : Precedes(a, last)) =>
           \A a \in items \ {last} : end[a] > end[last] \/ (end[a] = end[last] /\ a < last)
  BY <1>2 DEF After, Precedes
<1>5. asks' \in {"cursor", "done"} /\ cursor' \in Nat \X Nat
  BY <1>0, <1>2, <1>3 DEF Types
<1>6. Types'
  BY <1>0, <1>1, <1>2, <1>3, <1>5 DEF Types
<1>7. Chosen' /\ Phases'
  BY <1>0, <1>1, <1>2, <1>5 DEF Chosen, Phases
<1>8. Behind'
  <2> SUFFICES ASSUME asks' = "cursor"
               PROVE  /\ cursor'[1] <= border
                      /\ \A a \in seen \cup items :
                           \/ end[a] > cursor'[1]
                           \/ end[a] = cursor'[1] /\ (a <= cursor'[2] \/ end[a] = border)
    BY <1>1, <1>2 DEF Behind
  <2>1. PICK last \in items :
          /\ \A a \in items \ {last} : end[a] > end[last] \/ (end[a] = end[last] /\ a < last)
          /\ cursor' = <<end[last], last>>
    BY <1>2, <1>4
  <2>2. last \in Auctions /\ last \in rest /\ cursor'[1] = end[last] /\ cursor'[2] = last
    BY <1>3, <2>1
  <2>3. cursor[1] <= border
        /\ \A a \in seen :
             end[a] > cursor[1] \/ (end[a] = cursor[1] /\ (a <= cursor[2] \/ end[a] = border))
    BY <1>0, <1>1 DEF Behind
  <2>4. \A a \in items :
          end[a] > end[last] \/ (end[a] = end[last] /\ (a <= last \/ end[a] = border))
    BY <1>3, <2>1, <2>2
  <2>5. \A a \in seen :
          end[a] > end[last] \/ (end[a] = end[last] /\ (a <= last \/ end[a] = border))
    BY <1>3, <1>4, <2>2, <2>3
  <2> QED BY <1>3, <1>4, <2>2, <2>3, <2>4, <2>5
<1>9. \A a \in stays : end[a] < border =>
        \/ a \in seen \cup items
        \/ asks' = "cursor" /\ After(cursor', a)
  <2> SUFFICES ASSUME NEW a \in stays, end[a] < border, a \notin seen, a \notin items
               PROVE  asks' = "cursor" /\ After(cursor', a)
    OBVIOUS
  <2>1. a \in rest \ items
    BY <1>0, <1>1, <1>3 DEF Covered
  <2>2. PICK last \in items : asks' = "cursor" /\ cursor' = <<end[last], last>>
    BY <1>2, <2>1
  <2>3. end[last] > end[a] \/ (end[last] = end[a] /\ last < a)
    BY <1>4, <2>1, <2>2
  <2>4. last \in Auctions
    BY <1>3, <2>2
  <2> QED BY <1>3, <2>1, <2>2, <2>3, <2>4 DEF After
<1>10. Covered'
  BY <1>1, <1>2, <1>9 DEF Covered, After
<1>11. Top'
  BY <1>0, <1>1, <1>2 DEF Top
<1>12. Whole'
  BY <1>1 DEF Whole
<1>13. ShownOnce'
  <2>1. ASSUME NEW a \in seen \cap items PROVE end[a] = border
    <3>1. a \in Auctions /\ a \in rest
      BY <1>3, <2>1
    <3> QED BY <1>0, <1>1, <1>3, <1>4, <3>1 DEF Behind
  <2> QED BY <1>0, <1>1, <1>2, <2>1 DEF ShownOnce
<1> QED BY <1>6, <1>7, <1>8, <1>10, <1>11, <1>12, <1>13 DEF LInv

-----------------------------------------------------------------------------
(* The theorems.                                                            *)

LEMMA NextLInv == LInv /\ [Next]_vars => LInv'
<1> SUFFICES ASSUME LInv, [Next]_vars PROVE LInv'
  OBVIOUS
<1>1. CASE UNCHANGED vars
  <2>1. UNCHANGED <<status, end, asks, page, rows, total, cursor, border, seen, again, stays, torn>>
    BY <1>1 DEF vars, dbVars, pageVars, walkVars
  <2> QED BY <2>1 DEF LInv, Types, Chosen, Phases, Behind, Covered, Top, Whole, ShownOnce,
                      Listed, After, HasMore, OffsetPages, Skip
<1> QED
  BY <1>1, StoreLInv, StartLInv, ReadLInv, AnswerLInv, NextPageLInv DEF Next

\* The inductive invariant, whatever happens to auctions between the pages.
THEOREM ListingInvariant == Spec => []LInv
BY InitLInv, NextLInv, PTL DEF Spec

\* listAuctions: only auctions that end when the first page's last row ends can be shown
\* twice.
THEOREM ShownOnceAlways == Spec => []ShownOnce
<1>1. LInv => ShownOnce
  BY DEF LInv
<1> QED BY <1>1, ListingInvariant, PTL

\* listAuctions: what stays listed during a walk is shown, but for those auctions, and
\* unless the first page and its count were torn apart.
THEOREM NothingIsMissedEver == Spec => []NothingIsMissed
<1>1. LInv => NothingIsMissed
  BY DEF LInv, Covered, Top, NothingIsMissed
<1> QED BY <1>1, ListingInvariant, PTL
=============================================================================
