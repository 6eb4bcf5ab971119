--------------------------- MODULE ListingsProofs ---------------------------
(***************************************************************************)
(* Theorems about Listings, for any number of rows, times and limits.      *)
(*                                                                         *)
(* Both say what a listing has returned when it is drained; the invariant  *)
(* has to say what it has returned at every cursor.                        *)
(***************************************************************************)
EXTENDS Listings, FiniteSetTheorems, TLAPS

\* A row that is there has a time.
Timed == \A n \in Ids : row[n] = NoRow \/ row[n].time \in Times

\* Rows that stand still match, orderly says what it means, and a cursor comes from a
\* page.
Standing ==
    /\ standing \subseteq MatchingIn(row)
    /\ orderly => Orderly(row)
    /\ cursor # 0 => listing

\* An orderly listing has returned the standing rows at the cursor or above it, once,
\* and none below.
Complete ==
    listing /\ orderly =>
        \A n \in standing : got[n] = IF cursor = 0 \/ Key(row, n) >= cursor THEN 1 ELSE 0

\* A listing of documents has returned no standing row twice, and none below the cursor.
Once ==
    kind = "documents" /\ listing =>
        \A n \in standing : /\ got[n] <= 1
                            /\ row[n].time < cursor => got[n] = 0

IInv == TypeOK /\ Timed /\ Standing /\ Complete /\ Once

Row == [time : Times \cup {0}, matches : BOOLEAN]

(***************************************************************************)
(* Rows and pages.                                                         *)
(***************************************************************************)

\* clampLimit and ListDocsForGrantee give a number whatever was asked for.
LEMMA LimitNat ==
    ASSUME NEW n \in Asked
    PROVE  clampLimit(n) \in Nat /\ docsLimit(n) \in Nat
BY LimitsAssumption DEF clampLimit, docsLimit

\* The time and the keys of a row.
LEMMA RowTypes ==
    ASSUME TypeOK, NEW n \in Ids
    PROVE  /\ n \in Nat \ {0} /\ row[n] \in Row
           /\ row[n].time \in Nat /\ row[n].matches \in BOOLEAN
           /\ Key(row, n) \in Nat
<1>1. n \in Nat \ {0} /\ row[n] \in Row
  BY LimitsAssumption DEF Ids, TypeOK, Row
<1>2. row[n].time \in Nat
  <2>1. row[n].time \in Times \cup {0}
    BY <1>1 DEF Row
  <2>2. ASSUME NEW t \in Times \cup {0} PROVE t \in Nat
    BY <2>2, TimesAssumption
  <2> QED
    BY <2>1, <2>2
<1>3. row[n].matches \in BOOLEAN
  BY <1>1 DEF Row
<1> QED
  BY <1>1, <1>2, <1>3 DEF Key

\* A row that matches has a key to be a cursor.
LEMMA MatchingKey ==
    ASSUME TypeOK, Timed, NEW n \in MatchingIn(row)
    PROVE  /\ n \in Ids
           /\ Key(row, n) \in Ids \cup Times
           /\ Key(row, n) \in Nat \ {0}
<1>1. n \in Ids /\ row[n].matches
  BY DEF MatchingIn
<1>2. row[n] # NoRow
  BY <1>1 DEF NoRow
<1>3. row[n].time \in Times
  BY <1>1, <1>2 DEF Timed
<1> QED
  BY <1>1, <1>3, RowTypes, TimesAssumption DEF Key

\* ORDER BY time DESC, id DESC is a total order.
LEMMA Ordered ==
    ASSUME TypeOK, NEW l \in Ids, NEW m \in Ids, NEW n \in Ids
    PROVE  /\ ~Before(row, n, n)
           /\ m = n \/ Before(row, m, n) \/ Before(row, n, m)
           /\ Before(row, l, m) /\ Before(row, m, n) => Before(row, l, n)
<1>1. /\ row[l].time \in Nat /\ row[m].time \in Nat /\ row[n].time \in Nat
      /\ l \in Nat /\ m \in Nat /\ n \in Nat
  BY RowTypes
<1> QED
  BY <1>1 DEF Before

\* A page is a first part of what it is taken from.
LEMMA PageUpward ==
    ASSUME TypeOK, NEW S \in SUBSET Ids, NEW limit \in Nat,
           NEW l \in Page(S, limit), NEW n \in S, Before(row, n, l)
    PROVE  n \in Page(S, limit)
<1> DEFINE Earlier(k) == {m \in S : Before(row, m, k)}
<1>1. l \in S /\ Cardinality(Earlier(l)) < limit
  BY DEF Page
<1>2. Earlier(n) \subseteq Earlier(l)
  BY <1>1, Ordered
<1>3. IsFiniteSet(Ids)
  BY FS_Interval, LimitsAssumption DEF Ids
<1>4. IsFiniteSet(Earlier(l))
  BY <1>3, FS_Subset
<1>5. /\ IsFiniteSet(Earlier(n))
      /\ Cardinality(Earlier(n)) <= Cardinality(Earlier(l))
  BY <1>2, <1>4, FS_Subset
<1>6. Cardinality(Earlier(n)) \in Nat /\ Cardinality(Earlier(l)) \in Nat
  BY <1>4, <1>5, FS_CardinalityType
<1>7. Cardinality(Earlier(n)) < limit
  BY <1>1, <1>5, <1>6
<1> QED
  BY <1>7 DEF Page

\* The last row of a page splits what the page was taken from.
LEMMA LastOfPage ==
    ASSUME TypeOK, NEW S \in SUBSET Ids, NEW limit \in Nat,
           NEW next \in NextCursor(S, Page(S, limit))
    PROVE  \E l \in Page(S, limit) :
              /\ l \in S /\ next = Key(row, l)
              /\ \A n \in S : n # l =>
                    IF n \in Page(S, limit) THEN Before(row, n, l) ELSE Before(row, l, n)
<1> DEFINE P == Page(S, limit)
<1>1. PICK l \in P : next = Key(row, l) /\ \A m \in P : ~Before(row, l, m)
  BY DEF NextCursor
<1>2. P \subseteq S
  BY DEF Page
<1>3. ASSUME NEW n \in S, n # l, n \in P PROVE Before(row, n, l)
  BY <1>1, <1>2, <1>3, Ordered
<1>4. ASSUME NEW n \in S, n # l, n \notin P PROVE Before(row, l, n)
  BY <1>1, <1>2, <1>4, Ordered, PageUpward
<1> QED
  BY <1>1, <1>2, <1>3, <1>4

(***************************************************************************)
(* One page.                                                               *)
(***************************************************************************)

\* Fetch, for a first page or a next one.
FetchOf(first, limit) ==
    LET c == IF first THEN 0 ELSE cursor
        S == Below(c)
        P == Page(S, limit)
    IN  /\ first <=> cursor = 0
        /\ got' = [n \in Ids |->
                     LET seen == IF first THEN 0 ELSE got[n]
                     IN  IF n \notin P THEN seen ELSE IF seen = 0 THEN 1 ELSE 2]
        /\ IF P = S THEN cursor' = 0 ELSE cursor' \in NextCursor(S, P)
        /\ standing' = IF first THEN MatchingIn(row) ELSE standing
        /\ orderly' = IF first THEN Orderly(row) ELSE orderly
        /\ listing' = TRUE
        /\ UNCHANGED tableVars

\* What is taken for a page matches and lies below the cursor it is taken from.
LEMMA BelowMatching ==
    ASSUME NEW c
    PROVE  /\ Below(c) \subseteq MatchingIn(row)
           /\ MatchingIn(row) \subseteq Ids
           /\ \A limit : Page(Below(c), limit) \subseteq Below(c)
BY DEF Below, MatchingIn, Page

\* Fetch keeps the types: the cursor is the key of a row.
LEMMA FetchTypes ==
    ASSUME IInv, NEW limit \in Nat, Fetch(limit)
    PROVE  TypeOK' /\ Timed' /\ Standing'
<1>0. TypeOK /\ Timed /\ Standing
  BY DEF IInv
<1> USE DEF FetchOf
<1>1. PICK first \in BOOLEAN : FetchOf(first, limit)
  BY DEF Fetch
<1> DEFINE c == IF first THEN 0 ELSE cursor
           S == Below(c)
           P == Page(S, limit)
<1>2. P \subseteq S /\ S \subseteq MatchingIn(row) /\ MatchingIn(row) \subseteq Ids
  BY BelowMatching
<1>3. kind' = kind /\ row' = row /\ listing' = TRUE
  BY <1>1 DEF tableVars
<1>4. cursor' \in Ids \cup Times \cup {0}
  <2>1. CASE cursor' = 0
    BY <2>1
  <2>2. CASE cursor' \in NextCursor(S, P)
    <3>1. PICK l \in P : cursor' = Key(row, l)
      BY <2>2 DEF NextCursor
    <3>2. l \in MatchingIn(row)
      BY <1>2, <3>1
    <3> QED
      BY <1>0, <3>1, <3>2, MatchingKey
  <2> QED
    BY <1>1, <2>1, <2>2
<1>5. got' \in [Ids -> 0..2]
  <2>1. got \in [Ids -> 0..2]
    BY <1>0 DEF TypeOK
  <2>2. got' = [n \in Ids |-> IF n \notin P THEN IF first THEN 0 ELSE got[n]
                              ELSE IF (IF first THEN 0 ELSE got[n]) = 0 THEN 1 ELSE 2]
    BY <1>1
  <2> HIDE DEF P
  <2> QED
    BY <2>1, <2>2
<1>6. standing' \subseteq MatchingIn(row) /\ standing' \subseteq Ids
  BY <1>0, <1>1, <1>2 DEF Standing
<1>7. orderly' \in BOOLEAN /\ (orderly' => Orderly(row))
  <2>1. Orderly(row) \in BOOLEAN
    BY DEF Orderly
  <2> QED
    BY <1>0, <1>1, <2>1 DEF TypeOK, Standing
<1>8. MatchingIn(row)' = MatchingIn(row) /\ (Orderly(row)' <=> Orderly(row))
  BY <1>3 DEF MatchingIn, Orderly, Before, Key
<1>9. TypeOK'
  BY <1>0, <1>3, <1>4, <1>5, <1>6, <1>7 DEF TypeOK
<1>10. Timed'
  BY <1>0, <1>3 DEF Timed
<1>11. Standing'
  BY <1>3, <1>6, <1>7, <1>8 DEF Standing
<1> QED
  BY <1>9, <1>10, <1>11

\* Fetch in an orderly listing: the page is what lies between the old cursor and the
\* new one.
LEMMA FetchComplete ==
    ASSUME IInv, NEW limit \in Nat, Fetch(limit)
    PROVE  Complete'
<1>0. TypeOK /\ Timed /\ Standing /\ Complete
  BY DEF IInv
<1> USE DEF FetchOf
<1>1. PICK first \in BOOLEAN : FetchOf(first, limit)
  BY DEF Fetch
<1> DEFINE c == IF first THEN 0 ELSE cursor
           S == Below(c)
           P == Page(S, limit)
<1>2. P \subseteq S /\ S \subseteq MatchingIn(row) /\ MatchingIn(row) \subseteq Ids
  BY BelowMatching
<1>3. kind' = kind /\ row' = row /\ \A n \in Ids : Key(row, n)' = Key(row, n)
  BY <1>1 DEF tableVars, Key
<1> SUFFICES ASSUME orderly', NEW n \in standing'
             PROVE  got'[n] = IF cursor' = 0 \/ Key(row, n) >= cursor' THEN 1 ELSE 0
  <2>1. standing' \subseteq Ids
    BY <1>0, <1>1, <1>2 DEF Standing
  <2> QED
    BY <1>3, <2>1 DEF Complete
<1>4. n \in MatchingIn(row) /\ n \in Ids /\ Orderly(row)
  BY <1>0, <1>1, <1>2 DEF Standing
<1>5. Key(row, n) \in Nat /\ cursor \in Nat
  <2>1. Ids \subseteq Nat /\ Times \subseteq Nat
    BY LimitsAssumption, TimesAssumption DEF Ids
  <2> QED
    BY <1>0, <1>4, <2>1, RowTypes DEF TypeOK
<1> DEFINE seen == IF first THEN 0 ELSE got[n]
<1>6. got'[n] = IF n \notin P THEN seen ELSE IF seen = 0 THEN 1 ELSE 2
  BY <1>1, <1>4
<1>7. n \in S <=> (c > 0 => Key(row, n) < c)
  BY <1>4 DEF Below
<1>8. seen = IF n \in S THEN 0 ELSE 1
  <2>1. CASE first
    BY <1>1, <1>7, <2>1
  <2>2. CASE ~first
    <3>1. cursor # 0 /\ n \in standing /\ orderly /\ c = cursor /\ cursor > 0
      BY <1>1, <1>5, <2>2
    <3>2. listing
      BY <1>0, <3>1 DEF Standing
    <3> QED
      BY <1>0, <1>5, <1>7, <2>2, <3>1, <3>2 DEF Complete
  <2> QED
    BY <2>1, <2>2
<1>9. CASE P = S
  <2>1. cursor' = 0 /\ got'[n] = 1
    BY <1>1, <1>6, <1>8, <1>9
  <2> QED
    BY <2>1
<1>10. CASE P # S
  <2>1. cursor' \in NextCursor(S, P)
    BY <1>1, <1>10
  <2>2. S \in SUBSET Ids
    BY <1>2
  <2>3. PICK l \in P :
          /\ l \in S /\ cursor' = Key(row, l)
          /\ \A m \in S : m # l => IF m \in P THEN Before(row, m, l) ELSE Before(row, l, m)
    BY <1>0, <2>1, <2>2, LastOfPage
  <2>4. l \in MatchingIn(row) /\ Key(row, l) \in Nat \ {0} /\ (c > 0 => Key(row, l) < c)
    BY <1>0, <1>2, <2>3, MatchingKey DEF Below
  <2>5. CASE n \notin S
    <3>1. c > 0 /\ Key(row, n) >= c /\ c \in Nat
      BY <1>5, <1>7, <2>5
    <3>2. got'[n] = 1 /\ Key(row, n) >= Key(row, l)
      BY <1>2, <1>5, <1>6, <1>8, <2>4, <2>5, <3>1
    <3> QED
      BY <2>3, <3>2
  <2>6. CASE n \in P
    <3>1. n = l \/ Key(row, l) < Key(row, n)
      BY <1>2, <1>4, <2>3, <2>4, <2>6 DEF Orderly
    <3> QED
      BY <1>2, <1>5, <1>6, <1>8, <2>3, <2>4, <2>6, <3>1
  <2>7. CASE n \in S \ P
    <3>1. Key(row, n) < Key(row, l)
      BY <1>4, <2>3, <2>4, <2>7 DEF Orderly
    <3> QED
      BY <1>5, <1>6, <1>8, <2>3, <2>4, <2>7, <3>1
  <2> QED
    BY <2>5, <2>6, <2>7
<1> QED
  BY <1>9, <1>10

\* A cursor is smaller than the one it was fetched with.
LEMMA FetchFalls ==
    ASSUME IInv, NEW limit \in Nat, Fetch(limit), cursor > 0
    PROVE  cursor' < cursor
<1> USE DEF FetchOf
<1>0. TypeOK /\ Timed
  BY DEF IInv
<1>1. PICK first \in BOOLEAN : FetchOf(first, limit)
  BY DEF Fetch
<1> DEFINE S == Below(cursor)
           P == Page(S, limit)
<1>2. cursor \in Nat
  <2>1. Ids \subseteq Nat /\ Times \subseteq Nat
    BY LimitsAssumption, TimesAssumption DEF Ids
  <2> QED
    BY <1>0, <2>1 DEF TypeOK
<1>3. ~first
  BY <1>1, <1>2
<1>4. CASE cursor' = 0
  BY <1>2, <1>4
<1>5. CASE cursor' \in NextCursor(S, P)
  <2>1. PICK l \in P : cursor' = Key(row, l)
    BY <1>5 DEF NextCursor
  <2> QED
    BY <2>1 DEF Page, Below
<1> QED
  BY <1>1, <1>3, <1>4, <1>5

\* Fetch in a listing of documents: whatever ties there are, no row of the page is
\* below the new cursor, and none has been returned before.
LEMMA FetchOnce ==
    ASSUME IInv, NEW limit \in Nat, Fetch(limit)
    PROVE  Once'
<1> USE DEF FetchOf
<1>0. TypeOK /\ Timed /\ Standing /\ Once
  BY DEF IInv
<1>1. PICK first \in BOOLEAN : FetchOf(first, limit)
  BY DEF Fetch
<1> DEFINE c == IF first THEN 0 ELSE cursor
           S == Below(c)
           P == Page(S, limit)
<1>2. P \subseteq S /\ S \subseteq MatchingIn(row) /\ MatchingIn(row) \subseteq Ids
  BY BelowMatching
<1>3. kind' = kind /\ row' = row
  BY <1>1 DEF tableVars
<1> SUFFICES ASSUME kind = "documents", NEW n \in standing'
             PROVE  got'[n] <= 1 /\ (row[n].time < cursor' => got'[n] = 0)
  BY <1>3 DEF Once
<1>4. n \in MatchingIn(row) /\ n \in Ids
  BY <1>0, <1>1, <1>2 DEF Standing
<1>5. row[n].time \in Nat /\ cursor \in Nat /\ Key(row, n) = row[n].time /\ got[n] \in 0..2
  <2>1. Ids \subseteq Nat /\ Times \subseteq Nat
    BY LimitsAssumption, TimesAssumption DEF Ids
  <2> QED
    BY <1>0, <1>4, <2>1, RowTypes DEF TypeOK, Key
<1> DEFINE seen == IF first THEN 0 ELSE got[n]
<1>6. got'[n] = IF n \notin P THEN seen ELSE IF seen = 0 THEN 1 ELSE 2
  BY <1>1, <1>4
<1>7. n \in S <=> (c > 0 => row[n].time < c)
  BY <1>4, <1>5 DEF Below
<1>8. /\ seen \in Nat /\ seen <= 1
      /\ n \in S => seen = 0
  <2>1. CASE first
    BY <2>1
  <2>2. CASE ~first
    <3>1. cursor # 0 /\ cursor > 0 /\ c = cursor /\ n \in standing /\ listing
      BY <1>0, <1>1, <1>5, <2>2 DEF Standing
    <3> QED
      BY <1>0, <1>5, <1>7, <2>2, <3>1 DEF Once
  <2> QED
    BY <2>1, <2>2
<1>9. got'[n] <= 1
  BY <1>2, <1>6, <1>8
<1>10. ASSUME row[n].time < cursor' PROVE got'[n] = 0
  <2>1. CASE P = S
    BY <1>1, <1>5, <1>10, <2>1
  <2>2. CASE P # S
    <3>1. cursor' \in NextCursor(S, P)
      BY <1>1, <2>2
    <3>2. S \in SUBSET Ids
      BY <1>2
    <3>3. PICK l \in P :
            /\ l \in S /\ cursor' = Key(row, l)
            /\ \A m \in S : m # l => IF m \in P THEN Before(row, m, l) ELSE Before(row, l, m)
      BY <1>0, <3>1, <3>2, LastOfPage
    <3>4. l \in Ids /\ row[l].time \in Nat /\ cursor' = row[l].time /\ (c > 0 => row[l].time < c)
      BY <1>0, <1>2, <3>3, RowTypes DEF Key, Below
    <3>5. n \in S
      <4>1. c \in Nat
        BY <1>5
      <4> QED
        BY <1>5, <1>7, <1>10, <3>4, <4>1
    <3>6. n \notin P
      BY <1>5, <1>10, <3>3, <3>4, <3>5 DEF Before
    <3> QED
      BY <1>6, <1>8, <3>5, <3>6
  <2> QED
    BY <2>1, <2>2
<1> QED
  BY <1>9, <1>10

\* Every tool's page keeps the invariant.
LEMMA ListPageIInv ==
    ASSUME IInv, ListPage
    PROVE  /\ IInv'
           /\ cursor > 0 => cursor' < cursor
<1>1. PICK limit \in Nat : Fetch(limit)
  BY LimitNat
  DEF ListPage, listEmailsForGrantee, searchEmails, listThreadsForGrantee,
      listDocumentsForGrantee, ListMessagesByGrantee, SearchMessages, ListThreadsByGrantee,
      ListDocsForGrantee
<1> QED
  BY <1>1, FetchTypes, FetchComplete, FetchOnce, FetchFalls DEF IInv

(***************************************************************************)
(* What is written meanwhile.                                              *)
(***************************************************************************)

\* A write to the table: the rows that still stand are where they were.
LEMMA WriteIInv ==
    ASSUME IInv, NEW r \in [Ids -> Row], Write(r),
           \A n \in Ids : r[n] = NoRow \/ r[n].time \in Times
    PROVE  IInv'
<1>0. TypeOK /\ Timed /\ Standing /\ Complete /\ Once
  BY DEF IInv
<1>1. /\ row' = r /\ kind' = kind /\ cursor' = cursor /\ listing' = listing /\ got' = got
      /\ standing' = {n \in standing : r[n] = row[n]}
      /\ orderly' = (orderly /\ Orderly(r))
  BY DEF Write, clientVars
<1>2. orderly' \in BOOLEAN
  <2>1. Orderly(r) \in BOOLEAN
    BY DEF Orderly
  <2> QED
    BY <1>0, <1>1, <2>1 DEF TypeOK
<1>3. standing' \subseteq standing /\ standing \subseteq Ids
  BY <1>0, <1>1 DEF TypeOK
<1>4. TypeOK'
  BY <1>0, <1>1, <1>2, <1>3 DEF TypeOK, Row
<1>5. Timed'
  BY <1>1 DEF Timed
<1>6. \A n \in standing' : r[n] = row[n] /\ Key(row, n)' = Key(row, n)
  BY <1>1 DEF Key
<1>7. Standing'
  <2>1. standing' \subseteq MatchingIn(row)'
    BY <1>0, <1>1, <1>3, <1>6 DEF Standing, MatchingIn
  <2>2. orderly' => Orderly(row)'
    BY <1>1 DEF Orderly, MatchingIn, Before, Key
  <2> QED
    BY <1>0, <1>1, <2>1, <2>2 DEF Standing
<1>8. Complete'
  <2> SUFFICES ASSUME listing, orderly', NEW n \in standing'
               PROVE  got[n] = IF cursor = 0 \/ Key(row, n)' >= cursor THEN 1 ELSE 0
    BY <1>1 DEF Complete
  <2> QED
    BY <1>0, <1>1, <1>3, <1>6 DEF Complete
<1>9. Once'
  BY <1>0, <1>1, <1>3, <1>6 DEF Once
<1> QED
  BY <1>4, <1>5, <1>7, <1>8, <1>9 DEF IInv

\* A row of the table.
LEMMA RowMade ==
    ASSUME NEW time \in Times, NEW matches \in BOOLEAN
    PROVE  /\ [time |-> time, matches |-> matches] \in Row
           /\ [time |-> time, matches |-> matches].time \in Times
BY DEF Row

\* InsertMessage, CreateThread, UpsertDoc and TouchThread: one row.
LEMMA OneRowIInv ==
    ASSUME IInv, NEW n \in Ids, NEW new \in Row, new.time \in Times,
           Write([row EXCEPT ![n] = new])
    PROVE  IInv'
<1> DEFINE r == [row EXCEPT ![n] = new]
<1>1. row \in [Ids -> Row] /\ Timed
  BY DEF IInv, TypeOK, Row
<1>2. r \in [Ids -> Row]
  BY <1>1
<1>3. \A m \in Ids : r[m] = NoRow \/ r[m].time \in Times
  BY <1>1 DEF Timed
<1> HIDE DEF r
<1>4. Write(r)
  BY DEF r
<1> QED
  BY <1>2, <1>3, <1>4, WriteIInv

\* Insert
LEMMA InsertIInv ==
    ASSUME IInv, NEW time \in Times, NEW matches \in BOOLEAN, Insert(time, matches)
    PROVE  IInv'
<1> DEFINE new == [time |-> time, matches |-> matches]
<1>1. new \in Row /\ new.time \in Times
  BY RowMade
<1>2. PICK n \in Ids : Write([row EXCEPT ![n] = new])
  BY DEF Insert
<1> HIDE DEF new
<1> QED
  BY <1>1, <1>2, OneRowIInv

\* SetThreadGrantee and AddGranteeEmail tag rows that are there.
LEMMA TagIInv ==
    ASSUME IInv, NEW S \in SUBSET Ids, Tag(S)
    PROVE  IInv'
<1> DEFINE tagged(n) == [time |-> row[n].time, matches |-> TRUE]
           r == [n \in Ids |-> IF n \in S /\ Present(n) THEN tagged(n) ELSE row[n]]
<1>1. row \in [Ids -> Row] /\ Timed
  BY DEF IInv, TypeOK, Row
<1>2. ASSUME NEW n \in Ids, Present(n)
      PROVE  tagged(n) \in Row /\ tagged(n).time \in Times
  <2>1. row[n].time \in Times
    BY <1>1, <1>2 DEF Timed, Present
  <2> QED
    BY <2>1, RowMade
<1> HIDE DEF tagged
<1>3. r \in [Ids -> Row]
  BY <1>1, <1>2
<1>4. \A n \in Ids : r[n] = NoRow \/ r[n].time \in Times
  BY <1>1, <1>2 DEF Timed
<1>5. Write(r)
  BY DEF Tag, tagged
<1> HIDE DEF r
<1> QED
  BY <1>3, <1>4, <1>5, WriteIInv

\* TouchThread
LEMMA TouchIInv ==
    ASSUME IInv, NEW n \in Ids, NEW time \in Times, TouchThread(n, time)
    PROVE  IInv'
<1> DEFINE new == [time |-> time, matches |-> row[n].matches]
<1>1. row[n].matches \in BOOLEAN
  BY RowTypes DEF IInv
<1>2. new \in Row /\ new.time \in Times
  BY <1>1, RowMade
<1>3. Write([row EXCEPT ![n] = new])
  BY DEF TouchThread
<1> HIDE DEF new
<1> QED
  BY <1>2, <1>3, OneRowIInv

\* UpsertDoc
LEMMA UpsertIInv ==
    ASSUME IInv, NEW n \in Ids, NEW time \in Times, NEW matches \in BOOLEAN,
           UpsertDoc(n, time, matches)
    PROVE  IInv'
<1> DEFINE new == [time |-> time, matches |-> matches]
<1>1. new \in Row /\ new.time \in Times
  BY RowMade
<1>2. Write([row EXCEPT ![n] = new])
  BY DEF UpsertDoc
<1> HIDE DEF new
<1> QED
  BY <1>1, <1>2, OneRowIInv

(***************************************************************************)
(* The theorems.                                                           *)
(***************************************************************************)

\* The invariant holds at the start.
LEMMA InitIInv == Init => IInv
<1> SUFFICES ASSUME Init PROVE IInv
  OBVIOUS
<1>1. \A n \in Ids : row[n] = NoRow
  BY DEF Init
<1>2. NoRow \in Row /\ NoRow.matches = FALSE
  BY DEF NoRow, Row
<1>3. MatchingIn(row) = {}
  BY <1>1, <1>2 DEF MatchingIn
<1>4. row \in [Ids -> Row]
  BY <1>2 DEF Init
<1>5. TypeOK
  <2>1. listing \in BOOLEAN /\ orderly \in BOOLEAN
    BY DEF Init
  <2>2. row \in [Ids -> [time : Times \cup {0}, matches : BOOLEAN]]
    BY <1>4 DEF Row
  <2>3. kind \in Kinds /\ cursor \in Ids \cup Times \cup {0} /\ standing \subseteq Ids
    BY DEF Init
  <2>4. got \in [Ids -> 0..2]
    BY DEF Init, NoneGot
  <2> QED
    BY <2>1, <2>2, <2>3, <2>4 DEF TypeOK
<1>6. Orderly(row)
  BY <1>3 DEF Orderly
<1> QED
  BY <1>1, <1>5, <1>6 DEF Init, IInv, Timed, Standing, Complete, Once

\* The invariant is inductive.
LEMMA NextIInv == IInv /\ [Next]_vars => IInv'
<1> SUFFICES ASSUME IInv, [Next]_vars PROVE IInv'
  OBVIOUS
<1>1. CASE ListPage
  BY <1>1, ListPageIInv
<1>2. CASE \E time \in Times, matches \in BOOLEAN : InsertMessage(time, matches)
  BY <1>2, InsertIInv DEF InsertMessage
<1>3. CASE \E time \in Times : CreateThread(time)
  BY <1>3, InsertIInv DEF CreateThread
<1>4. CASE \E S \in SUBSET Ids : Tag(S)
  BY <1>4, TagIInv
<1>5. CASE \E n \in Ids, time \in Times : TouchThread(n, time)
  BY <1>5, TouchIInv
<1>6. CASE \E n \in Ids, time \in Times, matches \in BOOLEAN : UpsertDoc(n, time, matches)
  BY <1>6, UpsertIInv
<1>7. CASE UNCHANGED vars
  BY <1>7 DEF IInv, TypeOK, Timed, Standing, Complete, Once, MatchingIn, Orderly, Before, Key,
              vars, tableVars, clientVars
<1> QED
  BY <1>1, <1>2, <1>3, <1>4, <1>5, <1>6, <1>7 DEF Next

\* The invariant.
LEMMA Invariant == Spec => []IInv
<1> QED
  BY InitIInv, NextIInv, PTL DEF Spec

\* Every state a client and the writers can reach has its types; the cursor is the key
\* of a row, or none.
THEOREM TypeCorrect == Spec => []TypeOK
<1>1. IInv => TypeOK
  BY DEF IInv
<1> QED
  BY <1>1, Invariant, PTL

\* A listing is as good as its cursor, for the four listings, with any limits from page
\* to page and any writes between them: while the key falls with the order of the
\* rows, a drained listing has returned each row that stood, once.
THEOREM OrderlyListingsComplete == Spec => []OrderlyListingComplete
<1>1. IInv => OrderlyListingComplete
  BY DEF IInv, Complete, OrderlyListingComplete
<1> QED
  BY <1>1, Invariant, PTL

\* list_documents_for_grantee returns no document twice that has not changed, in any
\* order of times: the cursor passes over ties, never back.
THEOREM NoDocumentTwice == Spec => []DocumentsListedOnce
<1>1. IInv => DocumentsListedOnce
  BY DEF IInv, Once, DocumentsListedOnce
<1> QED
  BY <1>1, Invariant, PTL

\* Each next page has a smaller cursor, whatever was written since the last: a client
\* that follows the cursors cannot be kept going.
THEOREM CursorsFall == Spec => [][ListPage /\ cursor > 0 => cursor' < cursor]_vars
<1>1. IInv /\ [Next]_vars => [ListPage /\ cursor > 0 => cursor' < cursor]_vars
  BY ListPageIInv
<1> QED
  BY <1>1, Invariant, PTL DEF Spec
=============================================================================
