----------------------------- MODULE NotesProofs -----------------------------
(***************************************************************************)
(* Proofs about Notes, for any number of calls, listings and ids.          *)
(***************************************************************************)
EXTENDS Notes, FiniteSetTheorems, TLAPS

(***************************************************************************)
(* The inductive invariant.                                                *)
(***************************************************************************)
\* A call that has passed GetNote may supersede the note it names.
MaySupersede(x) ==
    x.supersedes # 0 => /\ Written(x.supersedes)
                        /\ notes[x.supersedes].grantee = x.grantee

\* What a written note supersedes is older and of the same grantee.
Chain ==
    \A n \in Ids : Written(n) =>
        /\ MaySupersede(notes[n])
        /\ notes[n].supersedes < n

\* Ids are drawn once, and before they are visible.
Drawn ==
    /\ \A n \in Ids : Written(n) => n < nextId
    /\ \A w \in Writers : pc[w] = "commit" => id[w] < nextId /\ ~Written(id[w])
    /\ \A v, w \in Writers : pc[v] = "commit" /\ pc[w] = "commit" /\ v # w => id[v] # id[w]

Checked ==
    \A w \in Writers :
        /\ pc[w] \in {"insert", "commit"} => MaySupersede(want[w])
        /\ pc[w] = "commit" => want[w].supersedes < id[w]

\* What a listing has returned: nothing below the cursor, and what stands above it once.
Listed(l) ==
    /\ cursor[l] > 0 => query[l] \in Query
    /\ \A n \in start[l] : Written(n)
    /\ \A n \in Ids :
          /\ got[l][n] <= 1
          /\ cursor[l] > 0 /\ n < cursor[l] => got[l][n] = 0
          /\ n >= cursor[l] /\ n \in start[l] /\ n \in Matching(query[l]) => got[l][n] = 1

IInv ==
    /\ TypeOK
    /\ Chain
    /\ Drawn
    /\ Checked
    /\ \A l \in Listings : Listed(l)

(***************************************************************************)
(* Pages.                                                                  *)
(***************************************************************************)
\* clampLimit never asks for nothing (queries.go, clampLimit).
LEMMA LimitPositive ==
    ASSUME NEW n \in Nat
    PROVE  clampLimit(n) \in Nat \ {0}
BY LimitAssumption DEF clampLimit

\* A page is an upper part of what it is taken from (ListNotes, ORDER BY id DESC LIMIT).
LEMMA PageUpward ==
    ASSUME NEW S \in SUBSET Ids, NEW limit \in Nat,
           NEW n \in S, NEW p \in Page(S, limit), n >= p
    PROVE  n \in Page(S, limit)
<1> DEFINE Above(k) == {m \in S : m > k}
<1>1. p \in S /\ Cardinality(Above(p)) < limit
  BY DEF Page
<1>2. S \subseteq Nat /\ IsFiniteSet(Ids)
  BY MaxNotesAssumption, FS_Interval DEF Ids
<1>3. IsFiniteSet(Above(p))
  BY <1>2, FS_Subset
<1>4. Above(n) \subseteq Above(p)
  <2> SUFFICES ASSUME NEW m \in S, m > n
               PROVE  m > p
    OBVIOUS
  <2> n \in Nat /\ m \in Nat /\ p \in Nat
    BY <1>1, <1>2
  <2> QED
    OBVIOUS
<1>5. /\ Cardinality(Above(n)) \in Nat /\ Cardinality(Above(p)) \in Nat
      /\ Cardinality(Above(n)) <= Cardinality(Above(p))
  BY <1>3, <1>4, FS_Subset, FS_CardinalityType
<1>6. Cardinality(Above(n)) < limit
  BY <1>1, <1>5
<1> QED
  BY <1>6 DEF Page

\* A page is part of what the filter leaves below the cursor.
LEMMA PageBelow ==
    ASSUME NEW q, NEW c \in Nat, NEW limit \in Nat
    PROVE  /\ Page(Below(Matching(q), c), limit) \subseteq Below(Matching(q), c)
           /\ Below(Matching(q), c) \subseteq Ids
BY DEF Page, Below, Matching

(***************************************************************************)
(* Preservation, one lemma per action.                                     *)
(***************************************************************************)
\* Before any call nothing is written, drawn or listed.
LEMMA InitIInv == Init => IInv
<1> SUFFICES ASSUME Init PROVE IInv
  OBVIOUS
<1> USE MaxNotesAssumption, NoneAssumption
<1>1. TypeOK
  BY DEF Init, TypeOK, Ids, NoNote, NoQuery
<1>2. \A n \in Ids : ~Written(n)
  BY DEF Init, Written, NoNote
<1>3. Chain /\ Drawn /\ Checked
  BY <1>2 DEF Init, Chain, Drawn, Checked
<1>4. \A l \in Listings : Listed(l)
  BY DEF Init, Listed
<1> QED
  BY <1>1, <1>3, <1>4 DEF IInv

\* A step that writes no note and leaves the listings alone.
LEMMA ListingsFramed ==
    ASSUME IInv, UNCHANGED <<notes, listVars>>
    PROVE  /\ \A l \in Listings : Listed(l)'
           /\ Chain'
BY DEF IInv, Chain, MaySupersede, Listed, Matching, Superseded, Written, listVars

\* A step that leaves the table and the calls alone.
LEMMA CallsFramed ==
    ASSUME IInv, UNCHANGED <<notes, nextId, writeVars>>
    PROVE  Chain' /\ Drawn' /\ Checked'
BY DEF IInv, Chain, Drawn, Checked, MaySupersede, Written, writeVars

\* UpsertGrantee.
LEMMA UpsertGranteeIInv ==
    ASSUME IInv, NEW g \in Grantees, UpsertGrantee(g)
    PROVE  IInv'
<1>1. TypeOK'
  BY DEF IInv, TypeOK, UpsertGrantee, writeVars, listVars, Written
<1> QED
  BY <1>1, ListingsFramed, CallsFramed DEF IInv, UpsertGrantee

\* createNote: a call that names no note goes straight to its INSERT.
LEMMA createNoteIInv ==
    ASSUME IInv, NEW w \in Writers, createNote(w)
    PROVE  IInv'
<1> USE DEF IInv, createNote, Goto
<1>1. TypeOK'
  BY DEF TypeOK, Note, listVars
<1>2. Drawn'
  BY DEF TypeOK, Drawn, Written
<1>3. Checked'
  BY DEF TypeOK, Checked, MaySupersede, Written
<1> QED
  BY <1>1, <1>2, <1>3, ListingsFramed

\* Whatever ends a call without writing leaves the invariant.
LEMMA EndIInv ==
    ASSUME IInv, NEW w \in Writers, End(w), UNCHANGED <<grantees, notes, nextId, listVars>>
    PROVE  IInv'
<1> USE DEF IInv, End, Goto
<1>1. TypeOK'
  BY DEF TypeOK, listVars
<1>2. Drawn'
  BY DEF TypeOK, Drawn, Written
<1>3. Checked'
  BY DEF TypeOK, Checked, MaySupersede, Written
<1> QED
  BY <1>1, <1>2, <1>3, ListingsFramed

\* CallFails.
LEMMA CallFailsIInv ==
    ASSUME IInv, NEW w \in Writers, CallFails(w)
    PROVE  IInv'
BY EndIInv DEF CallFails

\* GetNote: only a note of the same grantee lets the call go on.
LEMMA GetNoteIInv ==
    ASSUME IInv, NEW w \in Writers, GetNote(w)
    PROVE  IInv'
<1> DEFINE s == want[w].supersedes
<1>1. CASE ~(Written(s) /\ notes[s].grantee = want[w].grantee)
  BY <1>1, EndIInv DEF GetNote
<1>2. CASE Written(s) /\ notes[s].grantee = want[w].grantee
  <2> USE DEF IInv, GetNote, Goto
  <2>1. TypeOK'
    BY <1>2 DEF TypeOK, listVars
  <2>2. Drawn'
    BY <1>2 DEF TypeOK, Drawn, Written
  <2>3. Checked'
    BY <1>2 DEF TypeOK, Checked, MaySupersede, Written
  <2> QED
    BY <1>2, <2>1, <2>2, <2>3, ListingsFramed
<1> QED
  BY <1>1, <1>2

\* DrawId: the id drawn is newer than every note there is, so than the one superseded.
LEMMA DrawIdIInv ==
    ASSUME IInv, NEW w \in Writers, DrawId(w)
    PROVE  IInv'
<1> USE MaxNotesAssumption DEF IInv, DrawId, Goto
<1>1. nextId \in Ids /\ nextId' = nextId + 1
  BY DEF TypeOK, Ids
<1>2. TypeOK'
  BY <1>1 DEF TypeOK, listVars, Ids
<1>3. ~Written(nextId)
  BY <1>1 DEF Drawn, Ids
<1>4. Drawn'
  BY <1>1, <1>3 DEF TypeOK, Drawn, Written, Ids
<1>5. want[w] \in Note /\ MaySupersede(want[w])
  BY DEF TypeOK, Checked
<1>6. want[w].supersedes < nextId
  BY <1>1, <1>5 DEF Note, MaySupersede, Drawn, Ids
<1>7. Checked'
  BY <1>1, <1>5, <1>6 DEF TypeOK, Checked, MaySupersede, Written, Ids
<1> QED
  BY <1>2, <1>4, <1>7, ListingsFramed

\* CreateNote: the row becomes visible; it hides what it supersedes and nothing else,
\* and no listing has met it: it did not match at any first page.
LEMMA CreateNoteIInv ==
    ASSUME IInv, NEW w \in Writers, CreateNote(w)
    PROVE  IInv'
<1>0. id[w] \in Ids
  BY DEF IInv, CreateNote, TypeOK
<1> PICK i \in Ids : i = id[w]
  BY <1>0
<1>1. /\ i \in Ids /\ ~Written(i) /\ i < nextId
      /\ want[w] \in Note /\ want[w].supersedes < i /\ MaySupersede(want[w])
      /\ notes' = [notes EXCEPT ![i] = want[w]]
      /\ pc' = [pc EXCEPT ![w] = "idle"]
  BY DEF IInv, CreateNote, TypeOK, Drawn, Checked, End, Goto
<1>2. TypeOK'
  BY <1>1 DEF IInv, CreateNote, End, Goto, TypeOK, listVars
<1>3. \A n \in Ids \ {i} : notes'[n] = notes[n]
  BY <1>1 DEF IInv, TypeOK
<1>4. notes'[i] = want[w] /\ Written(i)'
  <2>1. notes'[i] = want[w]
    BY <1>1 DEF IInv, TypeOK
  <2>2. want[w].grantee # None
    BY <1>1, NoneAssumption DEF Note
  <2> QED
    BY <2>1, <2>2 DEF Written
<1>5. \A n \in Ids : Written(n) => Written(n)' /\ notes'[n] = notes[n] /\ n # i
  BY <1>1, <1>3 DEF Written
<1>6. \A x \in Note : MaySupersede(x) => MaySupersede(x)'
  <2> SUFFICES ASSUME NEW x \in Note, MaySupersede(x), x.supersedes # 0
               PROVE  /\ Written(x.supersedes)'
                      /\ notes'[x.supersedes].grantee = x.grantee
    BY DEF MaySupersede
  <2> x.supersedes \in Ids
    BY DEF Note
  <2> QED
    BY <1>5 DEF MaySupersede
<1>7. Chain'
  <2> SUFFICES ASSUME NEW n \in Ids, Written(n)'
               PROVE  MaySupersede(notes[n])' /\ notes'[n].supersedes < n
    BY DEF Chain
  <2>1. CASE n = i
    BY <2>1, <1>1, <1>4, <1>6 DEF MaySupersede, Written
  <2>2. CASE n # i
    <3>1. Written(n) /\ notes'[n] = notes[n]
      BY <2>2, <1>3 DEF Written
    <3>2. notes[n] \in Note
      BY <3>1, NoneAssumption DEF IInv, TypeOK, Written, NoNote
    <3>3. MaySupersede(notes[n]) /\ notes[n].supersedes < n
      BY <3>1 DEF IInv, Chain
    <3> QED
      BY <3>1, <3>2, <3>3, <1>6 DEF MaySupersede, Written
  <2> QED
    BY <2>1, <2>2
<1>8. Drawn'
  <2>1. \A n \in Ids : Written(n)' => n < nextId'
    BY <1>1, <1>3 DEF IInv, Drawn, Written, CreateNote
  <2>2. \A v \in Writers : pc'[v] = "commit" =>
            v # w /\ pc[v] = "commit" /\ id'[v] = id[v] /\ id[v] \in Ids /\ id[v] # i
    BY <1>1 DEF IInv, TypeOK, Drawn, CreateNote, End, Goto
  <2>3. \A v \in Writers : pc'[v] = "commit" => id'[v] < nextId' /\ ~Written(id[v])'
    BY <2>2, <1>3 DEF IInv, Drawn, Written, CreateNote
  <2> QED
    BY <2>1, <2>2, <2>3 DEF IInv, Drawn
<1>9. Checked'
  <2> SUFFICES ASSUME NEW v \in Writers, pc'[v] \in {"insert", "commit"}
               PROVE  /\ MaySupersede(want[v])'
                      /\ pc'[v] = "commit" => want'[v].supersedes < id'[v]
    BY DEF Checked
  <2>1. pc[v] = pc'[v] /\ want'[v] = want[v] /\ id'[v] = id[v] /\ want[v] \in Note
    BY DEF IInv, TypeOK, CreateNote, End, Goto
  <2>2. MaySupersede(want[v])
    BY <2>1 DEF IInv, Checked
  <2> QED
    BY <2>1, <2>2, <1>6 DEF IInv, Checked, MaySupersede, Written
<1>10. ASSUME NEW l \in Listings PROVE Listed(l)'
  <2>1. /\ start' = start /\ got' = got /\ cursor' = cursor /\ query' = query
        /\ Listed(l)
    BY DEF IInv, CreateNote, listVars
  <2>2. \A n \in Ids : Written(n) /\ n \in Matching(query[l])' => n \in Matching(query[l])
    <3>1. \A n \in Ids : Superseded(n) => Superseded(n)'
      BY <1>5 DEF Superseded
    <3> QED
      BY <2>1, <3>1, <1>5 DEF Matching
  <2>3. \A n \in start[l] : Written(n) /\ Written(n)' /\ n \in Ids
    BY <2>1, <1>5 DEF IInv, TypeOK, Listed
  <2> QED
    BY <2>1, <2>2, <2>3 DEF Listed
<1> QED
  BY <1>2, <1>7, <1>8, <1>9, <1>10 DEF IInv

\* ListNotes: a page is marked once, and the next begins just below it.
LEMMA ListNotesListed ==
    ASSUME IInv, NEW l \in Listings, NEW q \in Query, NEW c \in {0} \cup Ids,
           ListNotes(l, q, c), UNCHANGED <<notes>>, query'[l] = q,
           \A n \in start'[l] : Written(n) /\ n \in Ids,
           \A n \in Ids : c > 0 =>
              /\ got[l][n] <= 1
              /\ n < c => got[l][n] = 0
              /\ n >= c /\ n \in start'[l] /\ n \in Matching(q) => got[l][n] = 1
    PROVE  /\ Listed(l)'
           /\ got' \in [Listings -> [Ids -> 0 .. 2]]
           /\ cursor' \in [Listings -> {0} \cup Ids]
<1> DEFINE limit == clampLimit(q.limit)
           S == Below(Matching(q), c)
           P == Page(S, limit)
           old == IF c > 0 THEN got[l] ELSE NoneGot
<1>1. limit \in Nat
  BY LimitPositive, LimitAssumption DEF Query
<1>2. c \in Nat /\ P \subseteq S /\ S \subseteq Ids /\ S \subseteq Matching(q)
  <2>1. c \in Nat
    BY DEF Ids
  <2>2. P \subseteq S /\ S \subseteq Ids
    BY <1>1, <2>1, PageBelow
  <2>3. S \subseteq Matching(q)
    BY DEF Below
  <2> QED
    BY <2>1, <2>2, <2>3
<1>3. Ids \subseteq Nat \ {0}
  BY DEF Ids
<1>4. old \in [Ids -> 0 .. 2] /\ \A n \in Ids :
          /\ old[n] <= 1
          /\ c > 0 /\ n < c => old[n] = 0
          /\ c = 0 => old[n] = 0
          /\ c > 0 /\ n >= c /\ n \in start'[l] /\ n \in Matching(q) => old[n] = 1
  BY <1>2 DEF IInv, TypeOK, NoneGot
<1>5. got'[l] = Returned(old, P)
  BY DEF ListNotes, IInv, TypeOK
<1>6. \A n \in P : (c > 0 => n < c) /\ old[n] = 0
  BY <1>2, <1>3, <1>4 DEF Below
<1>7. \A n \in Ids : got'[l][n] = IF n \in P THEN 1 ELSE old[n]
  BY <1>5, <1>6 DEF Returned
<1>8. got' \in [Listings -> [Ids -> 0 .. 2]]
  BY <1>4, <1>5 DEF ListNotes, Returned, IInv, TypeOK
<1>9. /\ cursor' \in [Listings -> {0} \cup Ids]
      /\ \/ P = S /\ cursor'[l] = 0
         \/ /\ cursor'[l] \in P
            /\ \A m \in P : cursor'[l] <= m
  <2>1. CASE P = S
    BY <2>1 DEF ListNotes, IInv, TypeOK
  <2>2. CASE P # S
    <3>1. PICK n \in P : /\ \A m \in P : n <= m
                         /\ cursor' = [cursor EXCEPT ![l] = n]
      BY <2>2 DEF ListNotes
    <3>2. n \in Ids
      BY <1>2
    <3> HIDE DEF P
    <3>3. cursor'[l] = n /\ cursor' \in [Listings -> {0} \cup Ids]
      BY <3>1, <3>2 DEF IInv, TypeOK
    <3> QED
      BY <3>1, <3>3
  <2> QED
    BY <2>1, <2>2
<1>10. \A n \in S : n >= cursor'[l] => n \in P
  BY <1>1, <1>2, <1>9, PageUpward
<1>11. Matching(q)' = Matching(q) /\ \A n : Written(n)' <=> Written(n)
  BY DEF Matching, Superseded, Written
<1>12. \A n \in Matching(q) \ S : c > 0 /\ ~(n < c)
  BY DEF Below
<1> HIDE DEF limit, S, P, old
<1>13. ASSUME NEW n \in Ids
       PROVE  /\ got'[l][n] <= 1
              /\ cursor'[l] > 0 /\ n < cursor'[l] => got'[l][n] = 0
              /\ n >= cursor'[l] /\ n \in start'[l] /\ n \in Matching(q) => got'[l][n] = 1
  <2>1. got'[l][n] <= 1
    BY <1>4, <1>7
  <2>2. cursor'[l] > 0 /\ n < cursor'[l] => got'[l][n] = 0
    <3> SUFFICES ASSUME cursor'[l] > 0, n < cursor'[l] PROVE n \notin P /\ old[n] = 0
      BY <1>7
    <3>1. PICK k \in P : k = cursor'[l] /\ \A m \in P : k <= m
      BY <1>9
    <3>2. k \in Nat /\ n \in Nat /\ c \in Nat /\ n < k
      BY <3>1, <1>2, <1>3
    <3>3. n \notin P
      BY <3>1, <3>2
    <3>4. c > 0 => n < c
      BY <3>2, <1>6
    <3> QED
      BY <3>3, <3>4, <1>2, <1>4
  <2>3. ASSUME n >= cursor'[l], n \in start'[l], n \in Matching(q)
        PROVE  got'[l][n] = 1
    <3>1. CASE n \in S
      BY <3>1, <2>3, <1>7, <1>10
    <3>2. CASE n \notin S
      BY <3>2, <2>3, <1>2, <1>3, <1>4, <1>7, <1>12
    <3> QED
      BY <3>1, <3>2
  <2> QED
    BY <2>1, <2>2, <2>3
<1>14. Listed(l)'
  BY <1>11, <1>13 DEF Listed
<1> QED
  BY <1>8, <1>9, <1>14

\* FirstPage and NextPage: the other listings are not touched.
LEMMA OthersListed ==
    ASSUME IInv, NEW l \in Listings, UNCHANGED <<grantees, notes, nextId, writeVars>>,
           /\ query' \in [Listings -> Query \cup {NoQuery}]
           /\ start' \in [Listings -> SUBSET Ids]
           /\ got' \in [Listings -> [Ids -> 0 .. 2]]
           /\ cursor' \in [Listings -> {0} \cup Ids],
           \A k \in Listings \ {l} : /\ query'[k] = query[k] /\ start'[k] = start[k]
                                    /\ got'[k] = got[k] /\ cursor'[k] = cursor[k],
           Listed(l)'
    PROVE  IInv'
<1>1. TypeOK'
  BY DEF IInv, TypeOK, writeVars
<1>2. ASSUME NEW k \in Listings \ {l} PROVE Listed(k)'
  BY DEF IInv, Listed, Matching, Superseded, Written
<1> QED
  BY <1>1, <1>2, CallsFramed DEF IInv

\* FirstPage: what matches now is what has to be returned.
LEMMA FirstPageIInv ==
    ASSUME IInv, NEW l \in Listings, FirstPage(l)
    PROVE  IInv'
<1>1. PICK q \in Query : /\ query' = [query EXCEPT ![l] = q]
                         /\ start' = [start EXCEPT ![l] = Matching(q)]
                         /\ ListNotes(l, q, 0)
  BY DEF FirstPage
<1>2. /\ query' \in [Listings -> Query \cup {NoQuery}]
      /\ start' \in [Listings -> SUBSET Ids]
      /\ query'[l] = q /\ start'[l] = Matching(q)
  BY <1>1 DEF IInv, TypeOK, Matching
<1>3. \A n \in start'[l] : Written(n) /\ n \in Ids
  BY <1>2 DEF Matching
<1>4. /\ Listed(l)'
      /\ got' \in [Listings -> [Ids -> 0 .. 2]]
      /\ cursor' \in [Listings -> {0} \cup Ids]
  BY <1>1, <1>2, <1>3, ListNotesListed DEF FirstPage
<1>5. \A k \in Listings \ {l} : /\ query'[k] = query[k] /\ start'[k] = start[k]
                                /\ got'[k] = got[k] /\ cursor'[k] = cursor[k]
  BY <1>1 DEF IInv, TypeOK, ListNotes
<1> QED
  BY <1>2, <1>4, <1>5, OthersListed DEF FirstPage

\* NextPage: the page is taken below everything returned so far.
LEMMA NextPageIInv ==
    ASSUME IInv, NEW l \in Listings, NextPage(l)
    PROVE  IInv'
<1>1. /\ cursor[l] \in {0} \cup Ids /\ cursor[l] > 0
      /\ ListNotes(l, query[l], cursor[l])
      /\ query' = query /\ start' = start /\ notes' = notes
  BY DEF NextPage, IInv, TypeOK
<1>2. Listed(l) /\ query[l] \in Query
  BY <1>1 DEF IInv, Listed
<1>3. \A n \in start'[l] : Written(n) /\ n \in Ids
  BY <1>1, <1>2 DEF Listed, IInv, TypeOK
<1>4. \A n \in Ids :
         /\ got[l][n] <= 1
         /\ n < cursor[l] => got[l][n] = 0
         /\ n >= cursor[l] /\ n \in start'[l] /\ n \in Matching(query[l]) => got[l][n] = 1
  BY <1>1, <1>2 DEF Listed
<1>5. /\ Listed(l)'
      /\ got' \in [Listings -> [Ids -> 0 .. 2]]
      /\ cursor' \in [Listings -> {0} \cup Ids]
  BY <1>1, <1>2, <1>3, <1>4, ListNotesListed
<1>6. \A k \in Listings \ {l} : got'[k] = got[k] /\ cursor'[k] = cursor[k]
  BY <1>1 DEF IInv, TypeOK, ListNotes
<1> QED
  BY <1>1, <1>5, <1>6, OthersListed DEF NextPage, IInv, TypeOK

\* Every step of the specification preserves the invariant.
LEMMA NextIInv == IInv /\ [Next]_vars => IInv'
<1> SUFFICES ASSUME IInv, [Next]_vars PROVE IInv'
  OBVIOUS
<1>1. ASSUME NEW g \in Grantees, UpsertGrantee(g) PROVE IInv'
  BY <1>1, UpsertGranteeIInv
<1>2. ASSUME NEW w \in Writers, createNote(w) PROVE IInv'
  BY <1>2, createNoteIInv
<1>3. ASSUME NEW w \in Writers, GetNote(w) PROVE IInv'
  BY <1>3, GetNoteIInv
<1>4. ASSUME NEW w \in Writers, DrawId(w) PROVE IInv'
  BY <1>4, DrawIdIInv
<1>5. ASSUME NEW w \in Writers, CreateNote(w) PROVE IInv'
  BY <1>5, CreateNoteIInv
<1>6. ASSUME NEW w \in Writers, CallFails(w) PROVE IInv'
  BY <1>6, CallFailsIInv
<1>7. ASSUME NEW l \in Listings, FirstPage(l) PROVE IInv'
  BY <1>7, FirstPageIInv
<1>8. ASSUME NEW l \in Listings, NextPage(l) PROVE IInv'
  BY <1>8, NextPageIInv
<1>9. CASE UNCHANGED vars
  <2>1. TypeOK'
    BY <1>9 DEF IInv, TypeOK, vars, writeVars, listVars
  <2> QED
    BY <1>9, <2>1, ListingsFramed, CallsFramed DEF IInv, vars
<1> QED
  BY <1>1, <1>2, <1>3, <1>4, <1>5, <1>6, <1>7, <1>8, <1>9 DEF Next

(***************************************************************************)
(* The theorems.                                                           *)
(***************************************************************************)
\* The inductive invariant holds in every reachable state.
LEMMA Invariant == Spec => []IInv
BY InitIInv, NextIInv, PTL DEF Spec

\* Every variable keeps its type; a call past its checks has a note to write.
THEOREM TypeCorrect == Spec => []TypeOK
<1>1. IInv => TypeOK
  BY DEF IInv
<1> QED
  BY Invariant, <1>1, PTL

\* list_notes, drained, returns every note that matched throughout exactly once.
THEOREM ListedOnce == Spec => []StandingNotesListedOnce
<1>1. IInv => StandingNotesListedOnce
  <2> SUFFICES ASSUME IInv, NEW l \in Listings, NEW n \in Ids
               PROVE  /\ got[l][n] <= 1
                      /\ cursor[l] = 0 /\ n \in start[l] /\ n \in Matching(query[l])
                           => got[l][n] = 1
    BY DEF StandingNotesListedOnce
  <2>1. Listed(l) /\ n \in Nat
    BY DEF IInv, Ids
  <2> QED
    BY <2>1 DEF Listed
<1> QED
  BY Invariant, <1>1, PTL

\* The newest note of a grantee is not superseded: what supersedes it would be newer.
THEOREM NewestStands == Spec => []NewestNoteStands
<1>1. IInv => NewestNoteStands
  <2> SUFFICES ASSUME IInv, NEW n \in Ids, Written(n),
                      \A m \in Ids :
                          Written(m) /\ notes[m].grantee = notes[n].grantee => m <= n,
                      NEW k \in Ids, Written(k), notes[k].supersedes = n
               PROVE  FALSE
    BY DEF NewestNoteStands, Superseded
  <2>1. k \in Nat /\ n \in Nat /\ n # 0
    BY DEF Ids
  <2>2. n < k /\ notes[k].grantee = notes[n].grantee
    BY <2>1 DEF IInv, Chain, MaySupersede
  <2> QED
    BY <2>1, <2>2
<1> QED
  BY Invariant, <1>1, PTL
==============================================================================
