-------------------------------- MODULE Notes --------------------------------
(***************************************************************************)
(* The agent's notes about grantees: create_note calls that run side by    *)
(* side, and list_notes clients that fetch a listing page by page while    *)
(* notes are written.                                                      *)
(*                                                                         *)
(* A create_note call is split at its database calls (pc[w]), and the      *)
(* INSERT once more: the id is drawn from the identity sequence when the   *)
(* statement runs, the row is visible when it has committed, so ids can    *)
(* appear out of order and leave gaps.  Rows are never updated or deleted. *)
(*                                                                         *)
(* Left out: content, kinds, Signal numbers and created_at, which never    *)
(* change once written; a filter on them narrows a listing as the grantee  *)
(* does.                                                                   *)
(***************************************************************************)
EXTENDS Naturals, FiniteSets

CONSTANTS
    Grantees,
    Writers,                 \* create_note calls under way
    Listings,                \* clients draining list_notes
    Limits,                  \* the limits they ask for
    defaultLimit, maxLimit,
    MaxNotes,                \* bound on the ids drawn
    None

ASSUME LimitAssumption ==
    Limits \subseteq Nat /\ defaultLimit \in Nat \ {0} /\ maxLimit \in Nat \ {0}
ASSUME MaxNotesAssumption == MaxNotes \in Nat
ASSUME NoneAssumption == None \notin Grantees

VARIABLES
    grantees,    \* grantees
    notes,       \* notes, by id
    nextId,      \* the identity sequence of notes
    \* A create_note call.
    pc,
    want,        \* its grantee_id, and its supersedes_id or 0
    id,          \* the id drawn
    \* A listing.
    query,       \* its grantee_id, include_superseded and limit
    cursor,      \* next_cursor of the last page, 0 when there is none
    got,         \* how often each note has been returned: 0, 1 or 2 for more
    start        \* history: the notes that matched at the first page

writeVars == <<pc, want, id>>
listVars == <<query, cursor, got, start>>
vars == <<grantees, notes, nextId, writeVars, listVars>>

(***************************************************************************)
(* Types.                                                                  *)
(***************************************************************************)
Ids == 1 .. MaxNotes

Note == [grantee : Grantees, supersedes : {0} \cup Ids]
NoNote == [grantee |-> None, supersedes |-> 0]
NoQuery == [grantee |-> None, all |-> FALSE, limit |-> 0]

Query == [grantee : Grantees, all : BOOLEAN, limit : Limits]

TypeOK ==
    /\ grantees \subseteq Grantees
    /\ notes \in [Ids -> Note \cup {NoNote}]
    /\ nextId \in 1 .. MaxNotes + 1
    /\ pc \in [Writers -> {"idle", "prev", "insert", "commit"}]
    /\ want \in [Writers -> Note \cup {NoNote}]
    /\ id \in [Writers -> {0} \cup Ids]
    /\ query \in [Listings -> Query \cup {NoQuery}]
    /\ cursor \in [Listings -> {0} \cup Ids]
    /\ got \in [Listings -> [Ids -> 0 .. 2]]
    /\ start \in [Listings -> SUBSET Ids]
    /\ \A w \in Writers : pc[w] # "idle" => want[w] \in Note
    /\ \A w \in Writers : pc[w] = "commit" => id[w] \in Ids

Init ==
    /\ grantees = {}
    /\ notes = [n \in Ids |-> NoNote]
    /\ nextId = 1
    /\ pc = [w \in Writers |-> "idle"]
    /\ want = [w \in Writers |-> NoNote]
    /\ id = [w \in Writers |-> 0]
    /\ query = [l \in Listings |-> NoQuery]
    /\ cursor = [l \in Listings |-> 0]
    /\ got = [l \in Listings |-> [n \in Ids |-> 0]]
    /\ start = [l \in Listings |-> {}]

Written(n) == notes[n].grantee # None

\* A grantee is added (by an approved action or the CLI); none is ever deleted.
UpsertGrantee(g) ==
    /\ grantees' = grantees \cup {g}
    /\ UNCHANGED <<notes, nextId, writeVars, listVars>>

(***************************************************************************)
(* create_note.                                                            *)
(***************************************************************************)
Goto(w, where) == pc' = [pc EXCEPT ![w] = where]

\* The call is over: answered, refused, failed or cut off.
End(w) ==
    /\ Goto(w, "idle")
    /\ want' = [want EXCEPT ![w] = NoNote]
    /\ id' = [id EXCEPT ![w] = 0]

\* The checks of the input, and GetGrantee; an unknown grantee is refused.
createNote(w) ==
    /\ pc[w] = "idle"
    /\ \E g \in grantees, s \in {0} \cup Ids :
          /\ want' = [want EXCEPT ![w] = [grantee |-> g, supersedes |-> s]]
          /\ Goto(w, IF s = 0 THEN "insert" ELSE "prev")
    /\ UNCHANGED <<grantees, notes, nextId, id, listVars>>

\* Mutant: the owner of the note to be superseded is not looked at.
GetNoteOfAnyone(w) ==
    /\ pc[w] = "prev"
    /\ IF Written(want[w].supersedes)
       THEN Goto(w, "insert") /\ UNCHANGED <<want, id>>
       ELSE End(w)
    /\ UNCHANGED <<grantees, notes, nextId, listVars>>

\* Mutant: the refusal does not end the call.
GetNoteGoesOn(w) ==
    LET s == want[w].supersedes IN
    /\ pc[w] = "prev"
    /\ want' = [want EXCEPT ![w] =
                  IF Written(s) /\ notes[s].grantee = @.grantee THEN @ ELSE NoNote]
    /\ Goto(w, "insert")
    /\ UNCHANGED <<grantees, notes, nextId, id, listVars>>

\* GetNote and the check of the note to be superseded.
GetNote(w) ==
    LET s == want[w].supersedes IN
    /\ pc[w] = "prev"
    /\ IF Written(s) /\ notes[s].grantee = want[w].grantee
       THEN Goto(w, "insert") /\ UNCHANGED <<want, id>>
       ELSE End(w)
    /\ UNCHANGED <<grantees, notes, nextId, listVars>>

\* CreateNote's INSERT draws the id ...
DrawId(w) ==
    /\ pc[w] = "insert"
    /\ nextId <= MaxNotes
    /\ id' = [id EXCEPT ![w] = nextId]
    /\ nextId' = nextId + 1
    /\ Goto(w, "commit")
    /\ UNCHANGED <<grantees, notes, want, listVars>>

\* ... and commits the row.  Its foreign keys hold: no row they name is ever deleted.
CreateNote(w) ==
    /\ pc[w] = "commit"
    /\ notes' = [notes EXCEPT ![id[w]] = want[w]]
    /\ End(w)
    /\ UNCHANGED <<grantees, nextId, listVars>>

\* A database error, a cancelled call or a crash of the server: an id drawn is lost.
CallFails(w) ==
    /\ pc[w] # "idle"
    /\ End(w)
    /\ UNCHANGED <<grantees, notes, nextId, listVars>>

(***************************************************************************)
(* list_notes.                                                             *)
(***************************************************************************)
clampLimit(n) ==
    IF n = 0 THEN defaultLimit ELSE IF n > maxLimit THEN maxLimit ELSE n

Superseded(n) == \E m \in Ids : Written(m) /\ notes[m].supersedes = n

Matching(q) ==
    {n \in Ids : Written(n) /\ notes[n].grantee = q.grantee /\ (q.all \/ ~Superseded(n))}

\* Mutant: the row the cursor names is on the next page again.
BelowOrAt(S, c) == IF c > 0 THEN {n \in S : n <= c} ELSE S

\* n.id < cursor
Below(S, c) == IF c > 0 THEN {n \in S : n < c} ELSE S

\* ORDER BY n.id DESC LIMIT limit
Page(S, limit) == {n \in S : Cardinality({m \in S : m > n}) < limit}

NoneGot == [n \in Ids |-> 0]

\* The counts g after the page P; twice stands for any number of times more.
Returned(g, P) ==
    [n \in Ids |-> IF n \notin P THEN g[n] ELSE IF g[n] = 0 THEN 1 ELSE 2]

\* Mutant: next_cursor is the id of the row beyond the page.
ListNotesFromBeyond(l, q, c) ==
    LET S == Below(Matching(q), c)
        P == Page(S, clampLimit(q.limit))
    IN  /\ got' = [got EXCEPT ![l] = Returned(IF c > 0 THEN got[l] ELSE NoneGot, P)]
        /\ IF P = S
           THEN cursor' = [cursor EXCEPT ![l] = 0]
           ELSE \E n \in S \ P :
                   /\ \A m \in S \ P : n >= m
                   /\ cursor' = [cursor EXCEPT ![l] = n]

\* One call: a page of what the filter leaves, and the last id of the page as
\* next_cursor when there was a row beyond it.
ListNotes(l, q, c) ==
    LET S == Below(Matching(q), c)
        P == Page(S, clampLimit(q.limit))
    IN  /\ got' = [got EXCEPT ![l] = Returned(IF c > 0 THEN got[l] ELSE NoneGot, P)]
        /\ IF P = S
           THEN cursor' = [cursor EXCEPT ![l] = 0]
           ELSE \E n \in P :
                   /\ \A m \in P : n <= m
                   /\ cursor' = [cursor EXCEPT ![l] = n]

\* A client asks for the first page ...
FirstPage(l) ==
    /\ cursor[l] = 0
    /\ \E q \in Query :
          /\ query' = [query EXCEPT ![l] = q]
          /\ start' = [start EXCEPT ![l] = Matching(q)]
          /\ ListNotes(l, q, 0)
    /\ UNCHANGED <<grantees, notes, nextId, writeVars>>

\* ... and for the next with the same arguments, passing the cursor back.
NextPage(l) ==
    /\ cursor[l] > 0
    /\ ListNotes(l, query[l], cursor[l])
    /\ UNCHANGED <<grantees, notes, nextId, writeVars, query, start>>

Next ==
    \/ \E g \in Grantees : UpsertGrantee(g)
    \/ \E w \in Writers :
          createNote(w) \/ GetNote(w) \/ DrawId(w) \/ CreateNote(w) \/ CallFails(w)
    \/ \E l \in Listings : FirstPage(l) \/ NextPage(l)

Spec == Init /\ [][Next]_vars

\* A client that drains a listing goes on asking.
FairSpec == Spec /\ \A l \in Listings : WF_vars(NextPage(l))

(***************************************************************************)
(* Properties.                                                             *)
(***************************************************************************)

\* Draining a listing returns every note that matched from the first page on
\* exactly once, and no note twice, whatever is written and superseded between the
\* pages and in whatever order ids become visible.
StandingNotesListedOnce ==
    \A l \in Listings, n \in Ids :
        /\ got[l][n] <= 1
        /\ cursor[l] = 0 /\ n \in start[l] /\ n \in Matching(query[l]) => got[l][n] = 1

\* The newest note of a grantee is never hidden from list_notes: what supersedes a
\* note is newer and of the same grantee, although the note was looked up in an
\* earlier call and ids are drawn before they are visible.
NewestNoteStands ==
    \A n \in Ids :
        /\ Written(n)
        /\ \A m \in Ids : Written(m) /\ notes[m].grantee = notes[n].grantee => m <= n
        => ~Superseded(n)

\* A client that passes the cursors back comes to the end of the listing, also
\* while notes keep being written.
ListingEnds == \A l \in Listings : cursor[l] > 0 ~> cursor[l] = 0
==============================================================================
