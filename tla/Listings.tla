------------------------------ MODULE Listings ------------------------------
(***************************************************************************)
(* The listings of the MCP server that are fetched page by page while mail *)
(* is indexed and tagged and documents are synced: emails of a grantee, a  *)
(* search, threads and documents of a grantee.  (list_notes is in Notes.)  *)
(*                                                                         *)
(* All return rows by a time, latest first, then by id.  The cursor of the *)
(* first three is the id of a page's last row, that of documents its time. *)
(* Mail is not indexed in the order of its dates: folders are indexed side *)
(* by side, and a new folder's old mail comes late.                        *)
(*                                                                         *)
(* One client drains one listing; its filter is fixed (a grantee, not the  *)
(* mail without one), a row keeps its time in seconds and whether it       *)
(* matches.                                                                *)
(***************************************************************************)
EXTENDS Naturals, FiniteSets

CONSTANTS
    Kinds,          \* which listings: "emails", "search", "threads", "documents"
    Times,          \* the times rows have
    Asked,          \* the limits a client asks for
    DefaultLimit,   \* 50 in the code, for every listing
    MaxLimit,       \* 200 in the code, 500 for documents
    MaxRows         \* bound on the rows

ASSUME KindsAssumption == Kinds \subseteq {"emails", "search", "threads", "documents"}
ASSUME TimesAssumption == Times \subseteq Nat \ {0}
ASSUME LimitsAssumption ==
    /\ Asked \subseteq Nat
    /\ DefaultLimit \in Nat \ {0}
    /\ MaxLimit \in Nat \ {0}
    /\ MaxRows \in Nat

VARIABLES
    kind,       \* which listing the client drains
    row,        \* the rows of the table it reads, by id
    cursor,     \* next_cursor of the last page, 0 when there is none
    listing,    \* whether a first page has been fetched
    got,        \* how often each row has been returned: 0, 1 or 2 for more
    \* History, from the first page on.
    standing,   \* the rows that have matched and not changed
    orderly     \* whether the cursors' key has followed the order of the rows

tableVars == <<kind, row>>
clientVars == <<cursor, listing, got>>
vars == <<tableVars, clientVars, standing, orderly>>

Ids == 1 .. MaxRows
NoRow == [time |-> 0, matches |-> FALSE]
Present(n) == row[n] # NoRow
NoneGot == [n \in Ids |-> 0]

TypeOK ==
    /\ kind \in Kinds
    /\ row \in [Ids -> [time : Times \cup {0}, matches : BOOLEAN]]
    /\ cursor \in Ids \cup Times \cup {0}
    /\ listing \in BOOLEAN
    /\ got \in [Ids -> 0..2]
    /\ standing \subseteq Ids
    /\ orderly \in BOOLEAN

Init ==
    /\ kind \in Kinds
    /\ row = [n \in Ids |-> NoRow]
    /\ cursor = 0
    /\ listing = FALSE
    /\ got = NoneGot
    /\ standing = {}
    /\ orderly = TRUE

(***************************************************************************)
(* What a page is.                                                         *)
(***************************************************************************)
MatchingIn(r) == {n \in Ids : r[n].matches}

\* ORDER BY time DESC, id DESC
Before(r, m, n) ==
    \/ r[m].time > r[n].time
    \/ r[m].time = r[n].time /\ m > n

\* What the cursor is compared with.
Key(r, n) == IF kind = "documents" THEN r[n].time ELSE n

\* Along the order of the rows the key falls.
Orderly(r) ==
    \A m, n \in MatchingIn(r) : Before(r, m, n) => Key(r, n) < Key(r, m)

\* Mutant: the row the cursor names is fetched again.
BelowOrAt(c) == {n \in MatchingIn(row) : c > 0 => Key(row, n) <= c}

Below(c) == {n \in MatchingIn(row) : c > 0 => Key(row, n) < c}

clampLimit(n) == IF n = 0 THEN DefaultLimit ELSE IF n > MaxLimit THEN MaxLimit ELSE n

\* ListDocsForGrantee takes a limit that is too large for none.
docsLimit(n) == IF n = 0 \/ n > MaxLimit THEN DefaultLimit ELSE n

Page(S, limit) == {n \in S : Cardinality({m \in S : Before(row, m, n)}) < limit}

\* Mutant: the cursor is taken from the row beyond the page.
NextCursorBeyond(S, P) ==
    {Key(row, n) : n \in {n \in S \ P : \A m \in S \ P : ~Before(row, m, n)}}

\* Mutant: the cursor is one above the key of the page's last row.
NextCursorPast(S, P) ==
    {Key(row, n) + 1 : n \in {n \in P : \A m \in P : ~Before(row, n, m)}}

\* The key of the page's last row.
NextCursor(S, P) == {Key(row, n) : n \in {n \in P : \A m \in P : ~Before(row, n, m)}}

\* One page: a first one, or the one the cursor of the last leads to.
Fetch(limit) ==
    \E first \in BOOLEAN :
        LET c == IF first THEN 0 ELSE cursor
            S == Below(c)
            P == Page(S, limit)
        IN  /\ first <=> cursor = 0
            /\ got' = [n \in Ids |->
                         LET seen == IF first THEN 0 ELSE got[n]
                         IN  IF n \notin P THEN seen ELSE IF seen = 0 THEN 1 ELSE 2]
            /\ IF P = S THEN cursor' = 0 ELSE cursor' \in NextCursor(S, P)
            /\ standing' = IF first THEN MatchingIn(row) ELSE standing
            /\ orderly' = IF first THEN Orderly(row) ELSE orderly
            /\ listing' = TRUE
            /\ UNCHANGED tableVars

\* The queries differ in table, filter and limit.
ListMessagesByGrantee(n) == Fetch(clampLimit(n))
SearchMessages(n) == Fetch(clampLimit(n))
ListThreadsByGrantee(n) == Fetch(clampLimit(n))
ListDocsForGrantee(n) == Fetch(docsLimit(n))

\* The tools, each asked for up to n rows.
listEmailsForGrantee(n) == kind = "emails" /\ ListMessagesByGrantee(n)
searchEmails(n) == kind = "search" /\ SearchMessages(n)
listThreadsForGrantee(n) == kind = "threads" /\ ListThreadsByGrantee(n)
listDocumentsForGrantee(n) == kind = "documents" /\ ListDocsForGrantee(n)

ListPage ==
    \E n \in Asked :
        \/ listEmailsForGrantee(n)
        \/ searchEmails(n)
        \/ listThreadsForGrantee(n)
        \/ listDocumentsForGrantee(n)

(***************************************************************************)
(* What writes the tables meanwhile.                                       *)
(***************************************************************************)
Write(r) ==
    /\ row' = r
    /\ standing' = {n \in standing : r[n] = row[n]}
    /\ orderly' = (orderly /\ Orderly(r))
    /\ UNCHANGED <<kind, clientVars>>

\* A row with an id of its own.  Ids are drawn inside the transactions of several
\* workers and become visible as those commit, in any order.
Insert(time, matches) ==
    \E n \in Ids :
        /\ ~Present(n)
        /\ Write([row EXCEPT ![n] = [time |-> time, matches |-> matches]])

InsertMessage(time, matches) ==
    /\ kind \in {"emails", "search"}
    /\ Insert(time, matches)

\* A thread starts without a grantee.
CreateThread(time) == kind = "threads" /\ Insert(time, FALSE)

\* SetThreadGrantee and AddGranteeEmail tag what has no grantee yet.
Tag(S) ==
    /\ kind # "documents"
    /\ Write([n \in Ids |-> IF n \in S /\ Present(n)
                            THEN [time |-> row[n].time, matches |-> TRUE]
                            ELSE row[n]])

\* last_seen_at only rises.
TouchThread(n, time) ==
    /\ kind = "threads"
    /\ Present(n)
    /\ time > row[n].time
    /\ Write([row EXCEPT ![n] = [time |-> time, matches |-> @.matches]])

\* A document has an id of its own; it is new, edited, or becomes another grantee's.
UpsertDoc(n, time, matches) ==
    /\ kind = "documents"
    /\ Write([row EXCEPT ![n] = [time |-> time, matches |-> matches]])

Next ==
    \/ ListPage
    \/ \E time \in Times, matches \in BOOLEAN : InsertMessage(time, matches)
    \/ \E time \in Times : CreateThread(time)
    \/ \E S \in SUBSET Ids : Tag(S)
    \/ \E n \in Ids, time \in Times : TouchThread(n, time)
    \/ \E n \in Ids, time \in Times, matches \in BOOLEAN : UpsertDoc(n, time, matches)

\* A client that has a cursor uses it.
Spec == Init /\ [][Next]_vars /\ WF_vars(cursor > 0 /\ ListPage)

(***************************************************************************)
(* Properties.                                                             *)
(***************************************************************************)

\* A listing is as good as its cursor: if all along the key of the cursor fell with
\* the order of the rows (mail indexed by date, no two documents of one second), a
\* drained listing has returned every row that stood throughout, and returned it
\* once, whatever else was written, with any limits from page to page.
OrderlyListingComplete ==
    listing /\ cursor = 0 /\ orderly => \A n \in standing : got[n] = 1

\* Documents are never listed twice, orderly or not, unless they change: the price
\* of a tie is a missing document.
DocumentsListedOnce ==
    kind = "documents" /\ listing => \A n \in standing : got[n] <= 1

\* Every listing ends, however fast rows are written.
ListingEnds == cursor > 0 ~> cursor = 0

\* "List email message summaries (most recent first) for a given grantee. Supports
\* ... cursor pagination.": a listing drained by its cursors has returned every
\* message that was the grantee's from the first page on.
PagesMissNothing ==
    listing /\ cursor = 0 => \A n \in standing : got[n] # 0
=============================================================================
