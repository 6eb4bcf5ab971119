--------------------------- MODULE SigningPayload ---------------------------
(***************************************************************************)
(* The bytes an operator signs: what becomes of an action's args between   *)
(* the tool that queues it, the JSONB column, the approval server's own    *)
(* payload, the HTTP answer and the payload balvi-approve rebuilds.        *)
(*                                                                         *)
(* A JSON text is a sequence of lexemes.  Of a string's characters only    *)
(* two kinds matter: "html", those Go's encoder writes as a \u escape by   *)
(* default (ampersand, less-than and greater-than), and "plain", the rest. *)
(* "escaped" is an escaped html character, "sep" a colon or a comma, and   *)
(* "space" white space between lexemes.                                    *)
(***************************************************************************)
EXTENDS Naturals, Sequences, SequencesExt

CONSTANTS
    Ids,      \* rows
    MaxLen,   \* bound on the length of the strings in args
    None

VARIABLES
    stored,   \* the JSONB column as Postgres prints it
    fetched,  \* balvi-approve's copy of the GET /actions/{id} answer
    signed    \* what it signed

vars == <<stored, fetched, signed>>

Characters == {"plain", "html"}
Lexemes == Characters \cup {"escaped", "sep", "space"}

Escape(text) == [n \in DOMAIN text |-> IF text[n] = "html" THEN "escaped" ELSE text[n]]
Unescape(text) == [n \in DOMAIN text |-> IF text[n] = "escaped" THEN "html" ELSE text[n]]
Compact(text) == SelectSeq(text, LAMBDA l : l # "space")

\* json.Marshal of an args struct with one string: no space, html escaped.
Marshal(string) == Escape(<<"sep">> \o string)

\* JSONB keeps values, not text: Postgres prints a space after every separator
\* and escapes no html.
Jsonb(text) ==
    FlattenSeq([n \in DOMAIN Compact(text) |->
        LET l == Unescape(Compact(text))[n] IN IF l = "sep" THEN <<l, "space">> ELSE <<l>>])

\* json.Encoder on a RawMessage: compacts it and escapes html.
Encode(raw) == Escape(Compact(raw))

\* approval.SigningPayload; the action name is left out, it takes no conversion.
Payload(id, args) == <<id, Compact(args)>>

Init ==
    /\ stored = [i \in Ids |-> None]
    /\ fetched = None
    /\ signed = None

\* A tool queues an action.
EnqueueAction(i, string) ==
    /\ stored[i] = None
    /\ stored' = [stored EXCEPT ![i] = Jsonb(Marshal(string))]
    /\ UNCHANGED <<fetched, signed>>

\* GET /actions/{id}: the row as JSON, and the payload in base64.
getAction(i) ==
    /\ stored[i] # None
    /\ fetched' = [id |-> i, args |-> Encode(stored[i]), payload |-> Payload(i, stored[i])]
    /\ UNCHANGED <<stored, signed>>

\* What balvi-approve rebuilds from the answer.
Local == Payload(fetched.id, fetched.args)

\* It signs only if its own payload is the server's.
Sign ==
    /\ fetched # None
    /\ Local = fetched.payload
    /\ signed' = Local
    /\ UNCHANGED <<stored, fetched>>

Next ==
    \/ \E i \in Ids, string \in BoundedSeq(Characters, MaxLen) : EnqueueAction(i, string)
    \/ \E i \in Ids : getAction(i)
    \/ Sign

Spec == Init /\ [][Next]_vars

\* "the two sides always agree on the bytes": the payload balvi-approve rebuilds from
\* an answer is the one the server sent with it, so it never refuses to sign.
SidesAgree == fetched # None => Local = fetched.payload
=============================================================================
