----------------------------- MODULE MCApproval -----------------------------
(* Instances of Approval for TLC: two operators, each with a key of their own. *)
EXTENDS Approval, TLC

CONSTANTS i1, i2, c1, c2, e1, e2, k1, k2, g1, d1, a1

MCHolds == e1 :> {k1} @@ e2 :> {k2}
MCMimeOf == [d \in Drives |-> "folder"]

\* One job of each kind; two rows can hold the same job.
AddGrantee == [action |-> "add_grantee", grantee |-> g1]
AddOperator == [action |-> "add_approval_user", email |-> e2, key |-> k2]
WhitelistDoc == [action |-> "whitelist_doc", grantee |-> g1, drive |-> d1, type |-> "folder"]
AuthorizeEmail == [action |-> "authorize_grantee_email", grantee |-> g1, sender |-> a1]

OperatorJobs == {AddGrantee, AddOperator}
AllJobs == OperatorJobs \cup {WhitelistDoc, AuthorizeEmail}

\* Three instances in one: two rows about grantees and operators, with interrupted
\* requests; one such row, with a failing database call or a crash besides; one row
\* of any kind while the administrator writes the other two tables.
OneRow == \E i \in Ids : row[i] = NoRow
Failures == faults + crashes
TablesEmpty ==
    /\ \A i \in Ids : row[i].job \in OperatorJobs \cup {None}
    /\ \A s \in Grantees \X Drives : sources[s] = None
    /\ \A a \in Senders : senders[a] = None
OperatorsStay == \A e \in Operators : users[e] = IF e = BootEmail THEN BootKey ELSE None

Instances ==
    \/ TablesEmpty /\ Failures = 0
    \/ TablesEmpty /\ Failures <= 1 /\ OneRow
    \/ OperatorsStay /\ Failures <= 1 /\ OneRow

RowsAndSessions == Permutations({i1, i2}) \cup Permutations({c1, c2})
=============================================================================
