--------------------------- MODULE MCMailIndexer ----------------------------
(* Instances of MailIndexer for TLC. *)
EXTENDS MailIndexer, SequencesExt, TLC

CONSTANTS m1, m2, m3, m4, a1, a2, g1, g2, f1, f2

\* m3 answers m1 and m2, which start threads of their own; m4 stands alone.
MailFrom == m1 :> a1 @@ m2 :> a2 @@ m3 :> a2 @@ m4 :> a2
MailRefs == m1 :> <<>> @@ m2 :> <<>> @@ m3 :> <<m1, m2>> @@ m4 :> <<>>

\* The inbox gets everything, the second folder a copy of the answer.
CopyArriving == f1 :> {m1, m2, m3, m4} @@ f2 :> {m3}
EachItsOwn == {<<a1, g1>>, <<a2, g2>>}

Working == {f \in Folders : pc[f] # "down"}
Authorizing == {a \in Senders : adding[a] # "none"}

\* The mail is delivered, in the order of UIDs, before anything else happens; FETCH
\* answers come in any order all the same.
MailIs(s1, s2) ==
    /\ IsPrefix(box[f1], s1)
    /\ IsPrefix(box[f2], s2)
    /\ Working \cup Authorizing # {} => box[f1] = s1 /\ box[f2] = s2

\* Two workers on a message and its answer; at most three of the workers and the
\* transactions of AddGranteeEmail are under way.
Races ==
    /\ MailIs(<<m1, m3>>, <<m3>>)
    /\ Cardinality(Working) + Cardinality(Authorizing) <= 3

\* One worker on all the mail; one address is authorized.
Split ==
    /\ MailIs(<<m1, m2, m3, m4>>, <<>>)
    /\ f2 \notin Working /\ a2 \notin Authorizing

Instances == Races \/ Split

\* One folder, where m2 answers m1 and cannot be parsed, and m3 stands alone.
OneFrom == m1 :> a1 @@ m2 :> a2 @@ m3 :> a2
OneRefs == m1 :> <<>> @@ m2 :> <<m1>> @@ m3 :> <<>>
OneArriving == f1 :> {m1, m2, m3}
FirstOnly == {<<a1, g1>>}

\* In the order of UIDs until the folder is rebuilt.
InOrder == validity[f1] = 1 => IsPrefix(box[f1], <<m1, m2, m3>>)
=============================================================================
