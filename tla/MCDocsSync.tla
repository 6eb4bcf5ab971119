----------------------------- MODULE MCDocsSync -----------------------------
(* Instances of DocsSync for TLC. *)
EXTENDS DocsSync, TLC

CONSTANTS p1, p2, g1, g2, s1, s2

PodSymmetry == Permutations({p1, p2})

EachItsOwn == {<<g1, s1>>, <<g2, s2>>}
FirstOnly == {<<g1, s1>>}

\* One pod with two grantees, each with a source, and three cycles; or two pods with
\* one source, two cycles and a second edit.
OnePod == (\E p \in Pods : pods = {p}) /\ clock <= 2
TwoPods ==
    /\ pods = Pods
    /\ allowed \subseteq FirstOnly /\ place \in [Docs -> SUBSET {s1}]
    /\ readable = Docs /\ active = Grantees
    /\ \A p \in Pods : pc[p] = "bump" => cycle[p] < 2
OneOrTwoPods == OnePod \/ TwoPods
=============================================================================
