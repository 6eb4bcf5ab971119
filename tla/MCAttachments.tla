--------------------------- MODULE MCAttachments ---------------------------
(***************************************************************************)
(* Two folder workers; a message with two attachments, the first of which  *)
(* a second message has too, twice.                                        *)
(***************************************************************************)
EXTENDS Attachments, TLC

CONSTANTS w1, w2, mail, copy, a, b, t1, t2, t3

MCWorkers == {w1, w2}
MCMessages == {mail, copy}
MCContents == {a, b}
MCTemps == {t1, t2, t3}
MCParts == [m \in MCMessages |-> IF m = mail THEN <<a, b>> ELSE <<a, a>>]
MCNoHeaderId == {copy}
Symmetry == Permutations(MCWorkers) \cup Permutations(MCTemps)
=============================================================================
