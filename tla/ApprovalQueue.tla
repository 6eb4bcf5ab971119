---------------------------- MODULE ApprovalQueue ----------------------------
(***************************************************************************)
(* What the approval gate promises of each queued action, with no server,  *)
(* operator, signature or failure in sight.  A row may take effect any     *)
(* number of times, before or after its status is settled: the code never  *)
(* promises more.                                                          *)
(***************************************************************************)
CONSTANT Ids

VARIABLES
    status,      \* status of each row
    confirmed,   \* rows some operator has confirmed
    applied      \* rows that have taken effect

Init ==
    /\ status = [i \in Ids |-> "absent"]
    /\ confirmed = {}
    /\ applied = {}

Enqueue(i) ==
    /\ status[i] = "absent"
    /\ status' = [status EXCEPT ![i] = "pending"]
    /\ UNCHANGED <<confirmed, applied>>

Confirm(i) ==
    /\ status[i] = "pending"
    /\ confirmed' = confirmed \cup {i}
    /\ UNCHANGED <<status, applied>>

TakeEffect(i) ==
    /\ i \in confirmed
    /\ applied' = applied \cup {i}
    /\ UNCHANGED <<status, confirmed>>

Settle(i, outcome) ==
    /\ status[i] = "pending"
    /\ i \in confirmed
    /\ outcome = "executed" => i \in applied
    /\ status' = [status EXCEPT ![i] = outcome]
    /\ UNCHANGED <<confirmed, applied>>

Next ==
    \E i \in Ids :
        \/ Enqueue(i)
        \/ Confirm(i)
        \/ TakeEffect(i)
        \/ \E outcome \in {"executed", "failed"} : Settle(i, outcome)

Spec == Init /\ [][Next]_<<status, confirmed, applied>>
=============================================================================
