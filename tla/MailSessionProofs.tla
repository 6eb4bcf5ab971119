------------------------- MODULE MailSessionProofs --------------------------
(***************************************************************************)
(* Proofs about MailSession, for any channel capacity, any number of       *)
(* messages and any number of sessions.                                    *)
(***************************************************************************)
EXTENDS MailSession, TLAPS

(***************************************************************************)
(* The inductive invariant.                                                *)
(***************************************************************************)
\* Every message reported is fetched, or was reported too late.
Covered == 1..told \subseteq 1..lastUID \cup late

\* Where the worker can no longer count on the channel everything is covered; where
\* it still looks at the channel, what is not covered has left an element in it.
Noticed ==
    /\ Connected => lastUID <= told
    /\ pc = "save" => 1..told \subseteq 1..fetched \cup late
    /\ pc \in {"drain", "refresh"} => Covered
    /\ pc \in {"idle", "idling"} => Covered \/ notify > 0

IInv == TypeOK /\ Noticed

(***************************************************************************)
(* Preservation, one lemma per action.                                     *)
(***************************************************************************)
\* Before the first session nothing is delivered or reported.
LEMMA InitIInv == Init => IInv
BY CapacityAssumption, BoundsAssumption
   DEF Init, IInv, TypeOK, Noticed, Connected, Covered

\* Deliver.
LEMMA DeliverIInv ==
    ASSUME IInv, Deliver
    PROVE  IInv'
<1> USE BoundsAssumption, CapacityAssumption DEF IInv, Deliver, TypeOK
<1>1. TypeOK'
  OBVIOUS
<1>2. Noticed'
  BY DEF Noticed, Connected, Covered
<1> QED
  BY <1>1, <1>2

\* Exists: the channel has room for one element, so after the notice it is not empty.
LEMMA ExistsIInv ==
    ASSUME IInv, Exists
    PROVE  IInv'
<1> USE BoundsAssumption, CapacityAssumption DEF IInv, Exists, Notify, TypeOK
<1>1. lastUID <= told
  BY DEF Noticed
<1>2. late' \subseteq (lastUID + 1)..mail
  BY <1>1 DEF Deaf
<1>3. TypeOK'
  BY <1>2
<1>4. notify' > 0
  OBVIOUS
<1>5. CASE Deaf
  <2>1. late' = late \cup (told + 1)..mail
    BY <1>5
  <2>2. 1..told' \subseteq 1..told \cup (told + 1)..mail
    OBVIOUS
  <2>3. Noticed'
    BY <1>1, <1>4, <1>5, <2>1, <2>2 DEF Noticed, Connected, Covered, Deaf
  <2> QED
    BY <1>3, <2>3
<1>6. CASE ~Deaf
  BY <1>1, <1>3, <1>4, <1>6 DEF Noticed, Connected, Covered, Deaf
<1> QED
  BY <1>5, <1>6

\* Select.
LEMMA SelectIInv ==
    ASSUME IInv, Select
    PROVE  IInv'
BY BoundsAssumption, CapacityAssumption
   DEF IInv, TypeOK, Noticed, Connected, Covered, Select, Goto

\* Fetch: whatever has been reported is in the answer.
LEMMA FetchIInv ==
    ASSUME IInv, Fetch
    PROVE  IInv'
BY BoundsAssumption, CapacityAssumption
   DEF IInv, TypeOK, Noticed, Connected, Covered, Fetch, Goto, serverVars

\* SaveMailboxState: what was fetched is not late any more.
LEMMA SaveMailboxStateIInv ==
    ASSUME IInv, SaveMailboxState
    PROVE  IInv'
<1> USE BoundsAssumption, CapacityAssumption
        DEF IInv, TypeOK, SaveMailboxState, Goto, serverVars
<1>1. late' \subseteq (fetched + 1)..mail
  OBVIOUS
<1>2. TypeOK'
  BY <1>1
<1>3. Noticed'
  BY DEF Noticed, Connected, Covered
<1> QED
  BY <1>2, <1>3

\* SessionEnds.
LEMMA SessionEndsIInv ==
    ASSUME IInv, SessionEnds
    PROVE  IInv'
BY BoundsAssumption, CapacityAssumption
   DEF IInv, TypeOK, Noticed, Connected, Covered, SessionEnds, Goto

\* Drain, Idle, Wake and Stop: the drain only empties the channel when all is covered.
LEMMA idleUntilChangeIInv ==
    ASSUME IInv, idleUntilChange
    PROVE  IInv'
<1> USE BoundsAssumption, CapacityAssumption
        DEF IInv, TypeOK, Noticed, Connected, Covered, Goto, serverVars
<1>1. CASE Drain
  BY <1>1 DEF Drain
<1>2. CASE Idle
  BY <1>2 DEF Idle
<1>3. CASE Wake
  BY <1>3 DEF Wake
<1>4. CASE Stop
  BY <1>4 DEF Stop
<1> QED
  BY <1>1, <1>2, <1>3, <1>4 DEF idleUntilChange

\* Refresh: a notice it overtakes makes its messages late.
LEMMA RefreshIInv ==
    ASSUME IInv, Refresh
    PROVE  IInv'
<1> USE BoundsAssumption, CapacityAssumption
        DEF IInv, TypeOK, Refresh, Goto, serverVars
<1>1. lastUID <= told
  BY DEF Noticed, Connected
<1>2. TypeOK'
  BY <1>1
<1>3. Covered'
  BY <1>1 DEF Noticed, Covered
<1>4. Noticed'
  BY <1>1, <1>3 DEF Noticed, Connected
<1> QED
  BY <1>2, <1>4

\* IdleEnded.
LEMMA IdleEndedIInv ==
    ASSUME IInv, IdleEnded
    PROVE  IInv'
BY BoundsAssumption, CapacityAssumption
   DEF IInv, TypeOK, Noticed, Connected, Covered, IdleEnded, Goto, serverVars

\* Every step of a session preserves the invariant.
LEMMA NextIInv ==
    ASSUME IInv, [Next]_vars
    PROVE  IInv'
<1>1. CASE UNCHANGED vars
  BY <1>1 DEF vars, serverVars, IInv, TypeOK, Noticed, Connected, Covered
<1> QED
  BY <1>1, DeliverIInv, ExistsIInv, SelectIInv, FetchIInv, SaveMailboxStateIInv,
     SessionEndsIInv, idleUntilChangeIInv, RefreshIInv, IdleEndedIInv
     DEF Next, sync

\* The invariant holds throughout (runOnce, dial, idleUntilChange).
LEMMA Invariant == Spec => []IInv
<1>1. IInv /\ [Next]_vars => IInv'
  BY NextIInv
<1> QED
  BY InitIInv, <1>1, PTL DEF Spec

(***************************************************************************)
(* The theorems.                                                           *)
(***************************************************************************)
\* The type invariant of the session: the channel never holds more than its
\* capacity, and nothing is late that has been fetched.
THEOREM TypeCorrect == Spec => []TypeOK
BY Invariant, PTL DEF IInv

\* When the worker waits in IDLE on an empty channel, every message reported to it
\* is fetched or late: a full channel, a notice between the drain and IDLE, or one
\* while IDLE is left for a sync lose nothing (idleUntilChange, dial's handler).
THEOREM NothingIsSleptOn == Spec => []NothingSleptOn
<1>1. IInv => NothingSleptOn
  BY CapacityAssumption DEF IInv, TypeOK, Noticed, Covered, NothingSleptOn
<1> QED
  BY Invariant, <1>1, PTL
=============================================================================
