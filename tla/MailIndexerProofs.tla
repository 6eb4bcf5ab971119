-------------------------- MODULE MailIndexerProofs --------------------------
(***************************************************************************)
(* Proofs about MailIndexer, for any folders, messages, senders, grantees  *)
(* and references, and for any number of rebuilds and failing calls.       *)
(*                                                                         *)
(* The inductive invariant has six parts:                                  *)
(*   Base        types, and what each call of handleMessage relies on;     *)
(*   Isolated    what an open transaction has found, and holds;            *)
(*   Positions   what a saved or running position covers;                  *)
(*   Reaches     the mail a tag or an open transaction has yet to reach;   *)
(*   Promoted    tagged mail in an untagged thread;                        *)
(*   Attributed  who entitles a thread, a message or a worker to its tag.  *)
(***************************************************************************)
EXTENDS MailIndexer, SequenceTheorems, TLAPS

(***************************************************************************)
(* The first part of the invariant: types, and what the calls of           *)
(* handleMessage rely on.                                                  *)
(***************************************************************************)
\* A worker inside handleMessage stands on a message of its folder.
Placed(f) ==
    /\ todo[f] \subseteq 1..Len(box[f])
    /\ IF pc[f] \in MessagePc THEN cur[f] \in 1..Len(box[f]) ELSE cur[f] = 0

\* The calls of handleMessage that know the thread.
ThreadedPc == {"lookup", "get_thread", "insert", "promote", "commit", "touch"}

\* What the calls of handleMessage rely on from the calls before them: the thread they
\* found exists, a tag came from the sender or from the thread, the row is there.
Prepared(f) ==
    /\ pc[f] = "find_again" => thread[Root(Handling(f))] # Absent
    /\ pc[f] \in ThreadedPc => thr[f] \in Messages /\ thread[thr[f]] # Absent
    /\ pc[f] = "insert" /\ res[f] # None => bySender[f] \/ thread[thr[f]] \in Grantees
    /\ bySender[f] => pc[f] \in {"insert", "promote", "commit", "touch"} /\ res[f] # None
    /\ pc[f] \in {"promote", "commit"} => bySender[f]
    /\ pc[f] \in {"promote", "commit", "touch"} => Stored(Handling(f))

\* A stored message's thread exists.
ThreadsExist == \A m \in Messages : Stored(m) => thread[msgs[m].thread] # Absent

Base == TypeOK /\ (\A f \in Folders : Placed(f) /\ Prepared(f)) /\ ThreadsExist

(***************************************************************************)
(* What a step does to the tables and to the workers that do not move.     *)
(***************************************************************************)
\* Threads and messages stay, a thread keeps its tag and a message its thread.
Grows ==
    /\ \A t \in Messages : thread[t] # Absent => thread'[t] # Absent
    /\ \A t \in Messages : thread[t] \in Grantees => thread'[t] = thread[t]
    /\ \A m \in Messages : Stored(m) => msgs'[m].thread = msgs[m].thread

\* The messages of a folder keep their UIDs.
Extended(f) ==
    /\ Len(box[f]) <= Len(box'[f])
    /\ \A u \in 1..Len(box[f]) : box'[f][u] = box[f][u]

\* A worker that does not move.
Still(f) ==
    /\ pc'[f] = pc[f] /\ sel'[f] = sel[f] /\ highest'[f] = highest[f]
    /\ todo'[f] = todo[f] /\ cur'[f] = cur[f] /\ thr'[f] = thr[f]
    /\ res'[f] = res[f] /\ bySender'[f] = bySender[f] /\ batch'[f] = batch[f]
    /\ Extended(f)

\* The message a worker stands on is one of Messages, and stays under a worker that
\* does not move.
LEMMA HandlingType ==
    ASSUME TypeOK, NEW f \in Folders, Placed(f), pc[f] \in MessagePc
    PROVE  Handling(f) \in Messages /\ (cur'[f] = cur[f] /\ Extended(f) => Handling(f)' = Handling(f))
<1>1. box[f] \in Seq(Messages) /\ cur[f] \in 1..Len(box[f])
  BY DEF TypeOK, Placed
<1> QED
  BY <1>1 DEF Handling, Extended

\* The candidates of FindThreadByRefs, and the root of a new thread among them.
LEMMA CandidatesType ==
    ASSUME NEW m \in Messages
    PROVE  /\ ThreadCandidates(m) \subseteq Messages
           /\ Root(m) \in ThreadCandidates(m)
<1>1. Refs[m] \in Seq(Messages)
  BY RefsAssumption
<1>2. Len(Refs[m]) \in Nat /\ \A n \in 1..Len(Refs[m]) : Refs[m][n] \in Messages
  BY <1>1
<1>3. Refs[m] # <<>> => 1 \in 1..Len(Refs[m])
  BY <1>1, <1>2
<1> QED
  BY <1>2, <1>3 DEF ThreadCandidates, Root

\* A worker that does not move is where it was.
LEMMA StillFramed ==
    ASSUME TypeOK, NEW f \in Folders, Placed(f), Prepared(f), Still(f), Grows, TypeOK'
    PROVE  Placed(f)' /\ Prepared(f)'
<1>1. Placed(f)'
  <2>1. /\ Len(box[f]) \in Nat /\ Len(box'[f]) \in Nat
        /\ Len(box[f]) <= Len(box'[f])
    BY DEF TypeOK, Still, Extended
  <2> QED
    BY <2>1 DEF Placed, Still
<1>2. pc[f] \in MessagePc => Handling(f)' = Handling(f) /\ Handling(f) \in Messages
  BY HandlingType DEF Still
<1>3. pc[f] \in MessagePc => Root(Handling(f)) \in Messages
  BY <1>2, CandidatesType
<1>4. pc[f] = "find_again" => thread'[Root(Handling(f)')] # Absent
  BY <1>2, <1>3 DEF Prepared, Grows, MessagePc
<1>5. pc[f] \in {"promote", "commit", "touch"} => msgs'[Handling(f)'].thread # None
  BY <1>2 DEF Prepared, Grows, MessagePc, Stored
<1>6. pc[f] \in ThreadedPc => thr[f] \in Messages /\ thread'[thr[f]] # Absent
  BY DEF Prepared, Grows
<1>7. pc[f] = "insert" /\ res[f] # None => bySender[f] \/ thread'[thr[f]] \in Grantees
  BY DEF Prepared, Grows, ThreadedPc
<1>8. Prepared(f)'
  BY <1>4, <1>5, <1>6, <1>7 DEF Prepared, Still, Stored
<1> QED
  BY <1>1, <1>8

\* A step of one worker that stores a message, if it does, in a thread that exists.
LEMMA BaseFramed ==
    ASSUME Base, NEW F \in SUBSET Folders, TypeOK', Grows,
           \A g \in Folders \ F : Still(g),
           \A f \in F : Placed(f)' /\ Prepared(f)',
           \A m \in Messages : ~Stored(m) /\ Stored(m)' => thread'[msgs'[m].thread] # Absent
    PROVE  Base'
<1> USE DEF Base
<1>1. \A g \in Folders : Placed(g)' /\ Prepared(g)'
  BY StillFramed
<1>2. ThreadsExist'
  <2> SUFFICES ASSUME NEW m \in Messages, Stored(m), Stored(m)'
               PROVE  thread'[msgs'[m].thread] # Absent
    BY DEF ThreadsExist
  <2>1. msgs[m].thread \in Messages /\ thread[msgs[m].thread] # Absent
    BY DEF ThreadsExist, TypeOK, Stored
  <2> QED
    BY <2>1 DEF Grows
<1> QED
  BY <1>1, <1>2

\* Tables that are left alone, and folders that are.
LEMMA Untouched ==
    ASSUME TypeOK
    PROVE  /\ UNCHANGED mailVars => Grows /\ \A m \in Messages : Stored(m)' = Stored(m)
           /\ UNCHANGED box => \A f \in Folders : Extended(f)
<1>1. UNCHANGED mailVars => Grows /\ \A m \in Messages : Stored(m)' = Stored(m)
  BY DEF mailVars, Grows, Stored
<1>2. UNCHANGED box => \A f \in Folders : Extended(f)
  <2>1. \A f \in Folders : Len(box[f]) \in Nat
    BY DEF TypeOK
  <2> QED
    BY <2>1 DEF Extended
<1> QED
  BY <1>1, <1>2

\* Steps that leave the tables alone.
LEMMA BaseFramedTables ==
    ASSUME Base, NEW F \in SUBSET Folders, TypeOK', UNCHANGED mailVars,
           \A g \in Folders \ F : Still(g),
           \A f \in F : Placed(f)' /\ Prepared(f)'
    PROVE  Base'
<1>1. Grows /\ \A m \in Messages : Stored(m)' = Stored(m)
  BY Untouched DEF Base
<1> QED
  BY <1>1, BaseFramed

\* Steps of one worker that leave the tables alone.
LEMMA LocalStep ==
    ASSUME Base, NEW f \in Folders, TypeOK', UNCHANGED mailVars,
           \A g \in Folders \ {f} : Still(g), Placed(f)', Prepared(f)'
    PROVE  Base'
<1>1. {f} \in SUBSET Folders
  OBVIOUS
<1> QED
  BY <1>1, BaseFramedTables

(***************************************************************************)
(* The first part of the invariant is kept: the IMAP server, sync.         *)
(***************************************************************************)
\* Nothing is there at the start.
LEMMA InitBase == Init => Base
<1> SUFFICES ASSUME Init PROVE Base
  OBVIOUS
<1> USE DEF Init, NoState, NoMessage
<1>1. TypeOK
  BY DEF TypeOK
<1>2. \A f \in Folders : Placed(f) /\ Prepared(f)
  BY DEF Placed, Prepared, MessagePc, ThreadedPc
<1>3. ThreadsExist
  BY DEF ThreadsExist, Stored
<1> QED
  BY <1>1, <1>2, <1>3 DEF Base

\* Deliver appends: the UIDs so far stay.
LEMMA DeliverExtends ==
    ASSUME TypeOK, NEW f \in Folders, NEW m \in Messages, Deliver(f, m)
    PROVE  \A g \in Folders : Extended(g)
<1>1. \A g \in Folders : box[g] \in Seq(Messages)
  BY DEF TypeOK
<1>2. ASSUME NEW g \in Folders
      PROVE  box'[g] = IF g = f THEN Append(box[g], m) ELSE box[g]
  BY DEF Deliver, TypeOK
<1>3. ASSUME NEW g \in Folders PROVE Extended(g)
  <2>1. CASE g = f
    <3>1. box[f] \in Seq(Messages) /\ box'[g] = Append(box[f], m)
      BY <1>1, <1>2, <2>1
    <3>2. /\ Len(box'[g]) = Len(box[f]) + 1 /\ Len(box[f]) \in Nat
          /\ \A u \in 1..Len(box[f]) : box'[g][u] = box[f][u]
      BY <3>1, AppendProperties
    <3> QED
      BY <2>1, <3>2 DEF Extended
  <2>2. CASE g # f
    <3>1. Len(box[g]) \in Nat /\ box'[g] = box[g]
      BY <1>1, <1>2, <2>2
    <3> QED
      BY <3>1 DEF Extended
  <2> QED
    BY <2>1, <2>2
<1> QED
  BY <1>3

\* Deliver.
LEMMA DeliverBase ==
    ASSUME Base, NEW f \in Folders, NEW m \in Messages, Deliver(f, m)
    PROVE  Base'
<1> USE DEF Base
<1>1. TypeOK'
  <2>1. Append(box[f], m) \in Seq(Messages)
    BY DEF TypeOK
  <2>2. box' \in [Folders -> Seq(Messages)]
    BY <2>1 DEF TypeOK, Deliver
  <2> QED
    BY <2>2 DEF TypeOK, Deliver, mailVars, tagVars, addVars, localVars
<1>2. \A g \in Folders : Extended(g)
  BY DeliverExtends
<1>3. \A g \in Folders : Still(g)
  BY <1>2 DEF Still, Deliver, localVars
<1>4. UNCHANGED mailVars
  BY DEF Deliver
<1> QED
  BY <1>1, <1>3, <1>4, BaseFramedTables, {} \in SUBSET Folders

\* A worker that is cut off holds nothing.
LEMMA CutFramed ==
    ASSUME TypeOK, NEW F \in SUBSET Folders, Cut(F), \A g \in Folders \ F : Extended(g)
    PROVE  /\ \A f \in F : Placed(f)' /\ Prepared(f)'
           /\ \A g \in Folders \ F : Still(g)
           /\ pc' \in [Folders -> MessagePc \cup {"down", "get_state", "next", "idle"}]
           /\ sel' \in [Folders -> Nat] /\ highest' \in [Folders -> Nat]
           /\ todo' \in [Folders -> SUBSET Nat] /\ cur' \in [Folders -> Nat]
           /\ thr' \in [Folders -> Messages \cup {None}]
           /\ res' \in [Folders -> Grantees \cup {None}]
           /\ bySender' \in [Folders -> BOOLEAN]
           /\ batch' \in [Folders -> SUBSET Messages]
<1> USE DEF Cut, ForgetLocals
<1>1. \A f \in F : Placed(f)' /\ Prepared(f)'
  BY DEF Placed, Prepared, MessagePc, ThreadedPc
<1>2. \A g \in Folders \ F : Still(g)
  BY DEF Still
<1> QED
  BY <1>1, <1>2 DEF TypeOK

\* What Cut puts on record are messages.
LEMMA PromotingType ==
    ASSUME Base, NEW F \in SUBSET Folders
    PROVE  Promoting(F) \subseteq Messages
BY HandlingType DEF Promoting, Base, MessagePc

\* Rebuild: the folder's worker starts over.
LEMMA RebuildBase ==
    ASSUME Base, NEW f \in Folders, Rebuild(f)
    PROVE  Base'
<1> USE DEF Base
<1>1. Cut({f}) /\ UNCHANGED <<state, mailVars, tagVars, failed, stale>>
  BY DEF Rebuild
<1>2. box' \in [Folders -> Seq(Messages)] /\ \A g \in Folders \ {f} : Extended(g)
  <2>1. PICK s \in [1..Len(box[f]) -> Delivered(f)] : box' = [box EXCEPT ![f] = s]
    BY DEF Rebuild
  <2>2. box[f] \in Seq(Messages)
    BY DEF TypeOK
  <2>3. Len(box[f]) \in Nat /\ Delivered(f) \subseteq Messages
    BY <2>2 DEF Delivered
  <2>4. s \in Seq(Messages)
    BY <2>3, IsASeq
  <2>5. \A g \in Folders : Len(box[g]) \in Nat
    BY DEF TypeOK
  <2> QED
    BY <2>1, <2>4, <2>5 DEF TypeOK, Extended
<1>3. validity' \in [Folders -> Nat]
  BY DEF Rebuild, TypeOK
<1>4. lost' \subseteq Messages
  BY <1>1, PromotingType DEF Cut, TypeOK
<1>5. TypeOK'
  BY <1>1, <1>2, <1>3, <1>4, CutFramed DEF TypeOK, mailVars, tagVars, addVars
<1>6. {f} \in SUBSET Folders
  OBVIOUS
<1>7. /\ \A g \in Folders \ {f} : Still(g)
      /\ Placed(f)' /\ Prepared(f)'
  BY <1>1, <1>2, <1>6, CutFramed
<1> QED
  BY <1>1, <1>5, <1>7, LocalStep

\* SessionEnds and Crash.
LEMMA CutBase ==
    ASSUME Base, NEW F \in SUBSET Folders, Cut(F),
           UNCHANGED <<imapVars, state, mailVars, tagVars, failed, stale>>
    PROVE  Base'
<1> USE DEF Base
<1>1. \A g \in Folders : Extended(g)
  BY Untouched DEF imapVars
<1>2. lost' \subseteq Messages
  BY PromotingType DEF Cut, TypeOK
<1>3. TypeOK'
  BY <1>1, <1>2, CutFramed DEF TypeOK, imapVars, mailVars, tagVars, addVars
<1> QED
  BY <1>1, <1>3, CutFramed, BaseFramedTables

\* Select and Changed.
LEMMA SelectBase ==
    ASSUME Base, NEW f \in Folders, Select(f) \/ Changed(f)
    PROVE  Base'
<1> USE DEF Base, Select, Changed, Goto, imapVars, localVars
<1>1. TypeOK'
  BY DEF TypeOK, mailVars, tagVars, addVars
<1>2. \A g \in Folders \ {f} : Still(g)
  BY Untouched DEF Still, TypeOK
<1>3. Placed(f)' /\ Prepared(f)'
  BY DEF TypeOK, Placed, Prepared, MessagePc, ThreadedPc
<1>4. UNCHANGED mailVars
  OBVIOUS
<1> QED
  BY <1>1, <1>2, <1>3, <1>4, LocalStep

\* GetMailboxState: what it fetches are UIDs.
LEMMA GetMailboxStateBase ==
    ASSUME Base, NEW f \in Folders, GetMailboxState(f)
    PROVE  Base'
<1> USE DEF Base, GetMailboxState, Goto, imapVars
<1>1. LastUID(f) \in Nat /\ Fetched(f) \subseteq 1..Len(box[f])
  BY DEF LastUID, Fetched, TypeOK
<1>2. TypeOK'
  BY <1>1 DEF TypeOK, mailVars, tagVars, addVars
<1>3. \A g \in Folders \ {f} : Still(g)
  BY Untouched DEF Still, TypeOK
<1>4. Placed(f)' /\ Prepared(f)'
  BY <1>1 DEF TypeOK, Placed, Prepared, MessagePc, ThreadedPc
<1>5. UNCHANGED mailVars
  OBVIOUS
<1> QED
  BY <1>2, <1>3, <1>4, <1>5, LocalStep

\* NextMessage: a UID that was fetched.
LEMMA NextMessageBase ==
    ASSUME Base, NEW f \in Folders, NextMessage(f)
    PROVE  Base'
<1> USE DEF Base, Goto, imapVars
<1>1. PICK u \in todo[f] :
         /\ cur' = [cur EXCEPT ![f] = u]
         /\ todo' = [todo EXCEPT ![f] = @ \ {u}]
         /\ Goto(f, IF box[f][u] \in NoHeaderId \ Unparsable THEN "find_root" ELSE "exists")
  BY DEF NextMessage
<1>2. /\ UNCHANGED <<imapVars, state, mailVars, tagVars, sel, highest, thr, res, bySender,
                     batch, failed, stale, lost>>
      /\ u \in 1..Len(box[f]) /\ u \in Nat
      /\ pc[f] = "next"
  BY DEF NextMessage, Placed
<1>3. TypeOK'
  BY <1>1, <1>2 DEF TypeOK, mailVars, tagVars, addVars, MessagePc
<1>4. \A g \in Folders \ {f} : Still(g)
  BY <1>1, <1>2, Untouched DEF Still, TypeOK
<1>5. Placed(f)' /\ Prepared(f)'
  BY <1>1, <1>2 DEF TypeOK, Placed, Prepared, MessagePc, ThreadedPc
<1> QED
  BY <1>2, <1>3, <1>4, <1>5, LocalStep

\* SaveMailboxState.
LEMMA SaveMailboxStateBase ==
    ASSUME Base, NEW f \in Folders, SaveMailboxState(f)
    PROVE  Base'
<1> USE DEF Base, SaveMailboxState, Goto, imapVars, localVars
<1>1. TypeOK'
  BY DEF TypeOK, mailVars, tagVars, addVars
<1>2. \A g \in Folders \ {f} : Still(g)
  BY Untouched DEF Still, TypeOK
<1>3. Placed(f)' /\ Prepared(f)'
  BY DEF TypeOK, Placed, Prepared, MessagePc, ThreadedPc
<1>4. UNCHANGED mailVars
  OBVIOUS
<1> QED
  BY <1>1, <1>2, <1>3, <1>4, LocalStep

(***************************************************************************)
(* The first part of the invariant is kept: handleMessage.                 *)
(***************************************************************************)
\* handleMessage returns: the worker holds no message any more.
LEMMA Returns ==
    ASSUME Base, NEW f \in Folders, pc[f] \in MessagePc, Handled(f) \/ GiveUp(f), UNCHANGED box
    PROVE  /\ Placed(f)' /\ Prepared(f)'
           /\ \A g \in Folders \ {f} : Still(g)
           /\ pc' \in [Folders -> MessagePc \cup {"down", "get_state", "next", "idle"}]
           /\ sel' \in [Folders -> Nat] /\ highest' \in [Folders -> Nat]
           /\ todo' \in [Folders -> SUBSET Nat] /\ cur' \in [Folders -> Nat]
           /\ thr' \in [Folders -> Messages \cup {None}]
           /\ res' \in [Folders -> Grantees \cup {None}]
           /\ bySender' \in [Folders -> BOOLEAN]
           /\ batch' \in [Folders -> SUBSET Messages]
           /\ failed' \subseteq Folders \X Messages
<1> USE DEF Base, Handled, GiveUp, ForgetMessage, Goto
<1>1. \A g \in Folders \ {f} : Still(g)
  BY Untouched DEF Still, TypeOK
<1>2. Placed(f)' /\ Prepared(f)'
  BY DEF TypeOK, Placed, Prepared, MessagePc, ThreadedPc
<1>3. failed' \subseteq Folders \X Messages
  <2>1. <<f, Handling(f)>> \in Folders \X Messages
    BY HandlingType
  <2>2. failed' = failed \/ failed' = failed \cup {<<f, Handling(f)>>}
    OBVIOUS
  <2> QED
    BY <2>1, <2>2 DEF TypeOK
<1>4. highest' \in [Folders -> Nat] /\ sel' \in [Folders -> Nat] /\ todo' \in [Folders -> SUBSET Nat]
  BY DEF TypeOK
<1>5. /\ pc' = [pc EXCEPT ![f] = "next"]
      /\ cur' = [cur EXCEPT ![f] = 0]
      /\ thr' = [thr EXCEPT ![f] = None]
      /\ res' = [res EXCEPT ![f] = None]
      /\ bySender' = [bySender EXCEPT ![f] = FALSE]
      /\ batch' = [batch EXCEPT ![f] = {}]
  OBVIOUS
<1>6. /\ pc' \in [Folders -> MessagePc \cup {"down", "get_state", "next", "idle"}]
      /\ cur' \in [Folders -> Nat]
      /\ thr' \in [Folders -> Messages \cup {None}]
      /\ res' \in [Folders -> Grantees \cup {None}]
      /\ bySender' \in [Folders -> BOOLEAN]
      /\ batch' \in [Folders -> SUBSET Messages]
  BY <1>5 DEF TypeOK
<1> QED
  BY <1>1, <1>2, <1>3, <1>4, <1>6

\* CallFails.
LEMMA CallFailsBase ==
    ASSUME Base, NEW f \in Folders, CallFails(f)
    PROVE  Base'
<1> USE DEF Base, CallFails, CallLost, imapVars
<1>1. lost' \subseteq Messages
  BY PromotingType DEF TypeOK
<1>2. TypeOK'
  BY <1>1, Returns DEF TypeOK, mailVars, tagVars, addVars
<1> QED
  BY <1>2, Returns, LocalStep

\* MessageExistsByID.
LEMMA MessageExistsBase ==
    ASSUME Base, NEW f \in Folders, MessageExistsByID(f)
    PROVE  Base'
<1> USE DEF Base, imapVars
<1>1. /\ pc[f] = "exists" /\ pc[f] \in MessagePc
      /\ UNCHANGED <<box, validity, state, mailVars, tagVars, stale, lost>>
  BY DEF MessageExistsByID, MessagePc
<1>2. CASE Handled(f) \/ GiveUp(f)
  <2>1. TypeOK'
    BY <1>1, <1>2, Returns DEF TypeOK, mailVars, tagVars, addVars
  <2> QED
    BY <1>1, <1>2, <2>1, Returns, LocalStep
<1>3. CASE Proceed(f, "find_root") /\ UNCHANGED localVars
  <2> USE <1>1, <1>3 DEF Proceed, Goto, localVars
  <2>1. TypeOK'
    BY DEF TypeOK, mailVars, tagVars, addVars, MessagePc
  <2>2. \A g \in Folders \ {f} : Still(g)
    BY Untouched DEF Still, TypeOK
  <2>3. Placed(f)' /\ Prepared(f)'
    BY DEF TypeOK, Placed, Prepared, MessagePc, ThreadedPc
  <2> QED
    BY <2>1, <2>2, <2>3, LocalStep
<1> QED
  BY <1>2, <1>3 DEF MessageExistsByID

\* The calls that find a thread: the one they find exists.
LEMMA FindThreadBase ==
    ASSUME Base, NEW f \in Folders,
           FindThreadByRoot(f) \/ FindThreadByMember(f) \/ FindThreadAgain(f)
    PROVE  Base'
<1> USE DEF Base, imapVars, Proceed, Goto
<1>1. /\ pc[f] \in {"find_root", "find_member", "find_again"} /\ pc[f] \in MessagePc
      /\ UNCHANGED <<imapVars, state, mailVars, tagVars, sel, highest, todo, cur, res,
                     bySender, batch, failed, stale, lost>>
  BY DEF FindThreadByRoot, FindThreadByMember, FindThreadAgain, MessagePc
<1>2. \/ /\ pc' = [pc EXCEPT ![f] = "find_member"] \/ pc' = [pc EXCEPT ![f] = "create"]
         /\ UNCHANGED thr
      \/ \E t \in Messages :
            /\ thread[t] # Absent
            /\ thr' = [thr EXCEPT ![f] = t]
            /\ pc' = [pc EXCEPT ![f] = "lookup"]
  <2>1. /\ ThreadCandidates(Handling(f)) \subseteq Messages
        /\ Root(Handling(f)) \in Messages
    BY <1>1, HandlingType, CandidatesType
  <2>2. CASE FindThreadByRoot(f)
    BY <2>1, <2>2 DEF FindThreadByRoot
  <2>3. CASE FindThreadByMember(f)
    <3>1. \A m \in Messages : Stored(m) => msgs[m].thread \in Messages
      BY DEF TypeOK, Stored
    <3> QED
      BY <2>1, <2>3, <3>1 DEF FindThreadByMember, ThreadsExist
  <2>4. CASE FindThreadAgain(f)
    BY <2>1, <2>4 DEF FindThreadAgain, Prepared
  <2> QED
    BY <2>2, <2>3, <2>4
<1>3. TypeOK'
  <2>0. thr \in [Folders -> Messages \cup {None}]
    BY DEF TypeOK
  <2>1. thr' \in [Folders -> Messages \cup {None}]
    BY <1>2, <2>0
  <2>2. pc' \in [Folders -> MessagePc \cup {"down", "get_state", "next", "idle"}]
    BY <1>2 DEF TypeOK, MessagePc
  <2> QED
    BY <1>1, <2>1, <2>2 DEF TypeOK, mailVars, tagVars, addVars
<1>4. \A g \in Folders \ {f} : Still(g)
  BY <1>1, <1>2, Untouched DEF Still, TypeOK
<1>5. Placed(f)'
  BY <1>1, <1>2 DEF TypeOK, Placed, MessagePc
<1>6. Prepared(f)'
  BY <1>1, <1>2 DEF TypeOK, Prepared, ThreadedPc, mailVars
<1> QED
  BY <1>1, <1>3, <1>4, <1>5, <1>6, LocalStep

\* Resolve: a tag comes from the sender or from the thread.
LEMMA ResolveBase ==
    ASSUME Base, NEW f \in Folders, LookupGranteeByEmail(f) \/ GetThread(f)
    PROVE  Base'
<1> USE DEF Base, imapVars, Proceed, Goto
<1>1. /\ pc[f] \in ThreadedPc /\ pc[f] \in MessagePc
      /\ UNCHANGED <<imapVars, state, mailVars, tagVars, sel, highest, todo, cur, thr,
                     batch, failed, stale, lost>>
  BY DEF LookupGranteeByEmail, GetThread, MessagePc, ThreadedPc
<1>2. thr[f] \in Messages /\ thread[thr[f]] \in Grantees \cup {None}
  BY <1>1 DEF Prepared, TypeOK
<1>3. senders[From[Handling(f)]] \in Grantees \cup {None}
  BY <1>1, HandlingType, FromAssumption DEF TypeOK
<1>4. \/ /\ pc' = [pc EXCEPT ![f] = "insert"]
         /\ res' = [res EXCEPT ![f] = senders[From[Handling(f)]]]
         /\ senders[From[Handling(f)]] # None
         /\ bySender' = [bySender EXCEPT ![f] = TRUE]
      \/ /\ pc' = [pc EXCEPT ![f] = "get_thread"]
         /\ res' = [res EXCEPT ![f] = None]
         /\ bySender' = [bySender EXCEPT ![f] = FALSE]
      \/ /\ pc' = [pc EXCEPT ![f] = "insert"]
         /\ res' = [res EXCEPT ![f] = thread[thr[f]]]
         /\ bySender' = bySender
         /\ ~bySender[f]
  <2>1. CASE GetThread(f)
    BY <2>1 DEF GetThread, Prepared
  <2>2. CASE LookupGranteeByEmail(f) /\ senders[From[Handling(f)]] # None
    BY <2>2 DEF LookupGranteeByEmail
  <2>3. CASE LookupGranteeByEmail(f) /\ senders[From[Handling(f)]] = None
    BY <2>3 DEF LookupGranteeByEmail
  <2> QED
    BY <2>1, <2>2, <2>3
<1>5. TypeOK'
  BY <1>1, <1>2, <1>3, <1>4 DEF TypeOK, mailVars, tagVars, addVars, MessagePc
<1>6. \A g \in Folders \ {f} : Still(g)
  BY <1>1, <1>4, Untouched DEF Still, TypeOK
<1>7. Placed(f)'
  BY <1>1, <1>4 DEF TypeOK, Placed, MessagePc
<1>8. Prepared(f)'
  BY <1>1, <1>2, <1>4 DEF TypeOK, Prepared, ThreadedPc, mailVars
<1> QED
  BY <1>1, <1>5, <1>6, <1>7, <1>8, LocalStep

\* CreateThread: the root's thread exists, whoever created it.
LEMMA CreateThreadBase ==
    ASSUME Base, NEW f \in Folders, CreateThread(f)
    PROVE  Base'
<1> USE DEF Base, imapVars
<1>1. /\ pc[f] = "create" /\ pc[f] \in MessagePc
      /\ UNCHANGED <<box, validity, state, msgs, tagVars, stale, lost>>
  BY DEF CreateThread, MessagePc
<1>2. Root(Handling(f)) \in Messages
  BY <1>1, HandlingType, CandidatesType
<1>3. ASSUME thread[Root(Handling(f))] = Absent,
             thread' = [thread EXCEPT ![Root(Handling(f))] = None]
      PROVE  /\ thread' \in [Messages -> Grantees \cup {None, Absent}]
             /\ thread'[Root(Handling(f))] # Absent
             /\ Grows
             /\ \A m \in Messages : Stored(m)' = Stored(m)
  BY <1>1, <1>2, <1>3, AbsentAssumption DEF TypeOK, Grows, Stored
<1>4. CASE /\ thread[Root(Handling(f))] = Absent
           /\ thread' = [thread EXCEPT ![Root(Handling(f))] = None]
           /\ CallLost(f)
  <2>1. Handled(f) \/ GiveUp(f)
    BY <1>4 DEF CallLost
  <2>2. TypeOK'
    BY <1>1, <1>3, <1>4, <2>1, Returns DEF TypeOK, tagVars, addVars
  <2>3. /\ Placed(f)' /\ Prepared(f)'
        /\ \A g \in Folders \ {f} : Still(g)
    BY <1>1, <2>1, Returns
  <2>4. {f} \in SUBSET Folders
    OBVIOUS
  <2> QED
    BY <1>3, <1>4, <2>2, <2>3, <2>4, BaseFramed
<1>5. CASE /\ thread[Root(Handling(f))] = Absent
           /\ thread' = [thread EXCEPT ![Root(Handling(f))] = None]
           /\ thr' = [thr EXCEPT ![f] = Root(Handling(f))]
           /\ Proceed(f, "lookup")
           /\ UNCHANGED <<sel, highest, todo, cur, res, bySender, batch>>
  <2> USE <1>5 DEF Proceed, Goto
  <2>1. TypeOK'
    BY <1>1, <1>2, <1>3 DEF TypeOK, tagVars, addVars, MessagePc
  <2>2. \A g \in Folders \ {f} : Still(g)
    BY <1>1, Untouched DEF Still, TypeOK
  <2>3. Placed(f)'
    BY <1>1 DEF TypeOK, Placed, MessagePc
  <2>4. Prepared(f)'
    BY <1>1, <1>2, <1>3 DEF TypeOK, Prepared, ThreadedPc
  <2>5. {f} \in SUBSET Folders
    OBVIOUS
  <2> QED
    BY <1>3, <2>1, <2>2, <2>3, <2>4, <2>5, BaseFramed
<1>6. CASE /\ thread[Root(Handling(f))] # Absent
           /\ Proceed(f, "find_again")
           /\ UNCHANGED <<thread, localVars>>
  <2> USE <1>1, <1>6 DEF Proceed, Goto, localVars, mailVars
  <2>1. TypeOK'
    BY DEF TypeOK, tagVars, addVars, MessagePc
  <2>2. \A g \in Folders \ {f} : Still(g)
    BY Untouched DEF Still, TypeOK
  <2>3. Placed(f)'
    BY DEF TypeOK, Placed, MessagePc
  <2>4. Handling(f)' = Handling(f)
    BY DEF Handling
  <2>5. Prepared(f)'
    BY <2>4 DEF TypeOK, Prepared, ThreadedPc
  <2> QED
    BY <2>1, <2>2, <2>3, <2>5, LocalStep
<1> QED
  BY <1>4, <1>5, <1>6 DEF CreateThread

\* The row InsertMessage leaves under the Message-ID.
LEMMA InsertedEffect ==
    ASSUME Base, NEW f \in Folders, pc[f] = "insert", Inserted(f), UNCHANGED thread
    PROVE  /\ Handling(f) \in Messages /\ thr[f] \in Messages
           /\ msgs' \in [Messages -> [thread : Messages \cup {None}, grantee : Grantees \cup {None}]]
           /\ stale' \subseteq Messages /\ stale \subseteq stale'
           /\ Grows
           /\ msgs'[Handling(f)].thread # None
           /\ \A m \in Messages : Stored(m) \/ m # Handling(f) => msgs'[m] = msgs[m]
           /\ ~Stored(Handling(f)) => msgs'[Handling(f)] = [thread |-> thr[f], grantee |-> res[f]]
           /\ \A m \in Messages : ~Stored(m) /\ Stored(m)' => thread'[msgs'[m].thread] # Absent
<1> USE DEF Base
<1>1. Handling(f) \in Messages
  BY HandlingType DEF MessagePc
<1>2. thr[f] \in Messages /\ thread[thr[f]] # Absent /\ thr[f] # None
  BY NoneAssumption DEF Prepared, ThreadedPc
<1>3. res[f] \in Grantees \cup {None}
  BY DEF TypeOK
<1>4. CASE Stored(Handling(f))
  BY <1>1, <1>2, <1>4 DEF Inserted, TypeOK, Grows, Stored
<1>5. CASE ~Stored(Handling(f))
  <2>1. msgs' = [msgs EXCEPT ![Handling(f)] = [thread |-> thr[f], grantee |-> res[f]]]
    BY <1>5 DEF Inserted
  <2>2. /\ \A m \in Messages : m # Handling(f) => msgs'[m] = msgs[m]
        /\ msgs'[Handling(f)] = [thread |-> thr[f], grantee |-> res[f]]
    BY <1>1, <2>1 DEF TypeOK
  <2>3. msgs' \in [Messages -> [thread : Messages \cup {None}, grantee : Grantees \cup {None}]]
    BY <1>1, <1>2, <1>3, <2>1 DEF TypeOK
  <2>4. stale' \subseteq Messages /\ stale \subseteq stale'
    BY <1>1, <1>5 DEF Inserted, TypeOK
  <2>5. \A m \in Messages : ~Stored(m) /\ Stored(m)' => thread'[msgs'[m].thread] # Absent
    BY <1>2, <2>2 DEF Stored
  <2>6. Grows
    BY <1>5, <2>2 DEF Grows, Stored
  <2> QED
    BY <1>1, <1>2, <1>5, <2>2, <2>3, <2>4, <2>5, <2>6
<1> QED
  BY <1>4, <1>5

\* InsertMessage.
LEMMA InsertMessageBase ==
    ASSUME Base, NEW f \in Folders, InsertMessage(f)
    PROVE  Base'
<1> USE DEF Base, imapVars
<1>1. /\ pc[f] = "insert" /\ pc[f] \in MessagePc /\ Inserted(f)
      /\ UNCHANGED <<box, validity, state, thread, tagVars>>
  BY DEF InsertMessage, MessagePc
<1>2. /\ msgs' \in [Messages -> [thread : Messages \cup {None}, grantee : Grantees \cup {None}]]
      /\ stale' \subseteq Messages
      /\ Grows
      /\ msgs'[Handling(f)].thread # None
      /\ Handling(f) \in Messages
      /\ \A m \in Messages : ~Stored(m) /\ Stored(m)' => thread'[msgs'[m].thread] # Absent
  BY <1>1, InsertedEffect
<1>3. {f} \in SUBSET Folders
  OBVIOUS
<1>4. CASE /\ CallLost(f)
           /\ lost' = IF bySender[f] THEN lost \cup {Handling(f)} ELSE lost
  <2>1. Handled(f) \/ GiveUp(f)
    BY <1>4 DEF CallLost
  <2>2. lost' \subseteq Messages
    BY <1>2, <1>4 DEF TypeOK
  <2>3. TypeOK'
    BY <1>1, <1>2, <2>1, <2>2, Returns DEF TypeOK, tagVars, addVars
  <2>4. /\ Placed(f)' /\ Prepared(f)'
        /\ \A g \in Folders \ {f} : Still(g)
    BY <1>1, <2>1, Returns
  <2> QED
    BY <1>2, <1>3, <2>3, <2>4, BaseFramed
<1>5. CASE /\ Proceed(f, IF bySender[f] THEN "promote" ELSE "touch")
           /\ UNCHANGED <<localVars, lost>>
  <2> USE <1>5 DEF Proceed, Goto, localVars
  <2>1. TypeOK'
    BY <1>1, <1>2 DEF TypeOK, tagVars, addVars, MessagePc
  <2>2. \A g \in Folders \ {f} : Still(g)
    BY <1>1, Untouched DEF Still, TypeOK
  <2>3. Placed(f)'
    BY <1>1 DEF TypeOK, Placed, MessagePc
  <2>4. Handling(f)' = Handling(f)
    BY <1>1 DEF Handling
  <2>5. Prepared(f)'
    BY <1>1, <1>2, <2>4 DEF TypeOK, Prepared, ThreadedPc, Stored
  <2> QED
    BY <1>2, <1>3, <2>1, <2>2, <2>3, <2>5, BaseFramed
<1> QED
  BY <1>4, <1>5 DEF InsertMessage

\* The back-fill tags those of the messages found that are still untagged, and moves none.
LEMMA TagMessagesEffect ==
    ASSUME TypeOK, NEW g \in Grantees, NEW M, msgs' = TagMessages(M, g)
    PROVE  /\ msgs' \in [Messages -> [thread : Messages \cup {None}, grantee : Grantees \cup {None}]]
           /\ \A m \in Messages :
                 /\ msgs'[m].thread = msgs[m].thread
                 /\ msgs'[m].grantee = IF m \in M /\ msgs[m].grantee = None
                                       THEN g ELSE msgs[m].grantee
<1>1. ASSUME NEW m \in Messages
      PROVE  /\ msgs'[m] \in [thread : Messages \cup {None}, grantee : Grantees \cup {None}]
             /\ msgs'[m].thread = msgs[m].thread
             /\ msgs'[m].grantee = IF m \in M /\ msgs[m].grantee = None
                                   THEN g ELSE msgs[m].grantee
  BY DEF TagMessages, TypeOK
<1>2. msgs' = [m \in Messages |-> msgs'[m]]
  BY DEF TagMessages
<1> QED
  BY <1>1, <1>2

\* SetThreadGrantee: the thread is written, and the mail to tag is found.
LEMMA SetThreadGranteeBase ==
    ASSUME Base, NEW f \in Folders, SetThreadGrantee(f)
    PROVE  Base'
<1> USE DEF Base, imapVars
<1>1. /\ pc[f] = "promote" /\ pc[f] \in MessagePc
      /\ batch' = [batch EXCEPT ![f] = UntaggedIn({thr[f]})]
      /\ pc' = [pc EXCEPT ![f] = "commit"]
      /\ UNCHANGED <<box, validity, state, mailVars, tagVars, sel, highest, todo, cur, thr, res,
                     bySender, failed, stale, lost>>
  BY DEF SetThreadGrantee, Proceed, Goto, MessagePc
<1>2. batch' \in [Folders -> SUBSET Messages]
  BY <1>1 DEF TypeOK, UntaggedIn
<1>3. pc' \in [Folders -> MessagePc \cup {"down", "get_state", "next", "idle"}]
  BY <1>1 DEF TypeOK, MessagePc
<1>4. TypeOK'
  BY <1>1, <1>2, <1>3 DEF TypeOK, mailVars, tagVars, addVars
<1>5. \A g \in Folders \ {f} : Still(g)
  BY <1>1, Untouched DEF Still, TypeOK
<1>6. Placed(f)'
  BY <1>1 DEF TypeOK, Placed, MessagePc
<1>7. Handling(f)' = Handling(f)
  BY <1>1 DEF Handling
<1>8. Prepared(f)'
  BY <1>1, <1>7 DEF TypeOK, Prepared, ThreadedPc, mailVars, Stored
<1> QED
  BY <1>1, <1>4, <1>5, <1>6, <1>8, LocalStep

\* What PromoteThread commits: a tag on a thread that exists, and its back-fill.
LEMMA PromoteThreadEffect ==
    ASSUME Base, NEW f \in Folders, PromoteThread(f)
    PROVE  /\ thr[f] \in Messages /\ thread[thr[f]] # Absent /\ res[f] \in Grantees
           /\ thread' \in [Messages -> Grantees \cup {None, Absent}]
           /\ thread'[thr[f]] \in Grantees
           /\ \A s \in Messages : s # thr[f] => thread'[s] = thread[s]
           /\ thread[thr[f]] = None => thread'[thr[f]] = res[f]
           /\ msgs' \in [Messages -> [thread : Messages \cup {None}, grantee : Grantees \cup {None}]]
           /\ \A m \in Messages :
                 /\ msgs'[m].thread = msgs[m].thread
                 /\ msgs'[m].grantee = IF m \in batch[f] /\ msgs[m].grantee = None
                                       THEN res[f] ELSE msgs[m].grantee
           /\ Grows
           /\ \A m \in Messages : Stored(m)' = Stored(m)
<1> USE DEF Base
<1>1. /\ pc[f] = "commit" /\ msgs' = TagMessages(batch[f], res[f])
      /\ thread' = [thread EXCEPT ![thr[f]] = IF @ = None THEN res[f] ELSE @]
  BY DEF PromoteThread
<1>2. thr[f] \in Messages /\ thread[thr[f]] # Absent /\ res[f] \in Grantees
  BY <1>1 DEF Prepared, ThreadedPc, TypeOK
<1>3. /\ thread' \in [Messages -> Grantees \cup {None, Absent}]
      /\ thread'[thr[f]] \in Grantees
      /\ \A s \in Messages : s # thr[f] => thread'[s] = thread[s]
      /\ thread[thr[f]] = None => thread'[thr[f]] = res[f]
      /\ thread[thr[f]] \in Grantees => thread'[thr[f]] = thread[thr[f]]
  BY <1>1, <1>2, NoneAssumption, AbsentAssumption DEF TypeOK
<1>4. /\ msgs' \in [Messages -> [thread : Messages \cup {None}, grantee : Grantees \cup {None}]]
      /\ \A m \in Messages :
            /\ msgs'[m].thread = msgs[m].thread
            /\ msgs'[m].grantee = IF m \in batch[f] /\ msgs[m].grantee = None
                                  THEN res[f] ELSE msgs[m].grantee
  BY <1>1, <1>2, TagMessagesEffect
<1>5. Grows
  BY <1>2, <1>3, <1>4, AbsentAssumption DEF Grows
<1> QED
  BY <1>2, <1>3, <1>4, <1>5 DEF Stored

\* PromoteThread.
LEMMA PromoteThreadBase ==
    ASSUME Base, NEW f \in Folders, PromoteThread(f)
    PROVE  Base'
<1> USE DEF Base, imapVars
<1>1. /\ pc[f] = "commit" /\ pc[f] \in MessagePc
      /\ UNCHANGED <<box, validity, state, tagVars, stale, lost>>
  BY DEF PromoteThread, MessagePc
<1>2. thr[f] \in Messages /\ thread[thr[f]] # Absent /\ res[f] \in Grantees
  BY <1>1 DEF Prepared, ThreadedPc, TypeOK
<1>3. /\ thread' \in [Messages -> Grantees \cup {None, Absent}]
      /\ msgs' \in [Messages -> [thread : Messages \cup {None}, grantee : Grantees \cup {None}]]
      /\ Grows
      /\ \A m \in Messages : Stored(m)' = Stored(m)
  BY PromoteThreadEffect
<1>4. {f} \in SUBSET Folders
  OBVIOUS
<1>5. CASE CallLost(f)
  <2>1. Handled(f) \/ GiveUp(f)
    BY <1>5 DEF CallLost
  <2>2. TypeOK'
    BY <1>1, <1>3, <2>1, Returns DEF TypeOK, tagVars, addVars
  <2>3. /\ Placed(f)' /\ Prepared(f)'
        /\ \A g \in Folders \ {f} : Still(g)
    BY <1>1, <2>1, Returns
  <2> QED
    BY <1>3, <1>4, <2>2, <2>3, BaseFramed
<1>6. CASE /\ Proceed(f, "touch")
           /\ batch' = [batch EXCEPT ![f] = {}]
           /\ UNCHANGED <<sel, highest, todo, cur, thr, res, bySender>>
  <2> USE <1>6 DEF Proceed, Goto
  <2>0. batch' \in [Folders -> SUBSET Messages]
    BY DEF TypeOK
  <2>1. TypeOK'
    BY <1>1, <1>3, <2>0 DEF TypeOK, tagVars, addVars, MessagePc
  <2>2. \A g \in Folders \ {f} : Still(g)
    BY <1>1, Untouched DEF Still, TypeOK
  <2>3. Placed(f)'
    BY <1>1 DEF TypeOK, Placed, MessagePc
  <2>4. Handling(f)' = Handling(f) /\ Handling(f) \in Messages
    BY <1>1, HandlingType DEF Handling
  <2>5. msgs'[Handling(f)'].thread # None
    BY <1>1, <1>3, <2>4 DEF Prepared, Stored
  <2>6. Prepared(f)'
    BY <1>1, <1>2, <1>3, <2>5 DEF TypeOK, Prepared, ThreadedPc, Stored, Grows
  <2> QED
    BY <1>3, <1>4, <2>1, <2>2, <2>3, <2>6, BaseFramed
<1> QED
  BY <1>5, <1>6 DEF PromoteThread

\* TouchThread.
LEMMA TouchThreadBase ==
    ASSUME Base, NEW f \in Folders, TouchThread(f)
    PROVE  Base'
<1> USE DEF Base, TouchThread, imapVars, MessagePc
<1>1. TypeOK'
  BY Returns DEF TypeOK, mailVars, tagVars, addVars
<1> QED
  BY <1>1, Returns, LocalStep

(***************************************************************************)
(* The second part of the invariant: open transactions.                    *)
(***************************************************************************)
\* The threads AddGranteeEmail found hold mail from the address.  Once it has written
\* them nobody else does, and the mail it found is in them or in the grantee's threads.
TransactionOK(a) ==
    /\ adding[a] # "none" =>
          /\ addFor[a] \in Grantees
          /\ \A t \in addThreads[a] : \E n \in Messages : msgs[n].thread = t /\ From[n] = a
    /\ adding[a] = "messages" =>
          /\ \A t \in addThreads[a] : thread[t] = None
          /\ \A m \in addMail[a] :
                /\ Stored(m)
                /\ msgs[m].thread \in addThreads[a] \/ thread[msgs[m].thread] = addFor[a]

\* A transaction of AddGranteeEmail has written thread t.
WrittenFor(a, t) == adding[a] = "messages" /\ t \in addThreads[a]

\* SetThreadGrantee has written its thread, which AddGranteeEmail has not, and found
\* mail of that thread.
CommitOK(f) ==
    pc[f] = "commit" =>
        /\ \A a \in Senders : ~WrittenFor(a, thr[f])
        /\ \A m \in batch[f] : msgs[m].thread = thr[f]

\* A thread has one writer.
Isolated ==
    /\ \A a \in Senders : TransactionOK(a)
    /\ \A a, b \in Senders, t \in Messages : WrittenFor(a, t) /\ WrittenFor(b, t) => a = b
    /\ \A f \in Folders : CommitOK(f)

(***************************************************************************)
(* The first part of the invariant is kept: authorizing a sender.          *)
(***************************************************************************)
\* AddGranteeEmail, TagThreads and Rollback write nothing others see.
LEMMA OpenTransactionBase ==
    ASSUME Base, NEW a \in Senders, NEW g \in Grantees,
           AddGranteeEmail(g, a) \/ TagThreads(a) \/ Rollback(a)
    PROVE  Base'
<1> USE DEF Base
<1>1. UNCHANGED <<imapVars, state, mailVars, senders, granted, pc, localVars, failed, stale, lost>>
  BY DEF AddGranteeEmail, TagThreads, Rollback, EndTransaction
<1>2. /\ adding' \in [Senders -> {"none", "threads", "messages"}]
      /\ addFor' \in [Senders -> Grantees \cup {None}]
      /\ addThreads' \in [Senders -> SUBSET Messages]
      /\ addMail' \in [Senders -> SUBSET Messages]
  <2>1. CASE AddGranteeEmail(g, a)
    <3>1. ThreadsFrom(a) \subseteq Messages
      BY DEF ThreadsFrom
    <3> QED
      BY <2>1, <3>1 DEF AddGranteeEmail, TypeOK
  <2>2. CASE TagThreads(a)
    <3>1. \A T : MailOf(addFor[a], T) \subseteq Messages
      BY DEF MailOf, UntaggedIn
    <3> QED
      BY <2>2, <3>1 DEF TagThreads, TypeOK
  <2>3. CASE Rollback(a)
    BY <2>3 DEF Rollback, EndTransaction, TypeOK
  <2> QED
    BY <2>1, <2>2, <2>3
<1>3. TypeOK'
  BY <1>1, <1>2 DEF TypeOK, imapVars, mailVars, localVars
<1>4. \A f \in Folders : Still(f)
  BY <1>1, Untouched DEF Still, imapVars, localVars
<1> QED
  BY <1>1, <1>3, <1>4, BaseFramedTables, {} \in SUBSET Folders

\* What AddGranteeEmail commits: tags on threads nobody else has written, and the
\* back-fill.
LEMMA CommitEffect ==
    ASSUME Base, Isolated, NEW a \in Senders, CommitAuthorization(a)
    PROVE  /\ addFor[a] \in Grantees
           /\ thread' \in [Messages -> Grantees \cup {None, Absent}]
           /\ msgs' \in [Messages -> [thread : Messages \cup {None}, grantee : Grantees \cup {None}]]
           /\ senders' \in [Senders -> Grantees \cup {None}]
           /\ granted' \subseteq Senders \X Grantees
           /\ Grows
           /\ \A t \in Messages : thread'[t] = IF t \in addThreads[a] THEN addFor[a] ELSE thread[t]
           /\ \A m \in Messages :
                 /\ msgs'[m].thread = msgs[m].thread
                 /\ msgs'[m].grantee = IF m \in addMail[a] /\ msgs[m].grantee = None
                                       THEN addFor[a] ELSE msgs[m].grantee
<1> USE DEF Base, CommitAuthorization
<1>1. adding[a] = "messages" /\ addFor[a] \in Grantees
  BY DEF Isolated, TransactionOK
<1>2. /\ thread' \in [Messages -> Grantees \cup {None, Absent}]
      /\ \A t \in Messages : thread'[t] = IF t \in addThreads[a] THEN addFor[a] ELSE thread[t]
  BY <1>1 DEF TypeOK
<1>3. senders' \in [Senders -> Grantees \cup {None}]
  BY <1>1 DEF TypeOK
<1>4. granted' \subseteq Senders \X Grantees
  BY <1>1 DEF TypeOK
<1>5. /\ msgs' \in [Messages -> [thread : Messages \cup {None}, grantee : Grantees \cup {None}]]
      /\ \A m \in Messages :
            /\ msgs'[m].thread = msgs[m].thread
            /\ msgs'[m].grantee = IF m \in addMail[a] /\ msgs[m].grantee = None
                                  THEN addFor[a] ELSE msgs[m].grantee
  BY <1>1, TagMessagesEffect
<1>6. \A t \in addThreads[a] : thread[t] = None
  BY <1>1 DEF Isolated, TransactionOK
<1>7. Grows
  BY <1>1, <1>2, <1>5, <1>6, NoneAssumption, AbsentAssumption DEF Grows
<1> QED
  BY <1>1, <1>2, <1>3, <1>4, <1>5, <1>7

\* CommitAuthorization.
LEMMA CommitBase ==
    ASSUME Base, Isolated, NEW a \in Senders, CommitAuthorization(a)
    PROVE  Base'
<1> USE DEF Base
<1>1. UNCHANGED <<imapVars, state, pc, localVars, failed, stale, lost>>
  BY DEF CommitAuthorization, EndTransaction
<1>2. /\ adding' \in [Senders -> {"none", "threads", "messages"}]
      /\ addFor' \in [Senders -> Grantees \cup {None}]
      /\ addThreads' \in [Senders -> SUBSET Messages]
      /\ addMail' \in [Senders -> SUBSET Messages]
  BY DEF CommitAuthorization, EndTransaction, TypeOK
<1>3. TypeOK'
  BY <1>1, <1>2, CommitEffect DEF TypeOK, imapVars, localVars
<1>4. \A f \in Folders : Still(f)
  BY <1>1, Untouched DEF Still, imapVars, localVars
<1>5. Grows /\ \A m \in Messages : Stored(m)' = Stored(m)
  BY CommitEffect DEF Stored
<1> QED
  BY <1>3, <1>4, <1>5, BaseFramed, {} \in SUBSET Folders

\* RemoveGranteeEmail.
LEMMA RemoveGranteeEmailBase ==
    ASSUME Base, NEW a \in Senders, NEW g \in Grantees, RemoveGranteeEmail(g, a)
    PROVE  Base'
<1> USE DEF Base, RemoveGranteeEmail, imapVars, localVars
<1>1. TypeOK'
  BY DEF TypeOK, mailVars, addVars
<1>2. \A f \in Folders : Still(f)
  BY Untouched DEF Still
<1>3. UNCHANGED mailVars
  OBVIOUS
<1> QED
  BY <1>1, <1>2, <1>3, BaseFramedTables, {} \in SUBSET Folders

\* Every step keeps the first part of the invariant.
LEMMA NextBase == Base /\ Isolated /\ [Next]_vars => Base'
<1> SUFFICES ASSUME Base, Isolated, [Next]_vars PROVE Base'
  OBVIOUS
<1>1. CASE UNCHANGED vars
  BY <1>1 DEF vars, imapVars, mailVars, tagVars, addVars, localVars, Base, TypeOK, Placed, Prepared,
     ThreadsExist, Stored, Handling
<1>2. ASSUME NEW f \in Folders, NEW m \in Arriving[f], Deliver(f, m) PROVE Base'
  <2>1. m \in Messages
    BY ArrivingAssumption
  <2> QED
    BY <1>2, <2>1, DeliverBase
<1>3. ASSUME NEW f \in Folders, Rebuild(f) \/ Select(f) \/ Changed(f) PROVE Base'
  BY <1>3, RebuildBase, SelectBase
<1>4. ASSUME NEW f \in Folders, SessionEnds(f) PROVE Base'
  <2>1. {f} \in SUBSET Folders
    OBVIOUS
  <2> QED
    BY <1>4, <2>1, CutBase DEF SessionEnds
<1>5. CASE Crash
  <2>1. Folders \in SUBSET Folders
    OBVIOUS
  <2> QED
    BY <1>5, <2>1, CutBase DEF Crash
<1>6. ASSUME NEW f \in Folders, handleMessage(f) PROVE Base'
  BY <1>6, MessageExistsBase, FindThreadBase, CreateThreadBase, ResolveBase, InsertMessageBase,
     SetThreadGranteeBase, PromoteThreadBase, TouchThreadBase, CallFailsBase DEF handleMessage
<1>7. ASSUME NEW f \in Folders, sync(f) PROVE Base'
  BY <1>6, <1>7, GetMailboxStateBase, NextMessageBase, SaveMailboxStateBase DEF sync
<1>8. ASSUME NEW a \in Senders, NEW g \in Grantees,
             AddGranteeEmail(g, a) \/ RemoveGranteeEmail(g, a)
      PROVE  Base'
  BY <1>8, OpenTransactionBase, RemoveGranteeEmailBase
<1>9. ASSUME NEW a \in Senders, TagThreads(a) \/ CommitAuthorization(a) \/ Rollback(a)
      PROVE  Base'
  <2>1. adding[a] # "none"
    BY <1>9 DEF TagThreads, CommitAuthorization, Rollback
  <2>2. addFor[a] \in Grantees
    BY <2>1 DEF Isolated, TransactionOK
  <2> QED
    BY <1>9, <2>2, OpenTransactionBase, CommitBase
<1> QED
  BY <1>1, <1>2, <1>3, <1>4, <1>5, <1>7, <1>8, <1>9 DEF Next

(***************************************************************************)
(* Steps, by what they do to the workers.                                  *)
(***************************************************************************)
\* handleMessage returns nil for a message that is stored, returns an error, or makes
\* its next call.
LEMMA MessageSteps ==
    ASSUME Base, NEW f \in Folders, handleMessage(f)
    PROVE  /\ pc[f] \in MessagePc
           /\ UNCHANGED <<imapVars, state>>
           /\ \/ /\ pc'[f] \in MessagePc
                 /\ \A g \in Folders \ {f} : Still(g)
                 /\ UNCHANGED <<sel, highest, todo, cur, failed>>
              \/ Handled(f) /\ Stored(Handling(f))
              \/ GiveUp(f)
<1> USE DEF Base
<1>1. pc[f] \in MessagePc /\ UNCHANGED <<imapVars, state>>
  BY DEF handleMessage, MessageExistsByID, FindThreadByRoot, FindThreadByMember, CreateThread,
     FindThreadAgain, LookupGranteeByEmail, GetThread, InsertMessage, SetThreadGrantee, PromoteThread,
     TouchThread, CallFails, MessagePc
<1>2. ASSUME NEW p \in MessagePc, pc' = [pc EXCEPT ![f] = p], UNCHANGED <<sel, highest, todo, cur, failed>>,
             UNCHANGED batch \/ \E M : batch' = [batch EXCEPT ![f] = M],
             \/ UNCHANGED <<thr, res, bySender>>
             \/ UNCHANGED <<res, bySender>> /\ \E t : thr' = [thr EXCEPT ![f] = t]
             \/ UNCHANGED <<thr, bySender>> /\ \E t : res' = [res EXCEPT ![f] = t]
             \/ UNCHANGED thr /\ \E t, b : res' = [res EXCEPT ![f] = t] /\ bySender' = [bySender EXCEPT ![f] = b]
      PROVE  /\ pc'[f] \in MessagePc
             /\ \A g \in Folders \ {f} : Still(g)
             /\ UNCHANGED <<sel, highest, todo, cur, failed>>
  BY <1>1, <1>2, Untouched DEF Still, TypeOK, imapVars
<1>3. CASE MessageExistsByID(f)
  BY <1>1, <1>2, <1>3 DEF MessageExistsByID, Proceed, Goto, localVars, MessagePc
<1>4. CASE FindThreadByRoot(f)
  BY <1>1, <1>2, <1>4 DEF FindThreadByRoot, Proceed, Goto, MessagePc
<1>5. CASE FindThreadByMember(f)
  BY <1>1, <1>2, <1>5 DEF FindThreadByMember, Proceed, Goto, MessagePc
<1>6. CASE CreateThread(f)
  BY <1>1, <1>2, <1>6 DEF CreateThread, Proceed, Goto, localVars, MessagePc, CallLost
<1>7. CASE FindThreadAgain(f)
  BY <1>1, <1>2, <1>7 DEF FindThreadAgain, Proceed, Goto, MessagePc
<1>8. CASE LookupGranteeByEmail(f)
  BY <1>1, <1>2, <1>8 DEF LookupGranteeByEmail, Proceed, Goto, MessagePc
<1>9. CASE GetThread(f)
  BY <1>1, <1>2, <1>9 DEF GetThread, Proceed, Goto, MessagePc
<1>10. CASE InsertMessage(f)
  BY <1>1, <1>2, <1>10 DEF InsertMessage, Proceed, Goto, localVars, MessagePc, CallLost
<1>11. CASE PromoteThread(f)
  BY <1>1, <1>2, <1>11 DEF PromoteThread, Proceed, Goto, MessagePc, CallLost
<1>14. CASE SetThreadGrantee(f)
  BY <1>1, <1>2, <1>14 DEF SetThreadGrantee, Proceed, Goto, MessagePc
<1>12. CASE TouchThread(f)
  BY <1>1, <1>12 DEF TouchThread, Prepared
<1>13. CASE CallFails(f)
  BY <1>1, <1>13 DEF CallFails, CallLost
<1> QED
  BY <1>1, <1>3, <1>4, <1>5, <1>6, <1>7, <1>8, <1>9, <1>10, <1>11, <1>12, <1>13, <1>14
     DEF handleMessage

\* The other workers do not move, and the folders are left alone.
LEMMA OthersStill ==
    ASSUME Base, NEW f \in Folders, Select(f) \/ Changed(f) \/ sync(f)
    PROVE  UNCHANGED imapVars /\ \A g \in Folders \ {f} : Still(g)
<1> USE DEF Base
<1>1. CASE Select(f)
  BY <1>1, Untouched DEF Select, Still, TypeOK, Goto, imapVars
<1>2. CASE Changed(f)
  BY <1>2, Untouched DEF Changed, Still, TypeOK, Goto, imapVars, localVars
<1>3. CASE GetMailboxState(f)
  BY <1>3, Untouched DEF GetMailboxState, Still, TypeOK, Goto, imapVars
<1>4. CASE NextMessage(f)
  BY <1>4, Untouched DEF NextMessage, Still, TypeOK, Goto, imapVars
<1>5. CASE SaveMailboxState(f)
  BY <1>5, Untouched DEF SaveMailboxState, Still, TypeOK, Goto, imapVars, localVars
<1>6. CASE handleMessage(f)
  BY <1>6, MessageSteps, Returns DEF imapVars
<1> QED
  BY <1>1, <1>2, <1>3, <1>4, <1>5, <1>6 DEF sync

\* Threads, messages, tags of threads and errors on record only grow.
LEMMA NextGrows ==
    ASSUME Base, Isolated, Next
    PROVE  Grows /\ failed \subseteq failed'
<1> USE DEF Base
<1>1. ASSUME NEW f \in Folders, handleMessage(f) PROVE Grows /\ failed \subseteq failed'
  <2>1. failed \subseteq failed'
    BY <1>1, MessageSteps DEF Handled, GiveUp
  <2>2. CASE UNCHANGED mailVars
    BY <2>1, <2>2, Untouched
  <2>3. CASE CreateThread(f)
    <3>1. Root(Handling(f)) \in Messages
      BY <1>1, MessageSteps, HandlingType, CandidatesType
    <3>2. CASE thread[Root(Handling(f))] = Absent
      <4>1. thread' = [thread EXCEPT ![Root(Handling(f))] = None] /\ msgs' = msgs
        BY <2>3, <3>2 DEF CreateThread
      <4> QED
        BY <2>1, <3>1, <3>2, <4>1, AbsentAssumption DEF Grows, TypeOK
    <3>3. CASE thread[Root(Handling(f))] # Absent
      <4>1. thread' = thread /\ msgs' = msgs
        BY <2>3, <3>3 DEF CreateThread
      <4> QED
        BY <2>1, <4>1 DEF Grows
    <3> QED
      BY <3>2, <3>3
  <2>4. CASE InsertMessage(f)
    BY <2>1, <2>4, InsertedEffect DEF InsertMessage
  <2>5. CASE PromoteThread(f)
    BY <2>1, <2>5, PromoteThreadEffect
  <2> QED
    BY <1>1, <2>2, <2>3, <2>4, <2>5 DEF handleMessage, MessageExistsByID, FindThreadByRoot,
       FindThreadByMember, FindThreadAgain, LookupGranteeByEmail, GetThread, SetThreadGrantee,
       TouchThread, CallFails
<1>2. ASSUME NEW a \in Senders, CommitAuthorization(a)
      PROVE  Grows /\ failed \subseteq failed'
  BY <1>2, CommitEffect DEF CommitAuthorization, EndTransaction
<1>3. CASE UNCHANGED <<mailVars, failed>>
  BY <1>3, Untouched
<1> QED
  BY <1>1, <1>2, <1>3 DEF Next, sync, Deliver, Rebuild, Select, GetMailboxState, NextMessage,
     SaveMailboxState, Changed, SessionEnds, Crash, RemoveGranteeEmail, AddGranteeEmail,
     TagThreads, Rollback, EndTransaction

(***************************************************************************)
(* The second part of the invariant is kept.                               *)
(***************************************************************************)
\* No transaction at the start.
LEMMA InitIsolated == Init => Isolated
BY DEF Init, Isolated, TransactionOK, WrittenFor, CommitOK

\* An AddGranteeEmail that does not move, while nobody writes its threads.
LEMMA TransactionFramed ==
    ASSUME Base, NEW a \in Senders, TransactionOK(a), Grows,
           adding'[a] = adding[a], addFor'[a] = addFor[a], addThreads'[a] = addThreads[a],
           addMail'[a] = addMail[a],
           \A t \in Messages : WrittenFor(a, t) => thread'[t] = thread[t]
    PROVE  TransactionOK(a)'
<1> USE DEF Base
<1>1. addThreads[a] \subseteq Messages /\ addMail[a] \subseteq Messages
  BY DEF TypeOK
<1>2. ASSUME adding[a] # "none", NEW t \in addThreads[a]
      PROVE  \E n \in Messages : msgs'[n].thread = t /\ From[n] = a
  <2>1. PICK n \in Messages : msgs[n].thread = t /\ From[n] = a
    BY <1>2 DEF TransactionOK
  <2>2. Stored(n)
    BY <1>1, <2>1, NoneAssumption DEF Stored
  <2> QED
    BY <2>1, <2>2 DEF Grows
<1>3. ASSUME adding[a] = "messages", NEW m \in addMail[a]
      PROVE  /\ msgs'[m].thread # None
             /\ msgs'[m].thread \in addThreads[a] \/ thread'[msgs'[m].thread] = addFor[a]
  <2>1. Stored(m) /\ m \in Messages /\ msgs'[m].thread = msgs[m].thread /\ addFor[a] \in Grantees
    BY <1>1, <1>3 DEF TransactionOK, Grows
  <2>2. msgs[m].thread \in Messages
    BY <2>1 DEF Stored, TypeOK
  <2> QED
    BY <1>3, <2>1, <2>2 DEF TransactionOK, Grows, Stored
<1>4. ASSUME adding[a] = "messages", NEW t \in addThreads[a] PROVE thread'[t] = None
  BY <1>1, <1>4 DEF TransactionOK, WrittenFor
<1>5. adding[a] # "none" => addFor[a] \in Grantees
  BY DEF TransactionOK
<1> QED
  BY <1>2, <1>3, <1>4, <1>5 DEF TransactionOK, Stored

\* A SetThreadGrantee that does not move.
LEMMA CommitFramed ==
    ASSUME Base, NEW f \in Folders, CommitOK(f), Still(f), Grows,
           \A a \in Senders : WrittenFor(a, thr[f])' => WrittenFor(a, thr[f])
    PROVE  CommitOK(f)'
<1> USE DEF Base
<1> SUFFICES ASSUME pc[f] = "commit"
             PROVE  /\ \A a \in Senders : ~WrittenFor(a, thr[f])'
                    /\ \A m \in batch'[f] : msgs'[m].thread = thr'[f]
  BY DEF CommitOK, Still
<1>1. \A a \in Senders : ~WrittenFor(a, thr[f])'
  BY DEF CommitOK
<1>2. thr[f] \in Messages /\ batch[f] \subseteq Messages
  BY DEF Prepared, ThreadedPc, TypeOK
<1>3. ASSUME NEW m \in batch[f] PROVE msgs'[m].thread = thr[f]
  BY <1>2, <1>3, NoneAssumption DEF CommitOK, Grows, Stored
<1> QED
  BY <1>1, <1>3 DEF Still

\* Steps of the workers of F, which write no thread AddGranteeEmail has written.
LEMMA IsolatedFramed ==
    ASSUME Base, Isolated, Grows, UNCHANGED addVars, NEW F \in SUBSET Folders,
           \A g \in Folders \ F : Still(g),
           \A f \in F : CommitOK(f)',
           \A t \in Messages, a \in Senders : WrittenFor(a, t) => thread'[t] = thread[t]
    PROVE  Isolated'
<1>1. \A a \in Senders : TransactionOK(a)'
  BY TransactionFramed DEF Isolated, addVars
<1>2. \A a \in Senders : \A t : WrittenFor(a, t)' = WrittenFor(a, t)
  BY DEF WrittenFor, addVars
<1>3. \A a, b \in Senders, t \in Messages : WrittenFor(a, t)' /\ WrittenFor(b, t)' => a = b
  BY <1>2 DEF Isolated
<1>4. ASSUME NEW f \in Folders \ F PROVE CommitOK(f)'
  <2>1. thr'[f] = thr[f] /\ Still(f) /\ CommitOK(f)
    BY DEF Still, Isolated
  <2>2. \A a \in Senders : WrittenFor(a, thr[f])' => WrittenFor(a, thr[f])
    BY <2>1 DEF WrittenFor, addVars
  <2> QED
    BY <2>1, <2>2, CommitFramed
<1> QED
  BY <1>1, <1>3, <1>4 DEF Isolated

\* Steps that leave the tables alone, of workers that are in no transaction after it.
LEMMA IsolatedFramedTables ==
    ASSUME Base, Isolated, UNCHANGED <<mailVars, addVars>>, NEW F \in SUBSET Folders,
           \A g \in Folders \ F : Still(g),
           \A f \in F : pc'[f] # "commit"
    PROVE  Isolated'
<1>1. Grows /\ thread' = thread
  BY Untouched DEF Base, mailVars
<1>2. \A f \in F : CommitOK(f)'
  BY DEF CommitOK
<1> QED
  BY <1>1, <1>2, IsolatedFramed

\* SetThreadGrantee waits for the threads AddGranteeEmail has written.
LEMMA SetThreadGranteeIsolated ==
    ASSUME Base, Isolated, NEW f \in Folders, SetThreadGrantee(f), \A g \in Folders \ {f} : Still(g)
    PROVE  Isolated'
<1> USE DEF Base
<1>1. /\ thr[f] \notin LockedThreads
      /\ batch'[f] = UntaggedIn({thr[f]})
      /\ UNCHANGED <<mailVars, addVars, thr>>
  BY DEF SetThreadGrantee, tagVars, TypeOK
<1>2. thr[f] \in Messages
  BY DEF SetThreadGrantee, Prepared, ThreadedPc
<1>3. \A a \in Senders : ~WrittenFor(a, thr[f])
  BY <1>1, <1>2 DEF LockedThreads, WrittenFor, Isolated, TransactionOK
<1>4. \A a \in Senders : ~WrittenFor(a, thr[f])'
  BY <1>1, <1>3 DEF WrittenFor, addVars
<1>5. \A m \in batch'[f] : msgs'[m].thread = thr'[f]
  BY <1>1 DEF UntaggedIn, mailVars
<1>6. CommitOK(f)'
  BY <1>4, <1>5 DEF CommitOK
<1>7. Grows /\ thread' = thread /\ {f} \in SUBSET Folders
  BY <1>1, Untouched DEF mailVars
<1> QED
  BY <1>1, <1>6, <1>7, IsolatedFramed

\* The calls of handleMessage that write: nobody writes a thread AddGranteeEmail has.
LEMMA WritersIsolated ==
    ASSUME Base, Isolated, NEW f \in Folders, CreateThread(f) \/ InsertMessage(f) \/ PromoteThread(f),
           \A g \in Folders \ {f} : Still(g), Grows
    PROVE  Isolated'
<1> USE DEF Base
<1>1. UNCHANGED addVars /\ {f} \in SUBSET Folders
  BY DEF CreateThread, InsertMessage, PromoteThread, tagVars
<1>2. pc'[f] # "commit"
  BY DEF CreateThread, InsertMessage, PromoteThread, Proceed, CallLost, GiveUp, Goto, TypeOK
<1>3. CommitOK(f)'
  BY <1>2 DEF CommitOK
<1>4. ASSUME NEW t \in Messages, NEW a \in Senders, WrittenFor(a, t) PROVE thread'[t] = thread[t]
  <2>1. thread[t] = None
    BY <1>4 DEF WrittenFor, Isolated, TransactionOK
  <2>2. CASE InsertMessage(f)
    BY <2>2 DEF InsertMessage
  <2>3. CASE CreateThread(f)
    BY <2>1, <2>3, AbsentAssumption DEF CreateThread, TypeOK
  <2>4. CASE PromoteThread(f)
    <3>1. t # thr[f]
      BY <1>4, <2>4 DEF PromoteThread, Isolated, CommitOK
    <3> QED
      BY <2>4, <3>1, PromoteThreadEffect
  <2> QED
    BY <2>2, <2>3, <2>4
<1> QED
  BY <1>1, <1>3, <1>4, IsolatedFramed

\* AddGranteeEmail: the threads it finds hold mail from the address.
LEMMA AddGranteeEmailIsolated ==
    ASSUME Base, Isolated, NEW a \in Senders, NEW g \in Grantees, AddGranteeEmail(g, a)
    PROVE  Isolated'
<1> USE DEF Base
<1>1. UNCHANGED <<imapVars, mailVars, pc, localVars>> /\ Grows /\ thread' = thread /\ msgs' = msgs
  BY Untouched DEF AddGranteeEmail, mailVars
<1>2. /\ adding'[a] = "threads" /\ addFor'[a] = g /\ addThreads'[a] = ThreadsFrom(a)
      /\ \A b \in Senders : b # a => /\ adding'[b] = adding[b] /\ addFor'[b] = addFor[b]
                                     /\ addThreads'[b] = addThreads[b] /\ addMail'[b] = addMail[b]
  BY DEF AddGranteeEmail, TypeOK
<1>3. TransactionOK(a)'
  BY <1>1, <1>2 DEF TransactionOK, ThreadsFrom
<1>4. \A b \in Senders : b # a => TransactionOK(b)'
  BY <1>1, <1>2, TransactionFramed DEF Isolated
<1>5. \A b \in Senders : \A t : WrittenFor(b, t)' => WrittenFor(b, t)
  BY <1>2 DEF WrittenFor
<1>6. \A b, c \in Senders, t \in Messages : WrittenFor(b, t)' /\ WrittenFor(c, t)' => b = c
  BY <1>5 DEF Isolated
<1>7. ASSUME NEW f \in Folders PROVE CommitOK(f)'
  <2>1. Still(f) /\ thr'[f] = thr[f]
    BY <1>1, Untouched DEF Still, imapVars, localVars
  <2>2. \A b \in Senders : WrittenFor(b, thr[f])' => WrittenFor(b, thr[f])
    BY <1>2, <2>1 DEF WrittenFor
  <2> QED
    BY <1>1, <2>1, <2>2, CommitFramed DEF Isolated
<1> QED
  BY <1>3, <1>4, <1>6, <1>7 DEF Isolated

\* TagThreads waits for the threads others have written.
LEMMA TagThreadsIsolated ==
    ASSUME Base, Isolated, NEW a \in Senders, TagThreads(a)
    PROVE  Isolated'
<1> USE DEF Base
<1> DEFINE T == {t \in addThreads[a] : thread[t] = None}
<1>1. UNCHANGED <<imapVars, mailVars, pc, localVars>> /\ Grows /\ thread' = thread /\ msgs' = msgs
  BY Untouched DEF TagThreads, mailVars
<1>2. /\ adding[a] = "threads" /\ adding'[a] = "messages" /\ addFor'[a] = addFor[a]
      /\ addThreads'[a] = T /\ addMail'[a] = MailOf(addFor[a], T)
      /\ \A b \in Senders : b # a => /\ adding'[b] = adding[b] /\ addFor'[b] = addFor[b]
                                     /\ addThreads'[b] = addThreads[b] /\ addMail'[b] = addMail[b]
  BY DEF TagThreads, TypeOK
<1>3. T \subseteq Messages /\ T \subseteq addThreads[a] /\ T \cap LockedThreads = {}
  BY DEF TagThreads, TypeOK
<1>4. TransactionOK(a)'
  <2>1. /\ addFor[a] \in Grantees
        /\ \A t \in addThreads[a] : \E n \in Messages : msgs[n].thread = t /\ From[n] = a
    BY <1>2 DEF Isolated, TransactionOK
  <2>2. ASSUME NEW m \in MailOf(addFor[a], T)
        PROVE  Stored(m) /\ (msgs[m].thread \in T \/ thread[msgs[m].thread] = addFor[a])
    BY <1>3, <2>2, NoneAssumption DEF MailOf, UntaggedIn, Stored
  <2>3. \A t \in T : thread[t] = None
    OBVIOUS
  <2> HIDE DEF T
  <2> QED
    BY <1>1, <1>2, <1>3, <2>1, <2>2, <2>3 DEF TransactionOK, Stored
<1>5. \A b \in Senders : b # a => TransactionOK(b)'
  BY <1>1, <1>2, TransactionFramed DEF Isolated
<1>6. \A b \in Senders, t \in T : ~WrittenFor(b, t)
  BY <1>3 DEF WrittenFor, LockedThreads
<1>7. \A b \in Senders : \A t : WrittenFor(b, t)' => (b = a /\ t \in T) \/ (b # a /\ WrittenFor(b, t))
  BY <1>2 DEF WrittenFor
<1>8. \A b, c \in Senders, t \in Messages : WrittenFor(b, t)' /\ WrittenFor(c, t)' => b = c
  BY <1>6, <1>7 DEF Isolated
<1>9. ASSUME NEW f \in Folders, pc[f] = "commit" PROVE thr[f] \notin T
  <2>1. ASSUME thr[f] \in T PROVE FALSE
    <3>1. thr[f] \in Messages /\ thread[thr[f]] = None
      BY <1>3, <2>1
    <3>2. thr[f] \in LockedThreads
      BY <1>9, <3>1 DEF LockedThreads
    <3> QED
      BY <1>3, <2>1, <3>2
  <2> QED
    BY <2>1
<1>10. ASSUME NEW f \in Folders PROVE CommitOK(f)'
  <2>1. Still(f) /\ thr'[f] = thr[f] /\ pc'[f] = pc[f]
    BY <1>1, Untouched DEF Still, imapVars, localVars
  <2>2. CASE pc[f] # "commit"
    BY <2>1, <2>2 DEF CommitOK
  <2>3. CASE pc[f] = "commit"
    <3>1. thr[f] \notin T
      BY <1>9, <2>3
    <3>2. \A b \in Senders : WrittenFor(b, thr[f])' => WrittenFor(b, thr[f])
      BY <1>2, <2>1, <3>1 DEF WrittenFor
    <3> QED
      BY <1>1, <2>1, <3>2, CommitFramed DEF Isolated
  <2> QED
    BY <2>2, <2>3
<1> QED
  BY <1>4, <1>5, <1>8, <1>10 DEF Isolated

\* The transaction ends: what it wrote is nobody else's.
LEMMA EndIsolated ==
    ASSUME Base, Isolated, Grows, NEW a \in Senders, EndTransaction(a),
           \A t \in Messages : t \notin addThreads[a] \/ adding[a] # "messages" => thread'[t] = thread[t]
    PROVE  Isolated'
<1> USE DEF Base
<1>1. UNCHANGED <<imapVars, pc, localVars>>
  BY DEF EndTransaction
<1>2. /\ adding'[a] = "none"
      /\ \A b \in Senders : b # a => /\ adding'[b] = adding[b] /\ addFor'[b] = addFor[b]
                                     /\ addThreads'[b] = addThreads[b] /\ addMail'[b] = addMail[b]
  BY DEF EndTransaction, TypeOK
<1>3. TransactionOK(a)'
  BY <1>2 DEF TransactionOK
<1>4. ASSUME NEW b \in Senders, b # a PROVE TransactionOK(b)'
  <2>1. \A t \in Messages : WrittenFor(b, t) => thread'[t] = thread[t]
    BY <1>4 DEF Isolated, WrittenFor
  <2> QED
    BY <1>2, <1>4, <2>1, TransactionFramed DEF Isolated
<1>5. \A b \in Senders : \A t : WrittenFor(b, t)' => WrittenFor(b, t)
  BY <1>2 DEF WrittenFor
<1>6. \A b, c \in Senders, t \in Messages : WrittenFor(b, t)' /\ WrittenFor(c, t)' => b = c
  BY <1>5 DEF Isolated
<1>7. ASSUME NEW f \in Folders PROVE CommitOK(f)'
  <2>1. Still(f) /\ thr'[f] = thr[f]
    BY <1>1, Untouched DEF Still, imapVars, localVars
  <2>2. \A b \in Senders : WrittenFor(b, thr[f])' => WrittenFor(b, thr[f])
    BY <1>2, <2>1 DEF WrittenFor
  <2> QED
    BY <2>1, <2>2, CommitFramed DEF Isolated
<1> QED
  BY <1>3, <1>4, <1>6, <1>7 DEF Isolated

\* The steps of a worker that leave the tables alone and enter no transaction.
QuietStep(f) ==
    \/ Select(f) \/ Changed(f) \/ GetMailboxState(f) \/ NextMessage(f) \/ SaveMailboxState(f)
    \/ MessageExistsByID(f) \/ FindThreadByRoot(f) \/ FindThreadByMember(f) \/ FindThreadAgain(f)
    \/ LookupGranteeByEmail(f) \/ GetThread(f) \/ TouchThread(f) \/ CallFails(f)

LEMMA QuietSteps ==
    ASSUME TypeOK, NEW f \in Folders, QuietStep(f)
    PROVE  UNCHANGED <<mailVars, tagVars, stale>> /\ pc'[f] # "commit"
<1>1. CASE Select(f) \/ Changed(f) \/ GetMailboxState(f) \/ SaveMailboxState(f)
  BY <1>1 DEF Select, Changed, GetMailboxState, SaveMailboxState, Goto, TypeOK
<1>2. CASE NextMessage(f)
  BY <1>2 DEF NextMessage, Goto, TypeOK
<1>3. CASE MessageExistsByID(f) \/ TouchThread(f) \/ CallFails(f)
  BY <1>3 DEF MessageExistsByID, TouchThread, CallFails, CallLost, Handled, GiveUp, Proceed,
     Goto, TypeOK
<1>4. CASE FindThreadByRoot(f) \/ FindThreadByMember(f) \/ FindThreadAgain(f)
  BY <1>4 DEF FindThreadByRoot, FindThreadByMember, FindThreadAgain, Proceed, Goto, TypeOK
<1>5. CASE LookupGranteeByEmail(f) \/ GetThread(f)
  BY <1>5 DEF LookupGranteeByEmail, GetThread, Proceed, Goto, TypeOK
<1> QED
  BY <1>1, <1>2, <1>3, <1>4, <1>5 DEF QuietStep

\* A folder that is rebuilt or loses its session leaves the others alone.
LEMMA OthersExtended ==
    ASSUME TypeOK, NEW f \in Folders, Rebuild(f) \/ SessionEnds(f)
    PROVE  \A g \in Folders \ {f} : Extended(g)
<1>1. \A g \in Folders : Len(box[g]) \in Nat
  BY DEF TypeOK
<1>2. \A g \in Folders \ {f} : box'[g] = box[g]
  BY DEF Rebuild, SessionEnds, imapVars, TypeOK
<1> QED
  BY <1>1, <1>2 DEF Extended

\* Every step keeps the second part of the invariant.
LEMMA NextIsolated == Base /\ Isolated /\ [Next]_vars => Isolated'
<1> SUFFICES ASSUME Base, Isolated, [Next]_vars PROVE Isolated'
  OBVIOUS
<1> USE DEF Base
<1>0. Next => Grows
  BY NextGrows
<1>1. ASSUME UNCHANGED <<box, mailVars, addVars, pc, localVars>> PROVE Isolated'
  <2>1. \A f \in Folders : Still(f)
    BY <1>1, Untouched DEF Still, localVars
  <2> QED
    BY <1>1, <2>1, IsolatedFramedTables, {} \in SUBSET Folders
<1>2. ASSUME NEW f \in Folders, NEW m \in Arriving[f], Deliver(f, m) PROVE Isolated'
  <2>1. m \in Messages
    BY ArrivingAssumption
  <2>2. \A g \in Folders : Still(g)
    BY <1>2, <2>1, DeliverExtends DEF Deliver, Still, localVars
  <2> QED
    BY <1>2, <2>2, IsolatedFramedTables, {} \in SUBSET Folders DEF Deliver, tagVars
<1>3. ASSUME NEW F \in SUBSET Folders, Cut(F), UNCHANGED <<mailVars, tagVars>>,
             \A g \in Folders \ F : Extended(g)
      PROVE  Isolated'
  <2>1. \A g \in Folders \ F : Still(g)
    BY <1>3, CutFramed
  <2>2. \A f \in F : pc'[f] # "commit"
    BY <1>3 DEF Cut
  <2> QED
    BY <1>3, <2>1, <2>2, IsolatedFramedTables DEF tagVars
<1>4. ASSUME NEW f \in Folders, Rebuild(f) \/ SessionEnds(f) PROVE Isolated'
  <2>1. \A g \in Folders \ {f} : Extended(g)
    BY <1>4, OthersExtended
  <2>2. Cut({f}) /\ UNCHANGED <<mailVars, tagVars>> /\ {f} \in SUBSET Folders
    BY <1>4 DEF Rebuild, SessionEnds
  <2> QED
    BY <1>3, <2>1, <2>2
<1>5. CASE Crash
  <2>1. Folders \in SUBSET Folders
    OBVIOUS
  <2> QED
    BY <1>3, <1>5, <2>1 DEF Crash
<1>6. ASSUME NEW f \in Folders, Select(f) \/ Changed(f) \/ sync(f) PROVE Isolated'
  <2>1. /\ \A g \in Folders \ {f} : Still(g)
        /\ {f} \in SUBSET Folders
    BY <1>6, OthersStill
  <2>2. Grows
    BY <1>0, <1>6 DEF Next
  <2>3. CASE CreateThread(f) \/ InsertMessage(f) \/ PromoteThread(f)
    BY <2>1, <2>2, <2>3, WritersIsolated
  <2>4. CASE SetThreadGrantee(f)
    BY <2>1, <2>4, SetThreadGranteeIsolated
  <2>5. CASE QuietStep(f)
    <3>1. UNCHANGED <<mailVars, tagVars>> /\ pc'[f] # "commit"
      BY <2>5, QuietSteps
    <3> QED
      BY <2>1, <3>1, IsolatedFramedTables DEF tagVars
  <2> QED
    BY <1>6, <2>3, <2>4, <2>5 DEF sync, handleMessage, QuietStep
<1>7. ASSUME NEW a \in Senders, NEW g \in Grantees,
             AddGranteeEmail(g, a) \/ RemoveGranteeEmail(g, a)
      PROVE  Isolated'
  BY <1>1, <1>7, AddGranteeEmailIsolated DEF RemoveGranteeEmail, imapVars
<1>8. ASSUME NEW a \in Senders, TagThreads(a) PROVE Isolated'
  BY <1>8, TagThreadsIsolated
<1>9. ASSUME NEW a \in Senders, CommitAuthorization(a) PROVE Isolated'
  <2>1. Grows /\ EndTransaction(a) /\ adding[a] = "messages"
    BY <1>9, CommitEffect DEF CommitAuthorization
  <2>2. \A t \in Messages : t \notin addThreads[a] => thread'[t] = thread[t]
    BY <1>9, CommitEffect
  <2> QED
    BY <2>1, <2>2, EndIsolated
<1>10. ASSUME NEW a \in Senders, Rollback(a) PROVE Isolated'
  <2>1. Grows /\ EndTransaction(a) /\ thread' = thread
    BY <1>10, Untouched DEF Rollback, mailVars
  <2> QED
    BY <2>1, EndIsolated
<1>11. CASE UNCHANGED vars
  BY <1>1, <1>11 DEF vars, imapVars, tagVars
<1> QED
  BY <1>2, <1>4, <1>5, <1>6, <1>7, <1>8, <1>9, <1>10, <1>11 DEF Next

(***************************************************************************)
(* The third part of the invariant: positions.                             *)
(***************************************************************************)
\* The indexer has the message with UID u, or its handling returned an error.
Seen(f, u) == Stored(box[f][u]) \/ <<f, box[f][u]>> \in failed

\* A saved position that is current covers mail the indexer has seen, and no other.
SavedPosition(f) ==
    /\ state[f].v <= validity[f]
    /\ state[f].v = validity[f] =>
          /\ state[f].last <= Len(box[f])
          /\ \A u \in 1..Len(box[f]) : u <= state[f].last => Seen(f, u)

\* The UIDs a sync under way may have passed: mail that arrives later lies beyond.
Reached(f, u) == u <= highest[f] \/ u <= cur[f] \/ \E x \in todo[f] : u <= x

\* A sync under way has, or will have, handled everything it may have passed.
WorkersPosition(f) ==
    /\ pc[f] # "down" => sel[f] = validity[f]
    /\ pc[f] \notin MessagePc \cup {"next"} => todo[f] = {}
    /\ pc[f] \in MessagePc \cup {"next"} =>
          /\ highest[f] <= Len(box[f])
          /\ \A u \in 1..Len(box[f]) : Reached(f, u) =>
                u \in todo[f] \/ u = cur[f] \/ Seen(f, u)

Positions == \A f \in Folders : SavedPosition(f) /\ WorkersPosition(f)

\* What was seen stays seen.
LEMMA SeenKept ==
    ASSUME TypeOK, NEW f \in Folders, Extended(f), Grows, failed \subseteq failed',
           NEW u \in 1..Len(box[f]), Seen(f, u)
    PROVE  Seen(f, u)'
<1>1. box'[f][u] = box[f][u] /\ box[f][u] \in Messages
  BY DEF Extended, TypeOK
<1> QED
  BY <1>1 DEF Seen, Grows, Stored

\* A saved position stays good while its folder keeps its UIDs.
LEMMA SavedFramed ==
    ASSUME TypeOK, NEW f \in Folders, SavedPosition(f), Extended(f), Grows,
           failed \subseteq failed', TypeOK', state'[f] = state[f], validity'[f] = validity[f]
    PROVE  SavedPosition(f)'
<1>1. /\ Len(box[f]) \in Nat /\ Len(box'[f]) \in Nat /\ Len(box[f]) <= Len(box'[f])
      /\ state[f].last \in Nat
  BY DEF TypeOK, Extended
<1>2. ASSUME state[f].v = validity[f]
      PROVE  /\ state[f].last <= Len(box'[f])
             /\ \A u \in 1..Len(box'[f]) : u <= state[f].last => Seen(f, u)'
  <2>1. state[f].last <= Len(box[f])
    BY <1>2 DEF SavedPosition
  <2>2. ASSUME NEW u \in 1..Len(box'[f]), u <= state[f].last PROVE Seen(f, u)'
    <3>1. u \in 1..Len(box[f])
      BY <1>1, <2>1, <2>2
    <3>2. Seen(f, u)
      BY <1>2, <2>2, <3>1 DEF SavedPosition
    <3> QED
      BY <3>1, <3>2, SeenKept
  <2> QED
    BY <1>1, <2>1, <2>2
<1> QED
  BY <1>2 DEF SavedPosition

\* Mail that arrives lies beyond what a sync under way may have passed.
LEMMA ReachedInBox ==
    ASSUME TypeOK, NEW f \in Folders, Placed(f), highest[f] <= Len(box[f]),
           NEW u \in Nat, u > 0, Reached(f, u)
    PROVE  u \in 1..Len(box[f])
<1>1. Len(box[f]) \in Nat /\ highest[f] \in Nat /\ cur[f] \in Nat /\ cur[f] <= Len(box[f])
  BY DEF TypeOK, Placed
<1> QED
  BY <1>1 DEF Reached, Placed

\* A worker that keeps its place, in handleMessage or in sync, keeps its position.
LEMMA WorkersFramed ==
    ASSUME Base, NEW f \in Folders, WorkersPosition(f), Extended(f), Grows, TypeOK',
           failed \subseteq failed', validity'[f] = validity[f],
           pc'[f] = pc[f] \/ {pc[f], pc'[f]} \subseteq MessagePc,
           sel'[f] = sel[f], highest'[f] = highest[f], todo'[f] = todo[f], cur'[f] = cur[f]
    PROVE  WorkersPosition(f)'
<1> USE DEF Base
<1>1. pc'[f] # "down" => sel'[f] = validity'[f]
  BY DEF WorkersPosition, MessagePc
<1>2. pc'[f] \notin MessagePc \cup {"next"} => todo'[f] = {}
  BY DEF WorkersPosition
<1>3. ASSUME pc'[f] \in MessagePc \cup {"next"}
      PROVE  /\ highest'[f] <= Len(box'[f])
             /\ \A u \in 1..Len(box'[f]) : Reached(f, u)' =>
                   u \in todo'[f] \/ u = cur'[f] \/ Seen(f, u)'
  <2>1. /\ highest[f] <= Len(box[f]) /\ highest[f] \in Nat
        /\ Len(box[f]) \in Nat /\ Len(box'[f]) \in Nat /\ Len(box[f]) <= Len(box'[f])
    BY <1>3 DEF WorkersPosition, Extended, TypeOK
  <2>2. ASSUME NEW u \in 1..Len(box'[f]), Reached(f, u)'
        PROVE  u \in todo'[f] \/ u = cur'[f] \/ Seen(f, u)'
    <3>1. Reached(f, u) /\ u \in Nat /\ u > 0
      BY <2>1, <2>2 DEF Reached
    <3>2. u \in 1..Len(box[f])
      BY <2>1, <3>1, ReachedInBox
    <3>3. u \in todo[f] \/ u = cur[f] \/ Seen(f, u)
      BY <1>3, <3>1, <3>2 DEF WorkersPosition
    <3> QED
      BY <3>2, <3>3, SeenKept
  <2> QED
    BY <2>1, <2>2
<1> QED
  BY <1>1, <1>2, <1>3 DEF WorkersPosition

\* A worker that does not move keeps its position.
LEMMA WorkersStill ==
    ASSUME Base, TypeOK', NEW f \in Folders, WorkersPosition(f), Still(f), Grows,
           failed \subseteq failed', validity'[f] = validity[f]
    PROVE  WorkersPosition(f)'
BY WorkersFramed DEF Still

\* A step of one worker, that leaves the folders and the saved positions alone.
LEMMA PositionsFramed ==
    ASSUME Base, Base', Positions, NEW f \in Folders, UNCHANGED <<imapVars, state>>,
           Grows, failed \subseteq failed',
           \A g \in Folders \ {f} : Still(g), WorkersPosition(f)'
    PROVE  Positions'
<1> USE DEF Base, Positions, imapVars
<1>1. \A g \in Folders : Extended(g)
  BY Untouched
<1>2. \A g \in Folders : SavedPosition(g)'
  BY <1>1, SavedFramed
<1>3. \A g \in Folders \ {f} : WorkersPosition(g)'
  BY WorkersStill
<1> QED
  BY <1>2, <1>3

\* No position at the start.
LEMMA InitPositions == Init => Positions
BY DEF Init, NoState, Positions, SavedPosition, WorkersPosition, MessagePc

\* Deliver: the new UID is beyond every position.
LEMMA DeliverPositions ==
    ASSUME Base, Base', Positions, NEW f \in Folders, NEW m \in Messages, Deliver(f, m)
    PROVE  Positions'
<1> USE DEF Base, Positions
<1>1. \A g \in Folders : Extended(g)
  BY DeliverExtends
<1>2. Grows /\ failed \subseteq failed' /\ UNCHANGED <<validity, state, pc, localVars>>
  BY Untouched DEF Deliver
<1>3. \A g \in Folders : SavedPosition(g)'
  BY <1>1, <1>2, SavedFramed
<1>4. \A g \in Folders : WorkersPosition(g)'
  BY <1>1, <1>2, WorkersStill DEF localVars, Still
<1> QED
  BY <1>3, <1>4

\* A worker that is cut off has no position.
LEMMA CutPositions ==
    ASSUME TypeOK, NEW F \in SUBSET Folders, Cut(F), NEW f \in F
    PROVE  WorkersPosition(f)'
BY DEF Cut, ForgetLocals, WorkersPosition, MessagePc

\* Rebuild: no saved position is current any more.
LEMMA RebuildPositions ==
    ASSUME Base, Base', Positions, NEW f \in Folders, Rebuild(f)
    PROVE  Positions'
<1> USE DEF Base, Positions
<1>1. Cut({f}) /\ UNCHANGED <<state, mailVars, tagVars, failed, stale>>
  BY DEF Rebuild
<1>2. validity' = [validity EXCEPT ![f] = @ + 1] /\ validity[f] \in Nat /\ state[f].v \in Nat
  BY DEF Rebuild, TypeOK
<1>3. SavedPosition(f)'
  <2>1. state'[f].v < validity'[f]
    BY <1>1, <1>2 DEF SavedPosition, TypeOK
  <2> QED
    BY <1>1, <1>2, <2>1 DEF SavedPosition, TypeOK
<1>4. WorkersPosition(f)'
  BY <1>1, CutPositions
<1>5. ASSUME NEW g \in Folders \ {f} PROVE SavedPosition(g)' /\ WorkersPosition(g)'
  <2>1. box'[g] = box[g] /\ Len(box[g]) \in Nat
    BY DEF Rebuild, TypeOK
  <2>2. Extended(g) /\ validity'[g] = validity[g]
    BY <1>2, <2>1 DEF Extended, TypeOK
  <2>3. Still(g)
    BY <1>1, <2>2 DEF Cut, ForgetLocals, Still
  <2>4. Grows /\ failed \subseteq failed' /\ state'[g] = state[g]
    BY <1>1, Untouched
  <2> QED
    BY <2>2, <2>3, <2>4, SavedFramed, WorkersStill
<1> QED
  BY <1>3, <1>4, <1>5

\* SessionEnds and Crash: what a worker knows is gone, what is saved stays.
LEMMA CutAllPositions ==
    ASSUME Base, Base', Positions, NEW F \in SUBSET Folders, Cut(F),
           UNCHANGED <<imapVars, state, mailVars, tagVars, failed, stale>>
    PROVE  Positions'
<1> USE DEF Base, Positions, imapVars
<1>1. Grows /\ \A g \in Folders : Extended(g)
  BY Untouched
<1>2. \A g \in Folders : SavedPosition(g)'
  BY <1>1, SavedFramed
<1>3. \A g \in Folders \ F : Still(g)
  BY <1>1, CutFramed
<1>4. \A g \in Folders \ F : WorkersPosition(g)'
  BY <1>1, <1>3, WorkersStill
<1> QED
  BY <1>2, <1>4, CutPositions

\* Select and Changed: about to read the position.
LEMMA SelectPositions ==
    ASSUME Base, Base', Positions, NEW f \in Folders, Select(f) \/ Changed(f)
    PROVE  Positions'
<1> USE DEF Base
<1>1. WorkersPosition(f) /\ pc[f] \in {"down", "idle"}
  BY DEF Positions, Select, Changed
<1>2. /\ pc'[f] = "get_state" /\ todo'[f] = todo[f] /\ sel'[f] = validity[f]
      /\ UNCHANGED <<imapVars, state, mailVars, failed>>
  BY <1>1 DEF Select, Changed, Goto, TypeOK, WorkersPosition, localVars
<1>3. WorkersPosition(f)'
  BY <1>1, <1>2 DEF WorkersPosition, MessagePc, imapVars
<1> QED
  BY <1>2, <1>3, OthersStill, Untouched, PositionsFramed

\* GetMailboxState: everything is fetched or covered by a good position.
LEMMA GetMailboxStatePositions ==
    ASSUME Base, Base', Positions, NEW f \in Folders, GetMailboxState(f)
    PROVE  Positions'
<1> USE DEF Base
<1>1. WorkersPosition(f) /\ SavedPosition(f) /\ pc[f] = "get_state"
  BY DEF Positions, GetMailboxState
<1>2. UNCHANGED <<imapVars, state, mailVars, sel, cur, failed>>
  BY DEF GetMailboxState
<1>3. /\ pc'[f] = "next" /\ highest'[f] = LastUID(f) /\ todo'[f] = Fetched(f)
      /\ sel[f] = validity[f]
  BY <1>1 DEF GetMailboxState, Goto, TypeOK, WorkersPosition, MessagePc
<1>4. LastUID(f) \in Nat /\ LastUID(f) <= Len(box[f]) /\ Len(box[f]) \in Nat
  BY <1>1, <1>3 DEF LastUID, SavedPosition, TypeOK
<1>5. ASSUME NEW u \in 1..Len(box[f]) PROVE u \in todo'[f] \/ Seen(f, u)'
  <2>1. CASE u > LastUID(f)
    BY <1>3, <2>1 DEF Fetched
  <2>2. CASE u <= LastUID(f)
    <3>1. Seen(f, u)
      BY <1>1, <1>3, <2>2 DEF LastUID, SavedPosition, TypeOK
    <3> QED
      BY <1>2, <3>1 DEF Seen, Stored, imapVars, mailVars
  <2> QED
    BY <1>4, <2>1, <2>2
<1>6. WorkersPosition(f)'
  BY <1>2, <1>3, <1>4, <1>5 DEF WorkersPosition, imapVars
<1>7. GetMailboxState(f) => sync(f)
  BY DEF sync
<1> QED
  BY <1>2, <1>6, <1>7, OthersStill, Untouched, PositionsFramed

\* NextMessage: the UID moves from those fetched to the one in hand.
LEMMA NextMessagePositions ==
    ASSUME Base, Base', Positions, NEW f \in Folders, NextMessage(f)
    PROVE  Positions'
<1> USE DEF Base
<1>1. WorkersPosition(f) /\ pc[f] = "next" /\ Placed(f)
  BY DEF Positions, NextMessage
<1>2. UNCHANGED <<imapVars, state, mailVars, sel, highest, failed>>
  BY DEF NextMessage
<1>3. PICK x \in todo[f] : /\ cur'[f] = x /\ todo'[f] = todo[f] \ {x}
                           /\ pc'[f] \in {"find_root", "exists"}
  BY DEF NextMessage, Goto, TypeOK
<1>4. ASSUME NEW u \in 1..Len(box[f]), Reached(f, u)'
      PROVE  u \in todo'[f] \/ u = cur'[f] \/ Seen(f, u)'
  <2>1. Reached(f, u)
    BY <1>2, <1>3, <1>4 DEF Reached
  <2>2. u # cur[f]
    BY <1>1 DEF Placed, MessagePc
  <2>3. u \in todo[f] \/ Seen(f, u)
    BY <1>1, <2>1, <2>2 DEF WorkersPosition
  <2> QED
    BY <1>2, <1>3, <2>3 DEF Seen, Stored, imapVars, mailVars
<1>5. pc'[f] \in MessagePc /\ pc'[f] # "down"
  BY <1>3 DEF MessagePc
<1>6. WorkersPosition(f)'
  BY <1>1, <1>2, <1>4, <1>5 DEF WorkersPosition, imapVars
<1>7. NextMessage(f) => sync(f)
  BY DEF sync
<1> QED
  BY <1>2, <1>6, <1>7, OthersStill, Untouched, PositionsFramed

\* SaveMailboxState: everything fetched has been handled, and nothing below was left out.
LEMMA SaveMailboxStatePositions ==
    ASSUME Base, Base', Positions, NEW f \in Folders, SaveMailboxState(f)
    PROVE  Positions'
<1> USE DEF Base
<1>1. WorkersPosition(f) /\ pc[f] = "next" /\ todo[f] = {} /\ Placed(f)
  BY DEF Positions, SaveMailboxState
<1>2. UNCHANGED <<imapVars, mailVars, localVars, failed>>
  BY DEF SaveMailboxState
<1>3. pc'[f] = "idle" /\ state'[f].v = sel[f] /\ state'[f].last = highest[f] /\ sel[f] = validity[f]
  BY <1>1 DEF SaveMailboxState, Goto, TypeOK, WorkersPosition
<1>4. highest[f] <= Len(box[f]) /\ highest[f] \in Nat /\ Len(box[f]) \in Nat /\ validity[f] \in Nat
  BY <1>1 DEF WorkersPosition, TypeOK
<1>5. ASSUME NEW u \in 1..Len(box[f]), u <= highest[f] PROVE Seen(f, u)'
  <2>1. Reached(f, u) /\ u # cur[f]
    BY <1>1, <1>5 DEF Reached, Placed, MessagePc
  <2>2. Seen(f, u)
    BY <1>1, <2>1 DEF WorkersPosition
  <2> QED
    BY <1>2, <2>2 DEF Seen, Stored, imapVars, mailVars
<1>6. SavedPosition(f)'
  BY <1>2, <1>3, <1>4, <1>5 DEF SavedPosition, imapVars
<1>7. WorkersPosition(f)'
  BY <1>1, <1>2, <1>3 DEF WorkersPosition, MessagePc, imapVars, localVars
<1>8. ASSUME NEW g \in Folders \ {f} PROVE SavedPosition(g)' /\ WorkersPosition(g)'
  <2>1. Still(g) /\ Extended(g)
    BY <1>2, OthersStill DEF sync, Still
  <2>2. state'[g] = state[g] /\ validity'[g] = validity[g]
    BY <1>2 DEF SaveMailboxState, TypeOK, imapVars
  <2>3. Grows /\ failed \subseteq failed'
    BY <1>2, Untouched
  <2> QED
    BY <2>1, <2>2, <2>3, SavedFramed, WorkersStill DEF Positions
<1> QED
  BY <1>6, <1>7, <1>8 DEF Positions

\* handleMessage: the UID in hand is left stored or with an error on record.
LEMMA HandleMessagePositions ==
    ASSUME Base, Base', Positions, NEW f \in Folders, handleMessage(f), Grows,
           failed \subseteq failed'
    PROVE  Positions'
<1> USE DEF Base
<1>1. /\ WorkersPosition(f) /\ Placed(f) /\ pc[f] \in MessagePc
      /\ UNCHANGED <<imapVars, state>>
  BY MessageSteps DEF Positions
<1>2. \A g \in Folders : Extended(g)
  BY <1>1, Untouched DEF imapVars
<1>3. ASSUME pc'[f] \in MessagePc, UNCHANGED <<sel, highest, todo, cur, failed>>
      PROVE  WorkersPosition(f)'
  <2>1. /\ {pc[f], pc'[f]} \subseteq MessagePc /\ validity'[f] = validity[f]
        /\ sel'[f] = sel[f] /\ highest'[f] = highest[f] /\ todo'[f] = todo[f] /\ cur'[f] = cur[f]
    BY <1>1, <1>3 DEF imapVars
  <2>2. Extended(f) /\ WorkersPosition(f) /\ TypeOK'
    BY <1>1, <1>2
  <2> QED
    BY <2>1, <2>2, WorkersFramed
<1>4. ASSUME (Handled(f) /\ Stored(Handling(f))) \/ GiveUp(f)
      PROVE  WorkersPosition(f)'
  <2>1. /\ pc'[f] = "next" /\ cur'[f] = 0 /\ sel' = sel /\ todo' = todo
        /\ highest'[f] = highest[f] \/ highest'[f] = cur[f]
    BY <1>4 DEF Handled, GiveUp, Goto, ForgetMessage, TypeOK
  <2>2. PICK x \in 1..Len(box[f]) : x = cur[f]
    BY <1>1 DEF Placed
  <2>3. Handling(f) = box[f][x] /\ Len(box[f]) \in Nat /\ box[f][x] \in Messages /\ box' = box
    BY <1>1, <2>2 DEF Handling, TypeOK, imapVars
  <2>4. Seen(f, x)'
    <3>1. Stored(box[f][x]) \/ <<f, box[f][x]>> \in failed'
      BY <1>4, <2>3 DEF GiveUp
    <3> QED
      BY <2>3, <3>1 DEF Grows, Stored, Seen
  <2>5. highest'[f] <= Len(box[f])
    BY <1>1, <2>1, <2>2, <2>3 DEF WorkersPosition
  <2>6. ASSUME NEW u \in 1..Len(box[f]), Reached(f, u)'
        PROVE  u \in todo'[f] \/ Seen(f, u)'
    <3>1. Reached(f, u)
      BY <2>1, <2>2, <2>6 DEF Reached
    <3>2. u \in todo[f] \/ u = x \/ Seen(f, u)
      BY <1>1, <2>2, <3>1 DEF WorkersPosition
    <3>3. Seen(f, u) => Seen(f, u)'
      BY <1>2, SeenKept
    <3> QED
      BY <2>1, <2>4, <3>2, <3>3
  <2>7. sel'[f] = validity'[f]
    BY <1>1, <2>1 DEF WorkersPosition, MessagePc, imapVars
  <2> QED
    BY <2>1, <2>3, <2>5, <2>6, <2>7 DEF WorkersPosition
<1>5. WorkersPosition(f)'
  <2>1. \/ /\ pc'[f] \in MessagePc
           /\ UNCHANGED <<sel, highest, todo, cur, failed>>
        \/ Handled(f) /\ Stored(Handling(f))
        \/ GiveUp(f)
    BY MessageSteps
  <2> QED
    BY <1>3, <1>4, <2>1
<1>6. \A g \in Folders \ {f} : Still(g)
  BY OthersStill DEF sync
<1> QED
  BY <1>1, <1>5, <1>6, PositionsFramed

\* Every step keeps the third part of the invariant.
LEMMA NextPositions == Base /\ Isolated /\ Base' /\ Positions /\ [Next]_vars => Positions'
<1> SUFFICES ASSUME Base, Isolated, Base', Positions, [Next]_vars PROVE Positions'
  OBVIOUS
<1>1. CASE UNCHANGED vars
  BY <1>1 DEF vars, imapVars, mailVars, localVars, Positions, SavedPosition, WorkersPosition,
     Reached, Seen, Stored
<1>2. ASSUME NEW f \in Folders, NEW m \in Arriving[f], Deliver(f, m) PROVE Positions'
  <2>1. m \in Messages
    BY ArrivingAssumption
  <2> QED
    BY <1>2, <2>1, DeliverPositions
<1>3. ASSUME NEW f \in Folders, Rebuild(f) \/ Select(f) \/ Changed(f) PROVE Positions'
  BY <1>3, RebuildPositions, SelectPositions
<1>4. ASSUME NEW f \in Folders, SessionEnds(f) PROVE Positions'
  <2>1. {f} \in SUBSET Folders
    OBVIOUS
  <2> QED
    BY <1>4, <2>1, CutAllPositions DEF SessionEnds
<1>5. CASE Crash
  <2>1. Folders \in SUBSET Folders
    OBVIOUS
  <2> QED
    BY <1>5, <2>1, CutAllPositions DEF Crash
<1>6. ASSUME NEW f \in Folders, sync(f) PROVE Positions'
  <2>1. Next
    BY <1>6 DEF Next
  <2>2. CASE handleMessage(f)
    BY <2>1, <2>2, NextGrows, HandleMessagePositions
  <2> QED
    BY <1>6, <2>2, GetMailboxStatePositions, NextMessagePositions, SaveMailboxStatePositions
       DEF sync
<1>7. ASSUME Next, UNCHANGED <<imapVars, state, pc, localVars>>
      PROVE  Positions'
  <2>1. Grows /\ failed \subseteq failed'
    BY <1>7, NextGrows
  <2>2. \A f \in Folders : Still(f) /\ Extended(f)
    BY <1>7, Untouched DEF Base, Still, imapVars, localVars
  <2> QED
    BY <1>7, <2>1, <2>2, SavedFramed, WorkersStill DEF Base, Positions, imapVars
<1>8. ASSUME NEW a \in Senders, NEW g \in Grantees,
             AddGranteeEmail(g, a) \/ RemoveGranteeEmail(g, a)
      PROVE  UNCHANGED <<imapVars, state, pc, localVars>>
  BY <1>8 DEF AddGranteeEmail, RemoveGranteeEmail
<1>9. ASSUME NEW a \in Senders, TagThreads(a) \/ CommitAuthorization(a) \/ Rollback(a)
      PROVE  UNCHANGED <<imapVars, state, pc, localVars>>
  BY <1>9 DEF TagThreads, CommitAuthorization, Rollback, EndTransaction
<1> QED
  BY <1>1, <1>2, <1>3, <1>4, <1>5, <1>6, <1>7, <1>8, <1>9 DEF Next

(***************************************************************************)
(* The fourth part of the invariant: what a tag reaches.                   *)
(***************************************************************************)
\* A stored message without a tag that is not on record as stale.
Missed(m) == Stored(m) /\ msgs[m].grantee = None /\ m \notin stale

\* No tag is due for such a message, and each open transaction that is to tag it has
\* found its thread, and then the message.
Reachable(m) ==
    /\ thread[msgs[m].thread] = None
    /\ senders[From[m]] = None
    /\ adding[From[m]] = "threads" => msgs[m].thread \in addThreads[From[m]]
    /\ adding[From[m]] = "messages" => m \in addMail[From[m]]
    /\ \A a \in Senders : WrittenFor(a, msgs[m].thread) => m \in addMail[a]
    /\ \A f \in Folders : pc[f] = "commit" /\ thr[f] = msgs[m].thread => m \in batch[f]

Reaches == \A m \in Messages : Missed(m) => Reachable(m)

\* No mail at the start.
LEMMA InitReaches == Init => Reaches
BY DEF Init, Reaches, Missed, Stored, NoMessage

\* A step of the workers of F that leaves the transactions alone and no new message
\* without a tag.
LEMMA ReachesFramed ==
    ASSUME Base, Reaches, NEW F \in SUBSET Folders, UNCHANGED addVars,
           \A g \in Folders \ F : Still(g),
           \A f \in F : pc'[f] # "commit",
           \A a \in Senders : senders[a] = None => senders'[a] = None,
           \A m \in Messages : Missed(m)' =>
              /\ Missed(m) /\ msgs'[m].thread = msgs[m].thread
              /\ thread'[msgs[m].thread] = None
    PROVE  Reaches'
<1> SUFFICES ASSUME NEW m \in Messages, Missed(m)' PROVE Reachable(m)'
  BY DEF Reaches
<1>1. /\ Reachable(m) /\ msgs'[m].thread = msgs[m].thread /\ From[m] \in Senders
      /\ thread'[msgs'[m].thread] = None
  BY FromAssumption DEF Reaches
<1>2. /\ senders'[From[m]] = None
      /\ adding'[From[m]] = "threads" => msgs'[m].thread \in addThreads'[From[m]]
      /\ adding'[From[m]] = "messages" => m \in addMail'[From[m]]
  BY <1>1 DEF Reachable, addVars
<1>3. \A a \in Senders : WrittenFor(a, msgs[m].thread)' => m \in addMail'[a]
  BY <1>1 DEF Reachable, WrittenFor, addVars
<1>4. \A f \in Folders : pc'[f] = "commit" /\ thr'[f] = msgs'[m].thread => m \in batch'[f]
  BY <1>1 DEF Reachable, Still
<1> QED
  BY <1>1, <1>2, <1>3, <1>4 DEF Reachable

\* Steps that leave the tables alone.
LEMMA ReachesFramedTables ==
    ASSUME Base, Reaches, NEW F \in SUBSET Folders, UNCHANGED <<mailVars, addVars, stale>>,
           \A g \in Folders \ F : Still(g),
           \A f \in F : pc'[f] # "commit",
           \A a \in Senders : senders[a] = None => senders'[a] = None
    PROVE  Reaches'
<1>1. ASSUME NEW m \in Messages, Missed(m)'
      PROVE  /\ Missed(m) /\ msgs'[m].thread = msgs[m].thread
             /\ thread'[msgs[m].thread] = None
  <2>1. Missed(m) /\ thread' = thread /\ msgs' = msgs
    BY <1>1 DEF Missed, Stored, mailVars
  <2> QED
    BY <2>1 DEF Reaches, Reachable
<1> QED
  BY <1>1, ReachesFramed

\* InsertMessage: mail inserted untagged although a tag is due, or being written by a
\* transaction that does not see it, is on record.
LEMMA InsertMessageReaches ==
    ASSUME Base, Reaches, NEW f \in Folders, InsertMessage(f), \A g \in Folders \ {f} : Still(g)
    PROVE  Reaches'
<1> USE DEF Base
<1>1. pc[f] = "insert" /\ Inserted(f) /\ UNCHANGED <<thread, senders, addVars>>
  BY DEF InsertMessage, tagVars
<1>2. /\ Handling(f) \in Messages /\ thr[f] \in Messages
      /\ stale \subseteq stale'
      /\ \A m \in Messages : Stored(m) \/ m # Handling(f) => msgs'[m] = msgs[m]
      /\ ~Stored(Handling(f)) => msgs'[Handling(f)] = [thread |-> thr[f], grantee |-> res[f]]
  BY <1>1, InsertedEffect
<1>3. pc'[f] # "commit"
  BY DEF InsertMessage, Proceed, CallLost, GiveUp, Goto, TypeOK
<1>4. \A g \in Folders : pc'[g] = "commit" => /\ g # f /\ pc[g] = "commit" /\ thr'[g] = thr[g]
                                             /\ batch'[g] = batch[g]
  BY <1>3 DEF Still
<1>5. ASSUME NEW m \in Messages, Missed(m)' PROVE Reachable(m)'
  <2>0. From[m] \in Senders
    BY FromAssumption
  <2>1. CASE Stored(m) \/ m # Handling(f)
    <3>1. msgs'[m] = msgs[m] /\ Missed(m)
      BY <1>2, <1>5, <2>1 DEF Missed, Stored
    <3>2. Reachable(m)
      BY <3>1 DEF Reaches
    <3>3. \A a \in Senders : WrittenFor(a, msgs[m].thread)' => m \in addMail'[a]
      BY <1>1, <3>1, <3>2 DEF Reachable, WrittenFor, addVars
    <3>4. \A g \in Folders : pc'[g] = "commit" /\ thr'[g] = msgs'[m].thread => m \in batch'[g]
      BY <1>4, <3>1, <3>2 DEF Reachable
    <3> QED
      BY <1>1, <3>1, <3>2, <3>3, <3>4 DEF Reachable, addVars
  <2>2. CASE ~Stored(m) /\ m = Handling(f)
    <3>1. msgs'[m].thread = thr[f] /\ msgs'[m].grantee = res[f]
      BY <1>2, <2>2
    <3>2. ~TagDue(f)
      BY <1>1, <1>5, <2>2, <3>1 DEF Inserted, Missed
    <3>3. thread[thr[f]] = None /\ senders[From[m]] = None /\ ~LookedBefore(From[m], thr[f])
      BY <1>1, <1>2, <2>2, <3>2 DEF TagDue, Prepared, ThreadedPc, TypeOK
    <3>4. /\ adding[From[m]] = "threads" => thr[f] \in addThreads[From[m]]
          /\ adding[From[m]] # "messages"
          /\ thr[f] \notin LockedThreads
      BY <3>3 DEF LookedBefore
    <3>5. \A g \in Folders : ~(pc[g] = "commit" /\ thr[g] = thr[f])
      BY <1>2, <3>3, <3>4 DEF LockedThreads
    <3>6. \A a \in Senders : ~(adding[a] = "messages" /\ thr[f] \in addThreads[a])
      BY <1>2, <3>3, <3>4 DEF LockedThreads
    <3>7. \A a \in Senders : ~WrittenFor(a, msgs[m].thread)'
      BY <1>1, <3>1, <3>6 DEF WrittenFor, addVars
    <3> QED
      BY <1>1, <1>4, <3>1, <3>3, <3>4, <3>5, <3>7 DEF Reachable, addVars
  <2> QED
    BY <2>1, <2>2
<1> QED
  BY <1>5 DEF Reaches

\* SetThreadGrantee finds the untagged mail of its thread.
LEMMA SetThreadGranteeReaches ==
    ASSUME Base, Reaches, NEW f \in Folders, SetThreadGrantee(f), \A g \in Folders \ {f} : Still(g)
    PROVE  Reaches'
<1> USE DEF Base
<1>1. /\ batch'[f] = UntaggedIn({thr[f]})
      /\ UNCHANGED <<thread, msgs, senders, addVars, stale, thr>>
  BY DEF SetThreadGrantee, tagVars, mailVars, TypeOK
<1> SUFFICES ASSUME NEW m \in Messages, Missed(m) PROVE Reachable(m)'
  BY <1>1 DEF Reaches, Missed, Stored
<1>2. Reachable(m)
  BY DEF Reaches
<1>3. ASSUME NEW g \in Folders, pc'[g] = "commit", thr'[g] = msgs'[m].thread PROVE m \in batch'[g]
  <2>1. CASE g = f
    BY <1>1, <1>3, <2>1 DEF UntaggedIn, Missed
  <2>2. CASE g # f
    BY <1>1, <1>2, <1>3, <2>2 DEF Still, Reachable
  <2> QED
    BY <2>1, <2>2
<1>4. \A a \in Senders : WrittenFor(a, msgs[m].thread)' => m \in addMail'[a]
  BY <1>1, <1>2 DEF Reachable, WrittenFor, addVars
<1> QED
  BY <1>1, <1>2, <1>3, <1>4 DEF Reachable, addVars

\* PromoteThread: the thread's mail is tagged with it.
LEMMA PromoteThreadReaches ==
    ASSUME Base, Reaches, NEW f \in Folders, PromoteThread(f), \A g \in Folders \ {f} : Still(g)
    PROVE  Reaches'
<1> USE DEF Base
<1>1. pc[f] = "commit" /\ UNCHANGED <<senders, addVars, stale>> /\ {f} \in SUBSET Folders
  BY DEF PromoteThread, tagVars
<1>2. pc'[f] # "commit"
  BY DEF PromoteThread, Proceed, CallLost, GiveUp, Goto, TypeOK
<1>3. /\ res[f] \in Grantees
      /\ \A s \in Messages : s # thr[f] => thread'[s] = thread[s]
      /\ \A m \in Messages :
            /\ msgs'[m].thread = msgs[m].thread
            /\ msgs'[m].grantee = IF m \in batch[f] /\ msgs[m].grantee = None
                                  THEN res[f] ELSE msgs[m].grantee
  BY PromoteThreadEffect
<1>4. ASSUME NEW m \in Messages, Missed(m)'
      PROVE  /\ Missed(m) /\ msgs'[m].thread = msgs[m].thread
             /\ thread'[msgs[m].thread] = None
  <2>1. Missed(m) /\ m \notin batch[f] /\ msgs[m].thread \in Messages
    BY <1>1, <1>3, <1>4, NoneAssumption DEF Missed, Stored, TypeOK
  <2>2. Reachable(m)
    BY <2>1 DEF Reaches
  <2>3. msgs[m].thread # thr[f]
    BY <1>1, <2>1, <2>2 DEF Reachable
  <2> QED
    BY <1>3, <2>1, <2>2, <2>3 DEF Reachable
<1> QED
  BY <1>1, <1>2, <1>4, ReachesFramed

\* CreateThread: a new thread has no tag.
LEMMA CreateThreadReaches ==
    ASSUME Base, Reaches, NEW f \in Folders, CreateThread(f), \A g \in Folders \ {f} : Still(g)
    PROVE  Reaches'
<1> USE DEF Base
<1>1. Root(Handling(f)) \in Messages /\ {f} \in SUBSET Folders
  BY HandlingType, CandidatesType DEF CreateThread, MessagePc
<1>2. \/ thread' = [thread EXCEPT ![Root(Handling(f))] = None]
      \/ thread' = thread
  BY DEF CreateThread
<1>3. \A t \in Messages : thread[t] = None => thread'[t] = None
  BY <1>1, <1>2 DEF TypeOK
<1>4. UNCHANGED <<msgs, senders, addVars, stale>>
  BY DEF CreateThread, tagVars
<1>5. pc'[f] # "commit"
  BY DEF CreateThread, Proceed, CallLost, GiveUp, Goto, TypeOK
<1>6. ASSUME NEW m \in Messages, Missed(m)'
      PROVE  /\ Missed(m) /\ msgs'[m].thread = msgs[m].thread
             /\ thread'[msgs[m].thread] = None
  <2>1. Missed(m) /\ msgs[m].thread \in Messages
    BY <1>4, <1>6 DEF Missed, Stored, TypeOK
  <2> QED
    BY <1>3, <1>4, <2>1 DEF Reaches, Reachable
<1> QED
  BY <1>1, <1>4, <1>5, <1>6, ReachesFramed

\* AddGranteeEmail and TagThreads find the sender's mail, and that of the threads they
\* tag; Rollback forgets it.
LEMMA OpenTransactionReaches ==
    ASSUME Base, Reaches, NEW a \in Senders, NEW g \in Grantees,
           AddGranteeEmail(g, a) \/ TagThreads(a) \/ Rollback(a)
    PROVE  Reaches'
<1> USE DEF Base
<1>1. UNCHANGED <<thread, msgs, senders, pc, thr, batch, stale>>
  BY DEF AddGranteeEmail, TagThreads, Rollback, EndTransaction, mailVars, localVars
<1> SUFFICES ASSUME NEW m \in Messages, Missed(m) PROVE Reachable(m)'
  BY <1>1 DEF Reaches, Missed, Stored
<1>2. Reachable(m) /\ From[m] \in Senders /\ msgs[m].thread \in Messages
  BY FromAssumption DEF Reaches, Missed, Stored, TypeOK
<1>3. \A b \in Senders : b # a => /\ adding'[b] = adding[b] /\ addThreads'[b] = addThreads[b]
                                  /\ addMail'[b] = addMail[b]
  BY DEF AddGranteeEmail, TagThreads, Rollback, EndTransaction, TypeOK
<1>4. /\ From[m] = a /\ adding'[a] = "threads" => msgs[m].thread \in addThreads'[a]
      /\ From[m] = a /\ adding'[a] = "messages" => m \in addMail'[a]
      /\ adding'[a] = "messages" /\ msgs[m].thread \in addThreads'[a] => m \in addMail'[a]
  <2>1. CASE AddGranteeEmail(g, a)
    <3>1. adding'[a] = "threads" /\ addThreads'[a] = ThreadsFrom(a)
      BY <2>1 DEF AddGranteeEmail, TypeOK
    <3> QED
      BY <1>2, <3>1 DEF ThreadsFrom, Reachable
  <2>2. CASE TagThreads(a)
    <3> DEFINE T == {t \in addThreads[a] : thread[t] = None}
    <3>1. /\ adding[a] = "threads" /\ adding'[a] = "messages" /\ addThreads'[a] = T
          /\ addMail'[a] = MailOf(addFor[a], T)
      BY <2>2 DEF TagThreads, TypeOK
    <3>2. From[m] = a => msgs[m].thread \in T
      BY <1>2, <3>1 DEF Reachable
    <3> HIDE DEF T
    <3>3. msgs[m].thread \in T => m \in MailOf(addFor[a], T)
      BY DEF MailOf, UntaggedIn, Missed
    <3> QED
      BY <3>1, <3>2, <3>3
  <2>3. CASE Rollback(a)
    BY <2>3 DEF Rollback, EndTransaction, TypeOK
  <2> QED
    BY <2>1, <2>2, <2>3
<1>5. \A b \in Senders : WrittenFor(b, msgs[m].thread)' => m \in addMail'[b]
  BY <1>1, <1>2, <1>3, <1>4 DEF Reachable, WrittenFor
<1>6. /\ adding'[From[m]] = "threads" => msgs'[m].thread \in addThreads'[From[m]]
      /\ adding'[From[m]] = "messages" => m \in addMail'[From[m]]
  BY <1>1, <1>2, <1>3, <1>4 DEF Reachable
<1> QED
  BY <1>1, <1>2, <1>5, <1>6 DEF Reachable

\* CommitAuthorization: the sender's mail and that of the threads is tagged.
LEMMA CommitReaches ==
    ASSUME Base, Isolated, Reaches, NEW a \in Senders, CommitAuthorization(a)
    PROVE  Reaches'
<1> USE DEF Base
<1>1. /\ adding[a] = "messages"
      /\ UNCHANGED <<pc, thr, batch, stale>>
      /\ senders' = [senders EXCEPT ![a] = addFor[a]]
      /\ EndTransaction(a)
  BY DEF CommitAuthorization, EndTransaction, localVars
<1>2. /\ addFor[a] \in Grantees
      /\ \A t \in Messages : thread'[t] = IF t \in addThreads[a] THEN addFor[a] ELSE thread[t]
      /\ \A m \in Messages :
            /\ msgs'[m].thread = msgs[m].thread
            /\ msgs'[m].grantee = IF m \in addMail[a] /\ msgs[m].grantee = None
                                  THEN addFor[a] ELSE msgs[m].grantee
  BY CommitEffect
<1> SUFFICES ASSUME NEW m \in Messages, Missed(m)' PROVE Reachable(m)'
  BY DEF Reaches
<1>3. Missed(m) /\ m \notin addMail[a] /\ msgs[m].thread \in Messages /\ From[m] \in Senders
  BY <1>1, <1>2, NoneAssumption, FromAssumption DEF Missed, Stored, TypeOK
<1>4. Reachable(m)
  BY <1>3 DEF Reaches
<1>5. From[m] # a /\ msgs[m].thread \notin addThreads[a]
  BY <1>1, <1>3, <1>4 DEF Reachable, WrittenFor
<1>6. /\ adding'[a] = "none"
      /\ \A b \in Senders : b # a => /\ adding'[b] = adding[b] /\ addThreads'[b] = addThreads[b]
                                     /\ addMail'[b] = addMail[b] /\ senders'[b] = senders[b]
  BY <1>1 DEF EndTransaction, TypeOK
<1>7. \A b \in Senders : WrittenFor(b, msgs[m].thread)' => m \in addMail'[b]
  BY <1>2, <1>4, <1>6 DEF Reachable, WrittenFor
<1>8. thread'[msgs'[m].thread] = None /\ senders'[From[m]] = None
  BY <1>2, <1>3, <1>4, <1>5, <1>6 DEF Reachable
<1>9. /\ adding'[From[m]] = "threads" => msgs'[m].thread \in addThreads'[From[m]]
      /\ adding'[From[m]] = "messages" => m \in addMail'[From[m]]
  BY <1>2, <1>3, <1>4, <1>5, <1>6 DEF Reachable
<1>10. \A f \in Folders : pc'[f] = "commit" /\ thr'[f] = msgs'[m].thread => m \in batch'[f]
  BY <1>1, <1>2, <1>4 DEF Reachable
<1> QED
  BY <1>7, <1>8, <1>9, <1>10 DEF Reachable

\* Every step keeps the fourth part of the invariant.
LEMMA NextReaches == Base /\ Isolated /\ Reaches /\ [Next]_vars => Reaches'
<1> SUFFICES ASSUME Base, Isolated, Reaches, [Next]_vars PROVE Reaches'
  OBVIOUS
<1> USE DEF Base
<1>1. ASSUME NEW F \in SUBSET Folders, UNCHANGED <<mailVars, addVars, senders, stale>>,
             \A g \in Folders \ F : Still(g),
             \A f \in F : pc'[f] # "commit"
      PROVE  Reaches'
  BY <1>1, ReachesFramedTables
<1>2. ASSUME NEW f \in Folders, NEW m \in Arriving[f], Deliver(f, m) PROVE Reaches'
  <2>1. m \in Messages
    BY ArrivingAssumption
  <2>2. \A g \in Folders : Still(g)
    BY <1>2, <2>1, DeliverExtends DEF Deliver, Still, localVars
  <2> QED
    BY <1>1, <1>2, <2>2, {} \in SUBSET Folders DEF Deliver, tagVars
<1>3. ASSUME NEW F \in SUBSET Folders, Cut(F), UNCHANGED <<mailVars, tagVars, stale>>,
             \A g \in Folders \ F : Extended(g)
      PROVE  Reaches'
  <2>1. \A g \in Folders \ F : Still(g)
    BY <1>3, CutFramed
  <2>2. \A f \in F : pc'[f] # "commit"
    BY <1>3 DEF Cut
  <2> QED
    BY <1>1, <1>3, <2>1, <2>2 DEF tagVars
<1>4. ASSUME NEW f \in Folders, Rebuild(f) \/ SessionEnds(f) PROVE Reaches'
  <2>1. \A g \in Folders \ {f} : Extended(g)
    BY <1>4, OthersExtended
  <2>2. Cut({f}) /\ UNCHANGED <<mailVars, tagVars, stale>> /\ {f} \in SUBSET Folders
    BY <1>4 DEF Rebuild, SessionEnds
  <2> QED
    BY <1>3, <2>1, <2>2
<1>5. CASE Crash
  <2>1. Folders \in SUBSET Folders
    OBVIOUS
  <2> QED
    BY <1>3, <1>5, <2>1 DEF Crash
<1>6. ASSUME NEW f \in Folders, Select(f) \/ Changed(f) \/ sync(f) PROVE Reaches'
  <2>1. /\ \A g \in Folders \ {f} : Still(g)
        /\ {f} \in SUBSET Folders
    BY <1>6, OthersStill
  <2>2. CASE CreateThread(f) \/ InsertMessage(f) \/ PromoteThread(f) \/ SetThreadGrantee(f)
    BY <2>1, <2>2, CreateThreadReaches, InsertMessageReaches, PromoteThreadReaches,
       SetThreadGranteeReaches
  <2>3. CASE QuietStep(f)
    <3>1. UNCHANGED <<mailVars, tagVars, stale>> /\ pc'[f] # "commit"
      BY <2>3, QuietSteps
    <3> QED
      BY <1>1, <2>1, <3>1 DEF tagVars
  <2> QED
    BY <1>6, <2>2, <2>3 DEF sync, handleMessage, QuietStep
<1>7. ASSUME NEW a \in Senders, NEW g \in Grantees, AddGranteeEmail(g, a) PROVE Reaches'
  BY <1>7, OpenTransactionReaches
<1>8. ASSUME NEW a \in Senders, NEW g \in Grantees, RemoveGranteeEmail(g, a) PROVE Reaches'
  <2>1. \A f \in Folders : Still(f)
    BY <1>8, Untouched DEF RemoveGranteeEmail, Still, imapVars, localVars
  <2>2. \A b \in Senders : senders[b] = None => senders'[b] = None
    BY <1>8 DEF RemoveGranteeEmail, TypeOK
  <2>3. UNCHANGED <<mailVars, addVars, stale>>
    BY <1>8 DEF RemoveGranteeEmail
  <2> QED
    BY <2>1, <2>2, <2>3, ReachesFramedTables, {} \in SUBSET Folders
<1>9. ASSUME NEW a \in Senders, TagThreads(a) \/ Rollback(a) \/ CommitAuthorization(a)
      PROVE  Reaches'
  <2>1. adding[a] # "none"
    BY <1>9 DEF TagThreads, CommitAuthorization, Rollback
  <2>2. addFor[a] \in Grantees
    BY <2>1 DEF Isolated, TransactionOK
  <2> QED
    BY <1>9, <2>2, OpenTransactionReaches, CommitReaches
<1>10. CASE UNCHANGED vars
  <2>1. \A f \in Folders : Still(f)
    BY <1>10, Untouched DEF vars, Still, imapVars, localVars
  <2> QED
    BY <1>1, <1>10, <2>1, {} \in SUBSET Folders DEF vars, tagVars
<1> QED
  BY <1>2, <1>4, <1>5, <1>6, <1>7, <1>8, <1>9, <1>10 DEF Next

(***************************************************************************)
(* The fifth part of the invariant: promotions.                            *)
(***************************************************************************)
\* A worker is about to promote its thread, or to commit that.
Promotes(f) == pc[f] \in {"promote", "commit"}

\* m's worker is about to promote m's own thread.  A worker handling a second copy of
\* m may be about to promote another thread, which does not help m's.
AboutToPromote(m) ==
    \E f \in Folders : Promotes(f) /\ Handling(f) = m /\ thr[f] = msgs[m].thread

\* m is tagged and its thread is not.
Ahead(m) == Stored(m) /\ msgs[m].grantee # None /\ thread[msgs[m].thread] = None

Promoted == \A m \in Messages : Ahead(m) => m \in lost \/ AboutToPromote(m)

\* No mail at the start.
LEMMA InitPromoted == Init => Promoted
BY DEF Init, Promoted, Ahead, Stored, NoMessage

\* The workers of F move: a promotion they had in hand is on record or done, and they
\* leave no other message ahead of its thread.
LEMMA PromotedFramed ==
    ASSUME Base, Promoted, Grows, NEW F \in SUBSET Folders, lost \subseteq lost',
           \A g \in Folders \ F : Still(g),
           \A f \in F : Promotes(f) =>
              \/ Handling(f) \in lost' \/ thread'[thr[f]] \in Grantees
              \/ Promotes(f)' /\ Handling(f)' = Handling(f) /\ thr'[f] = thr[f],
           \A m \in Messages : Ahead(m)' => Ahead(m) \/ m \in lost' \/ AboutToPromote(m)'
    PROVE  Promoted'
<1> USE DEF Base
<1> SUFFICES ASSUME NEW m \in Messages, Ahead(m), Ahead(m)'
             PROVE  m \in lost' \/ AboutToPromote(m)'
  BY DEF Promoted
<1>1. CASE m \in lost
  BY <1>1
<1>2. CASE AboutToPromote(m)
  <2>1. PICK f \in Folders : Promotes(f) /\ Handling(f) = m /\ thr[f] = msgs[m].thread
    BY <1>2 DEF AboutToPromote
  <2>2. msgs'[m].thread = msgs[m].thread
    BY DEF Ahead, Grows
  <2>3. CASE f \in F
    <3>1. thread'[thr[f]] = None
      BY <2>1, <2>2 DEF Ahead
    <3> QED
      BY <2>1, <2>2, <2>3, <3>1, NoneAssumption DEF AboutToPromote
  <2>4. CASE f \notin F
    <3>1. Still(f) /\ Placed(f)
      BY <2>4
    <3>2. pc[f] \in MessagePc /\ cur'[f] = cur[f] /\ Extended(f) /\ Promotes(f)' /\ thr'[f] = thr[f]
      BY <2>1, <3>1 DEF Still, MessagePc, Promotes
    <3>3. Handling(f)' = Handling(f)
      BY <3>1, <3>2, HandlingType
    <3> QED
      BY <2>1, <2>2, <3>2, <3>3 DEF AboutToPromote
  <2> QED
    BY <2>3, <2>4
<1> QED
  BY <1>1, <1>2 DEF Promoted

\* Steps that leave the tables alone.
LEMMA PromotedFramedTables ==
    ASSUME Base, Promoted, NEW F \in SUBSET Folders, UNCHANGED mailVars, lost \subseteq lost',
           \A g \in Folders \ F : Still(g),
           \A f \in F : Promotes(f) => Handling(f) \in lost'
    PROVE  Promoted'
<1>1. Grows
  BY Untouched DEF Base
<1>2. \A m \in Messages : Ahead(m)' = Ahead(m)
  BY DEF Ahead, Stored, mailVars
<1> QED
  BY <1>1, <1>2, PromotedFramed

\* A worker that is cut off leaves its promotion on record.
LEMMA CutPromoted ==
    ASSUME Base, Promoted, NEW F \in SUBSET Folders, Cut(F), UNCHANGED mailVars,
           \A g \in Folders \ F : Extended(g)
    PROVE  Promoted'
<1>1. \A g \in Folders \ F : Still(g)
  BY CutFramed DEF Base
<1>2. lost \subseteq lost' /\ \A f \in F : Promotes(f) => Handling(f) \in lost'
  BY DEF Cut, Promoting, Promotes
<1> QED
  BY <1>1, <1>2, PromotedFramedTables

\* CreateThread: no stored message was waiting for the new thread.
LEMMA CreateThreadPromoted ==
    ASSUME Base, Promoted, NEW f \in Folders, CreateThread(f), Grows,
           \A g \in Folders \ {f} : Still(g)
    PROVE  Promoted'
<1> USE DEF Base
<1>1. pc[f] = "create" /\ UNCHANGED <<msgs, lost>>
  BY DEF CreateThread
<1>2. Root(Handling(f)) \in Messages
  BY <1>1, HandlingType, CandidatesType DEF MessagePc
<1>3. \/ thread' = [thread EXCEPT ![Root(Handling(f))] = None] /\ thread[Root(Handling(f))] = Absent
      \/ thread' = thread
  BY DEF CreateThread
<1>4. ASSUME NEW m \in Messages, Ahead(m)' PROVE Ahead(m)
  <2>1. Stored(m) /\ msgs[m].thread \in Messages /\ thread[msgs[m].thread] # Absent
    BY <1>1, <1>4 DEF Ahead, Stored, ThreadsExist, TypeOK
  <2>2. thread[msgs[m].thread] = None
    BY <1>1, <1>2, <1>3, <1>4, <2>1 DEF Ahead, TypeOK
  <2> QED
    BY <1>1, <1>4, <2>2 DEF Ahead, Stored
<1>5. {f} \in SUBSET Folders
  OBVIOUS
<1> QED
  BY <1>1, <1>4, <1>5, PromotedFramed DEF Promotes

\* InsertMessage: a tag that is not the thread's is the sender's, and PromoteThread follows.
LEMMA InsertMessagePromoted ==
    ASSUME Base, Promoted, NEW f \in Folders, InsertMessage(f), Grows,
           \A g \in Folders \ {f} : Still(g)
    PROVE  Promoted'
<1> USE DEF Base
<1>1. pc[f] = "insert" /\ Inserted(f) /\ UNCHANGED <<thread, box>>
  BY DEF InsertMessage, imapVars
<1>2. /\ Handling(f) \in Messages
      /\ \A m \in Messages : Stored(m) \/ m # Handling(f) => msgs'[m] = msgs[m]
      /\ ~Stored(Handling(f)) => msgs'[Handling(f)] = [thread |-> thr[f], grantee |-> res[f]]
  BY <1>1, InsertedEffect
<1>3. lost \subseteq lost'
  BY DEF InsertMessage
<1>4. ASSUME NEW m \in Messages, Ahead(m)', ~Ahead(m)
      PROVE  m \in lost' \/ AboutToPromote(m)'
  <2>1. ~Stored(m) /\ m = Handling(f)
    BY <1>1, <1>2, <1>4 DEF Ahead, Stored
  <2>2. msgs'[m].thread = thr[f] /\ msgs'[m].grantee = res[f]
    BY <1>2, <2>1
  <2>3. bySender[f]
    BY <1>1, <1>4, <2>2, NoneAssumption DEF Ahead, Prepared
  <2>4. CASE lost' = IF bySender[f] THEN lost \cup {Handling(f)} ELSE lost
    BY <2>1, <2>3, <2>4
  <2>5. CASE /\ Proceed(f, IF bySender[f] THEN "promote" ELSE "touch")
             /\ UNCHANGED <<localVars, lost>>
    <3>1. pc'[f] = "promote" /\ cur' = cur /\ thr' = thr
      BY <2>3, <2>5 DEF Proceed, Goto, localVars, TypeOK
    <3>2. Handling(f)' = m
      BY <1>1, <2>1, <3>1 DEF Handling
    <3> QED
      BY <2>2, <3>1, <3>2 DEF AboutToPromote, Promotes
  <2> QED
    BY <2>4, <2>5 DEF InsertMessage
<1>5. {f} \in SUBSET Folders
  OBVIOUS
<1> QED
  BY <1>1, <1>3, <1>4, <1>5, PromotedFramed DEF Promotes

\* SetThreadGrantee: the promotion is under way.
LEMMA SetThreadGranteePromoted ==
    ASSUME Base, Promoted, NEW f \in Folders, SetThreadGrantee(f), Grows,
           \A g \in Folders \ {f} : Still(g)
    PROVE  Promoted'
<1> USE DEF Base
<1>1. /\ pc' = [pc EXCEPT ![f] = "commit"] /\ pc[f] = "promote"
      /\ UNCHANGED <<box, cur, thr, thread, msgs, lost>>
  BY DEF SetThreadGrantee, Proceed, Goto, imapVars, mailVars
<1>2. Promotes(f)' /\ Handling(f)' = Handling(f) /\ thr'[f] = thr[f]
  BY <1>1 DEF Promotes, Handling, TypeOK
<1>3. \A m \in Messages : Ahead(m)' = Ahead(m)
  BY <1>1 DEF Ahead, Stored
<1>4. {f} \in SUBSET Folders
  OBVIOUS
<1> QED
  BY <1>1, <1>2, <1>3, <1>4, PromotedFramed

\* PromoteThread: the thread is tagged, by this call or before it, and so is all the
\* mail that is tagged with it.
LEMMA PromoteThreadPromoted ==
    ASSUME Base, Isolated, Promoted, NEW f \in Folders, PromoteThread(f), Grows,
           \A g \in Folders \ {f} : Still(g)
    PROVE  Promoted'
<1> USE DEF Base
<1>1. lost' = lost /\ \A m \in batch[f] : msgs[m].thread = thr[f]
  BY DEF PromoteThread, Isolated, CommitOK
<1>2. /\ \A s \in Messages : s # thr[f] => thread'[s] = thread[s]
      /\ thread'[thr[f]] \in Grantees
      /\ \A m \in Messages :
            /\ msgs'[m].thread = msgs[m].thread
            /\ msgs'[m].grantee = IF m \in batch[f] /\ msgs[m].grantee = None
                                  THEN res[f] ELSE msgs[m].grantee
  BY PromoteThreadEffect
<1>3. ASSUME NEW m \in Messages, Ahead(m)' PROVE Ahead(m)
  <2>1. Stored(m) /\ msgs[m].thread \in Messages
    BY <1>2, <1>3 DEF Ahead, Stored, TypeOK
  <2>2. msgs[m].thread # thr[f]
    BY <1>2, <1>3, NoneAssumption DEF Ahead
  <2> QED
    BY <1>1, <1>2, <1>3, <2>1, <2>2 DEF Ahead
<1>4. {f} \in SUBSET Folders
  OBVIOUS
<1> QED
  BY <1>1, <1>2, <1>3, <1>4, PromotedFramed

\* CommitAuthorization: the mail it tags lies in threads with a tag.
LEMMA CommitPromoted ==
    ASSUME Base, Isolated, Promoted, NEW a \in Senders, CommitAuthorization(a)
    PROVE  Promoted'
<1> USE DEF Base
<1>1. /\ Grows /\ addFor[a] \in Grantees
      /\ \A t \in Messages : thread'[t] = IF t \in addThreads[a] THEN addFor[a] ELSE thread[t]
      /\ \A m \in Messages :
            /\ msgs'[m].thread = msgs[m].thread
            /\ msgs'[m].grantee = IF m \in addMail[a] /\ msgs[m].grantee = None
                                  THEN addFor[a] ELSE msgs[m].grantee
  BY CommitEffect
<1>2. \A m \in addMail[a] : msgs[m].thread \in addThreads[a] \/ thread[msgs[m].thread] = addFor[a]
  BY DEF CommitAuthorization, Isolated, TransactionOK
<1>3. ASSUME NEW m \in Messages, Ahead(m)' PROVE Ahead(m)
  <2>1. Stored(m) /\ msgs[m].thread \in Messages
    BY <1>1, <1>3 DEF Ahead, Stored, TypeOK
  <2>2. msgs[m].thread \notin addThreads[a] /\ thread[msgs[m].thread] = None
    BY <1>1, <1>3, <2>1, NoneAssumption DEF Ahead
  <2>3. msgs'[m].grantee = msgs[m].grantee
    BY <1>1, <1>2, <2>2, NoneAssumption
  <2> QED
    BY <1>3, <2>1, <2>2, <2>3 DEF Ahead
<1>4. UNCHANGED <<box, pc, localVars, lost>>
  BY DEF CommitAuthorization, EndTransaction, imapVars
<1>5. \A f \in Folders : Still(f)
  BY <1>4, Untouched DEF Still, localVars
<1> QED
  BY <1>1, <1>3, <1>4, <1>5, PromotedFramed, {} \in SUBSET Folders

\* Every step keeps the fifth part of the invariant.
LEMMA NextPromoted == Base /\ Isolated /\ Promoted /\ [Next]_vars => Promoted'
<1> SUFFICES ASSUME Base, Isolated, Promoted, [Next]_vars PROVE Promoted'
  OBVIOUS
<1> USE DEF Base
<1>1. CASE UNCHANGED vars
  <2>1. \A f \in Folders : Still(f)
    BY <1>1, Untouched DEF vars, Still, imapVars, localVars
  <2> QED
    BY <1>1, <2>1, PromotedFramedTables, {} \in SUBSET Folders DEF vars
<1>2. ASSUME NEW f \in Folders, NEW m \in Arriving[f], Deliver(f, m) PROVE Promoted'
  <2>1. m \in Messages
    BY ArrivingAssumption
  <2>2. \A g \in Folders : Still(g)
    BY <1>2, <2>1, DeliverExtends DEF Deliver, Still, localVars
  <2> QED
    BY <1>2, <2>2, PromotedFramedTables, {} \in SUBSET Folders DEF Deliver
<1>3. ASSUME NEW f \in Folders, Rebuild(f) \/ SessionEnds(f) PROVE Promoted'
  <2>1. \A g \in Folders \ {f} : Extended(g)
    BY <1>3, OthersExtended
  <2>2. Cut({f}) /\ UNCHANGED mailVars /\ {f} \in SUBSET Folders
    BY <1>3 DEF Rebuild, SessionEnds
  <2> QED
    BY <2>1, <2>2, CutPromoted
<1>4. CASE Crash
  <2>1. Folders \in SUBSET Folders
    OBVIOUS
  <2> QED
    BY <1>4, <2>1, CutPromoted DEF Crash
<1>5. ASSUME NEW f \in Folders, Select(f) \/ Changed(f) \/ sync(f) PROVE Promoted'
  <2>1. /\ \A g \in Folders \ {f} : Still(g)
        /\ {f} \in SUBSET Folders
    BY <1>5, OthersStill
  <2>2. Grows
    <3>1. Next
      BY <1>5 DEF Next
    <3> QED
      BY <3>1, NextGrows
  <2>3. CASE CreateThread(f) \/ InsertMessage(f) \/ PromoteThread(f) \/ SetThreadGrantee(f)
    BY <2>1, <2>2, <2>3, CreateThreadPromoted, InsertMessagePromoted, PromoteThreadPromoted,
       SetThreadGranteePromoted
  <2>4. CASE CallFails(f)
    BY <2>1, <2>4, PromotedFramedTables DEF CallFails, Promoting, Promotes
  <2>5. CASE UNCHANGED mailVars /\ lost' = lost /\ ~Promotes(f)
    BY <2>1, <2>5, PromotedFramedTables
  <2> QED
    BY <1>5, <2>3, <2>4, <2>5 DEF Select, Changed, sync, handleMessage, GetMailboxState, NextMessage,
       SaveMailboxState, MessageExistsByID, FindThreadByRoot, FindThreadByMember, FindThreadAgain,
       LookupGranteeByEmail, GetThread, TouchThread, Promotes
<1>6. ASSUME NEW a \in Senders,
             \/ \E g \in Grantees : AddGranteeEmail(g, a) \/ RemoveGranteeEmail(g, a)
             \/ TagThreads(a) \/ Rollback(a)
      PROVE  Promoted'
  <2>1. UNCHANGED <<imapVars, mailVars, pc, localVars, lost>>
    BY <1>6 DEF AddGranteeEmail, RemoveGranteeEmail, TagThreads, Rollback, EndTransaction
  <2>2. \A f \in Folders : Still(f)
    BY <2>1, Untouched DEF Still, imapVars, localVars
  <2> QED
    BY <2>1, <2>2, PromotedFramedTables, {} \in SUBSET Folders
<1>7. ASSUME NEW a \in Senders, CommitAuthorization(a) PROVE Promoted'
  BY <1>7, CommitPromoted
<1> QED
  BY <1>1, <1>2, <1>3, <1>4, <1>5, <1>6, <1>7 DEF Next

(***************************************************************************)
(* The sixth part of the invariant: attributions.                          *)
(***************************************************************************)
\* No conversation holds one of m and t without the other.
Together(m, t) == \A C \in Conversations : m \in C <=> t \in C

\* Every conversation m is in holds a message whose sender was authorized for g.
Entitled(m, g) ==
    \A C \in Conversations : m \in C => \E n \in C : <<From[n], g>> \in granted

\* A message lies in the conversations of its thread, and its tag is accounted for.
AttributedMail(m) ==
    Stored(m) =>
        /\ Together(m, msgs[m].thread)
        /\ \A g \in Grantees : msgs[m].grantee = g => Entitled(m, g)

\* So is the tag a worker has in hand, and the thread it found.
AttributedWork(f) ==
    IF pc[f] \in ThreadedPc
    THEN /\ Together(Handling(f), thr[f])
         /\ \A g \in Grantees : res[f] = g => Entitled(Handling(f), g)
    ELSE res[f] = None

Attributed ==
    /\ \A a \in Senders : senders[a] # None => <<a, senders[a]>> \in granted
    /\ \A t \in Messages, g \in Grantees : thread[t] = g => Entitled(t, g)
    /\ \A m \in Messages : AttributedMail(m)
    /\ \A f \in Folders : AttributedWork(f)

\* FindThreadByRefs and CreateThread stay in the conversation.
LEMMA CandidatesTogether ==
    ASSUME NEW m \in Messages, NEW t \in ThreadCandidates(m)
    PROVE  Together(m, t)
<1> SUFFICES ASSUME NEW C \in Conversations PROVE m \in C <=> t \in C
  BY DEF Together
<1>1. m \in ThreadCandidates(m)
  BY DEF ThreadCandidates
<1>2. PICK x \in Messages : C = {n \in Messages : \A D \in Closed : x \in D => n \in D}
  BY DEF Conversations
<1>3. \A D \in Closed : m \in D <=> t \in D
  BY <1>1 DEF Closed
<1>4. t \in Messages
  BY CandidatesType
<1> QED
  BY <1>2, <1>3, <1>4

\* What entitles a thread entitles its mail, and the other way round.
LEMMA EntitledTogether ==
    ASSUME NEW m, NEW t, NEW g, Together(m, t)
    PROVE  Entitled(m, g) <=> Entitled(t, g)
BY DEF Together, Entitled

\* A message's own sender entitles it.
LEMMA EntitledBySender ==
    ASSUME NEW m, NEW g, <<From[m], g>> \in granted
    PROVE  Entitled(m, g)
BY DEF Entitled

\* Nothing that was authorized is forgotten.
LEMMA EntitledKept ==
    ASSUME NEW m, NEW g, granted \subseteq granted', Entitled(m, g)
    PROVE  Entitled(m, g)'
BY DEF Entitled

\* A step that moves the workers of F.
LEMMA AttributedFramed ==
    ASSUME Base, Attributed, granted \subseteq granted', NEW F \in SUBSET Folders,
           \A a \in Senders : senders'[a] # None => <<a, senders'[a]>> \in granted',
           \A t \in Messages, g \in Grantees :
              thread'[t] = g => thread[t] = g \/ Entitled(t, g)',
           \A m \in Messages : msgs'[m] = msgs[m] \/ AttributedMail(m)',
           \A g \in Folders \ F : Still(g),
           \A f \in F : AttributedWork(f)'
    PROVE  Attributed'
<1> USE DEF Base
<1>1. \A t \in Messages, g \in Grantees : thread'[t] = g => Entitled(t, g)'
  BY EntitledKept DEF Attributed
<1>2. ASSUME NEW m \in Messages, msgs'[m] = msgs[m] PROVE AttributedMail(m)'
  BY <1>2, EntitledKept DEF Attributed, AttributedMail, Stored, Together
<1>3. ASSUME NEW f \in Folders, Still(f) PROVE AttributedWork(f)'
  <2> SUFFICES ASSUME pc'[f] \in ThreadedPc
               PROVE  /\ Together(Handling(f), thr[f])'
                      /\ \A g \in Grantees : res'[f] = g => Entitled(Handling(f), g)'
    BY <1>3 DEF Attributed, AttributedWork, Still
  <2>1. /\ pc[f] \in ThreadedPc /\ pc[f] \in MessagePc /\ cur'[f] = cur[f] /\ Extended(f)
        /\ thr'[f] = thr[f] /\ res'[f] = res[f]
    BY <1>3 DEF Still, ThreadedPc, MessagePc
  <2>2. PICK m \in Messages : Handling(f) = m /\ Handling(f)' = m
    BY <2>1, HandlingType
  <2>3. PICK t \in Messages : thr[f] = t /\ thr'[f] = t
    BY <2>1 DEF Prepared
  <2>4. Together(m, t) /\ \A g \in Grantees : res[f] = g => Entitled(m, g)
    BY <2>1, <2>2, <2>3 DEF Attributed, AttributedWork
  <2>5. \A g \in Grantees : res'[f] = g => Entitled(m, g)'
    BY <2>1, <2>4, EntitledKept
  <2>6. Together(Handling(f), thr[f])'
    BY <2>2, <2>3, <2>4 DEF Together
  <2>7. \A g \in Grantees : res'[f] = g => Entitled(Handling(f), g)'
    BY <2>2, <2>5 DEF Entitled
  <2> QED
    BY <2>6, <2>7
<1> QED
  BY <1>1, <1>2, <1>3 DEF Attributed

\* Steps that leave the tables alone.
LEMMA AttributedFramedTables ==
    ASSUME Base, Attributed, UNCHANGED <<mailVars, granted>>, NEW F \in SUBSET Folders,
           \A a \in Senders : senders'[a] = senders[a] \/ senders'[a] = None,
           \A g \in Folders \ F : Still(g),
           \A f \in F : AttributedWork(f)'
    PROVE  Attributed'
<1>1. \A a \in Senders : senders'[a] # None => <<a, senders'[a]>> \in granted'
  BY DEF Attributed
<1>2. thread' = thread /\ msgs' = msgs /\ granted \subseteq granted'
  BY DEF mailVars
<1> QED
  BY <1>1, <1>2, AttributedFramed

\* Nothing is attributed at the start.
LEMMA InitAttributed == Init => Attributed
<1> SUFFICES ASSUME Init PROVE Attributed
  OBVIOUS
<1> USE DEF Init
<1>1. \A t \in Messages, g \in Grantees : thread[t] # g
  BY AbsentAssumption
<1>2. \A m \in Messages : AttributedMail(m)
  BY DEF AttributedMail, Stored, NoMessage
<1>3. \A f \in Folders : AttributedWork(f)
  BY DEF AttributedWork, ThreadedPc
<1> QED
  BY <1>1, <1>2, <1>3 DEF Attributed

\* A call of handleMessage that leaves the worker with thread t.
LEMMA WorkStep ==
    ASSUME NEW f \in Folders, NEW m \in Messages, Handling(f) = m, box' = box, cur' = cur,
           NEW t \in Messages, thr'[f] = t, Together(m, t), pc'[f] \in ThreadedPc,
           \A g \in Grantees : res'[f] = g => Entitled(m, g)'
    PROVE  AttributedWork(f)'
<1>1. Handling(f)' = m
  BY DEF Handling
<1>2. Together(Handling(f), thr[f])'
  BY <1>1 DEF Together
<1>3. \A g \in Grantees : res'[f] = g => Entitled(Handling(f), g)'
  BY <1>1 DEF Entitled
<1> QED
  BY <1>2, <1>3 DEF AttributedWork

\* The calls that find a thread find one of the conversation.
LEMMA FindThreadAttributed ==
    ASSUME Base, Attributed, NEW f \in Folders,
           FindThreadByRoot(f) \/ FindThreadByMember(f) \/ FindThreadAgain(f)
    PROVE  AttributedWork(f)'
<1> USE DEF Base
<1>1. /\ pc[f] \in {"find_root", "find_member", "find_again"} /\ pc[f] \in MessagePc
      /\ UNCHANGED <<imapVars, mailVars, tagVars, cur, res>>
  BY DEF FindThreadByRoot, FindThreadByMember, FindThreadAgain, MessagePc
<1>2. PICK m \in Messages : Handling(f) = m
  BY <1>1, HandlingType
<1>3. res'[f] = None
  BY <1>1 DEF Attributed, AttributedWork, ThreadedPc
<1>4. /\ ThreadCandidates(m) \subseteq Messages
      /\ Root(m) \in ThreadCandidates(m)
  BY CandidatesType
<1>5. \/ pc'[f] \notin ThreadedPc
      \/ \E t \in Messages : Together(m, t) /\ thr'[f] = t /\ pc'[f] \in ThreadedPc
  <2>1. CASE FindThreadByRoot(f)
    BY <1>2, <1>4, <2>1, CandidatesTogether
       DEF FindThreadByRoot, Proceed, Goto, TypeOK, ThreadedPc
  <2>2. CASE FindThreadAgain(f)
    BY <1>2, <1>4, <2>2, CandidatesTogether
       DEF FindThreadAgain, Proceed, Goto, TypeOK, ThreadedPc
  <2>3. CASE FindThreadByMember(f)
    <3>1. CASE pc'[f] = "create"
      BY <3>1 DEF ThreadedPc
    <3>2. CASE \E n \in ThreadCandidates(m) : /\ Stored(n)
                                              /\ thr'[f] = msgs[n].thread /\ pc'[f] = "lookup"
      <4>1. PICK n \in ThreadCandidates(m) : Stored(n) /\ thr'[f] = msgs[n].thread /\ pc'[f] = "lookup"
        BY <3>2
      <4>2. Together(m, n) /\ Together(n, msgs[n].thread) /\ msgs[n].thread \in Messages
        BY <1>4, <4>1, CandidatesTogether DEF Attributed, AttributedMail, TypeOK, Stored
      <4>3. Together(m, msgs[n].thread)
        BY <4>2 DEF Together
      <4> QED
        BY <4>1, <4>2, <4>3 DEF ThreadedPc
    <3> QED
      BY <1>2, <2>3, <3>1, <3>2 DEF FindThreadByMember, Proceed, Goto, TypeOK
  <2> QED
    BY <2>1, <2>2, <2>3
<1>6. CASE pc'[f] \notin ThreadedPc
  BY <1>3, <1>6 DEF AttributedWork
<1>7. ASSUME NEW t \in Messages, Together(m, t), thr'[f] = t, pc'[f] \in ThreadedPc
      PROVE  AttributedWork(f)'
  BY <1>1, <1>2, <1>3, <1>7, NoneAssumption, WorkStep DEF imapVars
<1> QED
  BY <1>5, <1>6, <1>7

\* Resolve: the sender's own tag, or the tag of its thread.
LEMMA ResolveAttributed ==
    ASSUME Base, Attributed, NEW f \in Folders, LookupGranteeByEmail(f) \/ GetThread(f)
    PROVE  AttributedWork(f)'
<1> USE DEF Base
<1>1. /\ pc[f] \in ThreadedPc /\ pc[f] \in MessagePc
      /\ UNCHANGED <<imapVars, mailVars, tagVars, cur, thr>>
  BY DEF LookupGranteeByEmail, GetThread, MessagePc, ThreadedPc
<1>2. PICK m \in Messages : Handling(f) = m
  BY <1>1, HandlingType
<1>3. thr[f] \in Messages /\ Together(m, thr[f])
  BY <1>1, <1>2 DEF Prepared, Attributed, AttributedWork
<1>4. pc'[f] \in ThreadedPc
  BY DEF LookupGranteeByEmail, GetThread, Proceed, Goto, TypeOK, ThreadedPc
<1>5. ASSUME NEW g \in Grantees, res'[f] = g PROVE Entitled(m, g)
  <2>1. CASE GetThread(f)
    <3>1. thread[thr[f]] = g
      BY <1>5, <2>1 DEF GetThread, TypeOK
    <3> QED
      BY <1>3, <3>1, EntitledTogether DEF Attributed
  <2>2. CASE LookupGranteeByEmail(f)
    <3>1. senders[From[m]] = g /\ From[m] \in Senders /\ g # None
      BY <1>2, <1>5, <2>2, FromAssumption, NoneAssumption DEF LookupGranteeByEmail, TypeOK
    <3> QED
      BY <3>1, EntitledBySender DEF Attributed
  <2> QED
    BY <2>1, <2>2
<1>6. \A g \in Grantees : res'[f] = g => Entitled(m, g)'
  BY <1>1, <1>5, EntitledKept DEF tagVars, addVars
<1> QED
  BY <1>1, <1>2, <1>3, <1>4, <1>6, WorkStep DEF imapVars

\* A worker outside handleMessage, or in a call before it knows the thread, has no tag in hand.
LEMMA NoWork ==
    ASSUME NEW f \in Folders, pc'[f] \notin ThreadedPc, res'[f] = None
    PROVE  AttributedWork(f)'
BY DEF AttributedWork

\* CreateThread: a new thread is rooted at a candidate.
LEMMA CreateThreadAttributed ==
    ASSUME Base, Attributed, NEW f \in Folders, CreateThread(f), \A g \in Folders \ {f} : Still(g)
    PROVE  Attributed'
<1> USE DEF Base
<1>1. pc[f] = "create" /\ pc[f] \in MessagePc /\ UNCHANGED <<imapVars, msgs, tagVars>>
  BY DEF CreateThread, MessagePc
<1>2. PICK m \in Messages : Handling(f) = m
  BY <1>1, HandlingType
<1>3. Root(m) \in Messages /\ Together(m, Root(m))
  BY CandidatesType, CandidatesTogether
<1>4. res[f] = None
  BY <1>1 DEF Attributed, AttributedWork, ThreadedPc
<1>5. \A t \in Messages, g \in Grantees : thread'[t] = g => thread[t] = g
  BY <1>2, <1>3, NoneAssumption DEF CreateThread, TypeOK
<1>6. AttributedWork(f)'
  <2>1. CASE CallLost(f)
    BY <2>1, NoWork DEF CallLost, GiveUp, Goto, ForgetMessage, TypeOK, ThreadedPc
  <2>2. CASE thr' = [thr EXCEPT ![f] = Root(Handling(f))] /\ Proceed(f, "lookup")
             /\ UNCHANGED <<sel, highest, todo, cur, res, bySender, batch>>
    <3>1. thr'[f] = Root(m) /\ pc'[f] \in ThreadedPc /\ res'[f] = None /\ cur' = cur /\ box' = box
      BY <1>1, <1>2, <1>4, <2>2 DEF Proceed, Goto, TypeOK, ThreadedPc, imapVars
    <3> QED
      BY <1>2, <1>3, <3>1, NoneAssumption, WorkStep
  <2>3. CASE Proceed(f, "find_again") /\ UNCHANGED localVars
    BY <1>4, <2>3, NoWork DEF Proceed, Goto, TypeOK, ThreadedPc, localVars
  <2> QED
    BY <2>1, <2>2, <2>3 DEF CreateThread
<1>7. \A a \in Senders : senders'[a] # None => <<a, senders'[a]>> \in granted'
  BY <1>1 DEF Attributed, tagVars, addVars
<1>8. {f} \in SUBSET Folders /\ granted \subseteq granted'
  BY <1>1 DEF tagVars, addVars
<1> QED
  BY <1>1, <1>5, <1>6, <1>7, <1>8, AttributedFramed

\* InsertMessage: the row gets the thread and the tag the worker has in hand.
LEMMA InsertMessageAttributed ==
    ASSUME Base, Attributed, NEW f \in Folders, InsertMessage(f), \A g \in Folders \ {f} : Still(g)
    PROVE  Attributed'
<1> USE DEF Base
<1>1. pc[f] = "insert" /\ Inserted(f) /\ UNCHANGED <<imapVars, thread, tagVars>>
  BY DEF InsertMessage
<1>2. PICK m \in Messages : Handling(f) = m
  BY <1>1, HandlingType DEF MessagePc
<1>3. /\ \A n \in Messages : Stored(n) \/ n # m => msgs'[n] = msgs[n]
      /\ ~Stored(m) => msgs'[m] = [thread |-> thr[f], grantee |-> res[f]]
      /\ thr[f] \in Messages
  BY <1>1, <1>2, InsertedEffect
<1>4. Together(m, thr[f]) /\ \A g \in Grantees : res[f] = g => Entitled(m, g)
  BY <1>1, <1>2 DEF Attributed, AttributedWork, ThreadedPc
<1>5. granted \subseteq granted'
  BY <1>1 DEF tagVars, addVars
<1>6. \A n \in Messages : msgs'[n] = msgs[n] \/ AttributedMail(n)'
  <2>1. CASE ~Stored(m)
    <3>1. msgs'[m].thread = thr[f] /\ msgs'[m].grantee = res[f]
      BY <1>3, <2>1
    <3>2. \A g \in Grantees : res[f] = g => Entitled(m, g)'
      BY <1>4, <1>5, EntitledKept
    <3>3. AttributedMail(m)'
      BY <1>4, <3>1, <3>2 DEF AttributedMail, Together
    <3> QED
      BY <1>3, <3>3
  <2> QED
    BY <1>3, <2>1
<1>7. AttributedWork(f)'
  <2>1. CASE CallLost(f)
    BY <2>1, NoWork DEF CallLost, GiveUp, Goto, ForgetMessage, TypeOK, ThreadedPc
  <2>2. CASE /\ Proceed(f, IF bySender[f] THEN "promote" ELSE "touch")
             /\ UNCHANGED <<localVars, lost>>
    <3>1. /\ thr'[f] = thr[f] /\ pc'[f] \in ThreadedPc /\ res'[f] = res[f]
          /\ cur' = cur /\ box' = box
      BY <1>1, <2>2 DEF Proceed, Goto, TypeOK, ThreadedPc, imapVars, localVars
    <3>2. \A g \in Grantees : res'[f] = g => Entitled(m, g)'
      BY <1>4, <1>5, <3>1, EntitledKept
    <3> QED
      BY <1>2, <1>3, <1>4, <3>1, <3>2, WorkStep
  <2> QED
    BY <2>1, <2>2 DEF InsertMessage
<1>8. \A a \in Senders : senders'[a] # None => <<a, senders'[a]>> \in granted'
  BY <1>1 DEF Attributed, tagVars, addVars
<1>9. {f} \in SUBSET Folders /\ thread' = thread
  BY <1>1
<1> QED
  BY <1>5, <1>6, <1>7, <1>8, <1>9, AttributedFramed

\* PromoteThread: what entitles the message entitles its thread, and the thread's mail.
LEMMA PromoteThreadAttributed ==
    ASSUME Base, Isolated, Attributed, NEW f \in Folders, PromoteThread(f),
           \A g \in Folders \ {f} : Still(g)
    PROVE  Attributed'
<1> USE DEF Base
<1>1. /\ pc[f] = "commit" /\ UNCHANGED <<imapVars, tagVars>>
      /\ \A m \in batch[f] : msgs[m].thread = thr[f]
  BY DEF PromoteThread, Isolated, CommitOK
<1>2. PICK m \in Messages : Handling(f) = m
  BY <1>1, HandlingType DEF MessagePc
<1>3. PICK t \in Messages, g \in Grantees : t = thr[f] /\ g = res[f]
  BY PromoteThreadEffect
<1>4. Together(m, t) /\ Entitled(m, g) /\ Entitled(t, g)
  BY <1>1, <1>2, <1>3, EntitledTogether DEF Attributed, AttributedWork, ThreadedPc
<1>5. granted \subseteq granted' /\ {f} \in SUBSET Folders
  BY <1>1 DEF tagVars, addVars
<1>6. /\ \A s \in Messages : s # t => thread'[s] = thread[s]
      /\ thread[t] = None => thread'[t] = g
      /\ thread[t] # None => thread'[t] = thread[t]
  <2>1. /\ thread[t] # Absent /\ Grows
        /\ \A s \in Messages : s # t => thread'[s] = thread[s]
        /\ thread[t] = None => thread'[t] = g
    BY <1>3, PromoteThreadEffect
  <2>2. thread[t] # None => thread[t] \in Grantees
    BY <2>1 DEF TypeOK
  <2> QED
    BY <2>1, <2>2 DEF Grows
<1>11. \A n \in Messages :
         /\ msgs'[n].thread = msgs[n].thread
         /\ msgs'[n].grantee = IF n \in batch[f] /\ msgs[n].grantee = None
                               THEN g ELSE msgs[n].grantee
  BY <1>3, PromoteThreadEffect
<1>7. \A s \in Messages, h \in Grantees : thread'[s] = h => thread[s] = h \/ Entitled(s, h)'
  BY <1>4, <1>5, <1>6, EntitledKept
<1>8. ASSUME NEW n \in Messages PROVE AttributedMail(n)'
  <2>0. Stored(n) => Together(n, msgs[n].thread)
    BY DEF Attributed, AttributedMail
  <2> SUFFICES ASSUME Stored(n), NEW h \in Grantees, msgs'[n].grantee = h
               PROVE  Entitled(n, h)'
    BY <1>11, <2>0 DEF AttributedMail, Stored, Together
  <2>2. Together(n, msgs[n].thread) /\ (msgs[n].grantee = h => Entitled(n, h))
    BY DEF Attributed, AttributedMail
  <2>3. CASE msgs[n].grantee = h
    BY <1>5, <2>2, <2>3, EntitledKept
  <2>4. CASE msgs[n].thread = t /\ h = g
    <3>1. Entitled(n, h)
      BY <1>4, <2>2, <2>4, EntitledTogether
    <3> QED
      BY <1>5, <2>2, <3>1, EntitledKept
  <2> QED
    BY <1>1, <1>3, <1>11, <2>3, <2>4
<1>9. AttributedWork(f)'
  <2>1. CASE CallLost(f)
    BY <2>1, NoWork DEF CallLost, GiveUp, Goto, ForgetMessage, TypeOK, ThreadedPc
  <2>2. CASE Proceed(f, "touch") /\ UNCHANGED <<cur, thr, res>>
    <3>1. /\ thr'[f] = t /\ pc'[f] \in ThreadedPc /\ res'[f] = g
          /\ cur' = cur /\ box' = box
      BY <1>1, <1>3, <2>2 DEF Proceed, Goto, TypeOK, ThreadedPc, imapVars
    <3>2. Entitled(m, g)'
      BY <1>4, <1>5, EntitledKept
    <3> QED
      BY <1>2, <1>4, <3>1, <3>2, WorkStep
  <2> QED
    BY <2>1, <2>2 DEF PromoteThread
<1>10. \A a \in Senders : senders'[a] # None => <<a, senders'[a]>> \in granted'
  BY <1>1 DEF Attributed, tagVars, addVars
<1> QED
  BY <1>5, <1>7, <1>8, <1>9, <1>10, AttributedFramed

\* SetThreadGrantee: the worker goes on with the thread and tag it has in hand.
LEMMA SetThreadGranteeAttributed ==
    ASSUME Base, Attributed, NEW f \in Folders, SetThreadGrantee(f)
    PROVE  AttributedWork(f)'
<1> USE DEF Base
<1>1. /\ pc[f] = "promote" /\ pc' = [pc EXCEPT ![f] = "commit"]
      /\ UNCHANGED <<box, cur, thr, res, granted>>
  BY DEF SetThreadGrantee, Proceed, Goto, imapVars, tagVars
<1>2. PICK m \in Messages : Handling(f) = m
  BY <1>1, HandlingType DEF MessagePc
<1>3. /\ thr[f] \in Messages /\ Together(m, thr[f])
      /\ \A g \in Grantees : res[f] = g => Entitled(m, g)
  BY <1>1, <1>2 DEF Prepared, Attributed, AttributedWork, ThreadedPc
<1>4. pc'[f] \in ThreadedPc
  BY <1>1 DEF TypeOK, ThreadedPc
<1>5. \A g \in Grantees : res'[f] = g => Entitled(m, g)'
  BY <1>1, <1>3, EntitledKept
<1> QED
  BY <1>1, <1>2, <1>3, <1>4, <1>5, WorkStep

\* CommitAuthorization: each thread it tags holds a message of the sender.
LEMMA CommitAttributed ==
    ASSUME Base, Isolated, Attributed, NEW a \in Senders, CommitAuthorization(a)
    PROVE  Attributed'
<1> USE DEF Base
<1>1. PICK g \in Grantees : addFor[a] = g
  BY CommitEffect
<1>2. /\ UNCHANGED <<imapVars, pc, localVars>>
      /\ senders' = [senders EXCEPT ![a] = g] /\ granted' = granted \cup {<<a, g>>}
  BY <1>1 DEF CommitAuthorization, EndTransaction
<1>3. granted \subseteq granted' /\ <<a, g>> \in granted'
  BY <1>2
<1>4. \A b \in Senders : senders'[b] # None => <<b, senders'[b]>> \in granted'
  BY <1>2 DEF Attributed, TypeOK
<1>5. /\ \A t \in addThreads[a] : \E n \in Messages : msgs[n].thread = t /\ From[n] = a
      /\ \A m \in addMail[a] : msgs[m].thread \in addThreads[a] \/ thread[msgs[m].thread] = g
      /\ addThreads[a] \subseteq Messages
  BY <1>1 DEF CommitAuthorization, Isolated, TransactionOK, TypeOK
<1>6. ASSUME NEW t \in addThreads[a] PROVE Entitled(t, g)'
  <2>1. PICK n \in Messages : msgs[n].thread = t /\ From[n] = a /\ t \in Messages
    BY <1>5
  <2>2. Together(n, t)
    BY <2>1, NoneAssumption DEF Attributed, AttributedMail, Stored
  <2> QED
    BY <1>3, <2>1, <2>2 DEF Together, Entitled
<1>7. /\ \A t \in Messages : thread'[t] = IF t \in addThreads[a] THEN g ELSE thread[t]
      /\ \A m \in Messages :
            /\ msgs'[m].thread = msgs[m].thread
            /\ msgs'[m].grantee = IF m \in addMail[a] /\ msgs[m].grantee = None
                                  THEN g ELSE msgs[m].grantee
  BY <1>1, CommitEffect
<1>8. \A t \in Messages, h \in Grantees : thread'[t] = h => thread[t] = h \/ Entitled(t, h)'
  BY <1>6, <1>7
<1>9. ASSUME NEW n \in Messages PROVE AttributedMail(n)'
  <2>0. Stored(n) => Together(n, msgs[n].thread)
    BY DEF Attributed, AttributedMail
  <2> SUFFICES ASSUME Stored(n), NEW h \in Grantees, msgs'[n].grantee = h
               PROVE  Entitled(n, h)'
    BY <1>7, <2>0 DEF AttributedMail, Stored, Together
  <2>1. /\ Together(n, msgs[n].thread) /\ (msgs[n].grantee = h => Entitled(n, h))
        /\ msgs[n].thread \in Messages
    BY DEF Attributed, AttributedMail, Stored, TypeOK
  <2>2. CASE msgs[n].grantee = h
    BY <1>3, <2>1, <2>2, EntitledKept
  <2>3. CASE thread[msgs[n].thread] = g /\ h = g
    <3>1. Entitled(n, h)
      BY <2>1, <2>3, EntitledTogether DEF Attributed
    <3> QED
      BY <1>3, <2>1, <3>1, EntitledKept
  <2>4. CASE msgs[n].thread \in addThreads[a] /\ h = g
    <3>1. PICK t \in addThreads[a] : msgs[n].thread = t
      BY <2>4
    <3>2. Entitled(t, h)' /\ Together(n, t)
      BY <1>6, <2>1, <2>4, <3>1
    <3> QED
      BY <2>1, <3>2 DEF Together, Entitled
  <2> QED
    BY <1>5, <1>7, <2>2, <2>3, <2>4
<1>10. \A f \in Folders : Still(f)
  BY <1>2, Untouched DEF Still, imapVars, localVars
<1> QED
  BY <1>3, <1>4, <1>8, <1>9, <1>10, AttributedFramed, {} \in SUBSET Folders

\* Every step keeps the sixth part of the invariant.
LEMMA NextAttributed == Base /\ Isolated /\ Attributed /\ [Next]_vars => Attributed'
<1> SUFFICES ASSUME Base, Isolated, Attributed, [Next]_vars PROVE Attributed'
  OBVIOUS
<1> USE DEF Base
<1>1. CASE UNCHANGED vars
  <2>1. \A f \in Folders : Still(f)
    BY <1>1, Untouched DEF vars, Still, imapVars, localVars
  <2> QED
    BY <1>1, <2>1, AttributedFramedTables, {} \in SUBSET Folders DEF vars, tagVars, addVars
<1>2. ASSUME NEW f \in Folders, NEW m \in Arriving[f], Deliver(f, m) PROVE Attributed'
  <2>1. m \in Messages
    BY ArrivingAssumption
  <2>2. \A g \in Folders : Still(g)
    BY <1>2, <2>1, DeliverExtends DEF Deliver, Still, localVars
  <2> QED
    BY <1>2, <2>2, AttributedFramedTables, {} \in SUBSET Folders DEF Deliver, tagVars, addVars
<1>3. ASSUME NEW F \in SUBSET Folders, Cut(F), UNCHANGED <<mailVars, tagVars>>,
             \A g \in Folders \ F : Extended(g)
      PROVE  Attributed'
  <2>1. \A g \in Folders \ F : Still(g)
    BY <1>3, CutFramed
  <2>2. \A f \in F : AttributedWork(f)'
    BY <1>3, NoWork DEF Cut, ForgetLocals, ThreadedPc
  <2> QED
    BY <1>3, <2>1, <2>2, AttributedFramedTables DEF tagVars, addVars
<1>4. ASSUME NEW f \in Folders, Rebuild(f) \/ SessionEnds(f) PROVE Attributed'
  <2>1. \A g \in Folders \ {f} : Extended(g)
    BY <1>4, OthersExtended
  <2>2. Cut({f}) /\ UNCHANGED <<mailVars, tagVars>> /\ {f} \in SUBSET Folders
    BY <1>4 DEF Rebuild, SessionEnds
  <2> QED
    BY <1>3, <2>1, <2>2
<1>5. CASE Crash
  <2>1. Folders \in SUBSET Folders
    OBVIOUS
  <2> QED
    BY <1>3, <1>5, <2>1 DEF Crash
<1>6. ASSUME NEW f \in Folders, Select(f) \/ Changed(f) \/ sync(f) PROVE Attributed'
  <2>1. /\ \A g \in Folders \ {f} : Still(g)
        /\ {f} \in SUBSET Folders
    BY <1>6, OthersStill
  <2>2. CASE CreateThread(f) \/ InsertMessage(f) \/ PromoteThread(f)
    BY <2>1, <2>2, CreateThreadAttributed, InsertMessageAttributed, PromoteThreadAttributed
  <2>3. ASSUME UNCHANGED <<mailVars, tagVars>>, AttributedWork(f)' PROVE Attributed'
    BY <2>1, <2>3, AttributedFramedTables DEF tagVars, addVars
  <2>4. CASE FindThreadByRoot(f) \/ FindThreadByMember(f) \/ FindThreadAgain(f)
    BY <2>3, <2>4, FindThreadAttributed DEF FindThreadByRoot, FindThreadByMember, FindThreadAgain
  <2>5. CASE LookupGranteeByEmail(f) \/ GetThread(f)
    BY <2>3, <2>5, ResolveAttributed DEF LookupGranteeByEmail, GetThread
  <2>8. CASE SetThreadGrantee(f)
    BY <2>3, <2>8, SetThreadGranteeAttributed DEF SetThreadGrantee
  <2>6. CASE CallFails(f) \/ TouchThread(f) \/ MessageExistsByID(f)
    <3>1. AttributedWork(f)'
      <4>1. CASE Handled(f) \/ GiveUp(f)
        BY <4>1, NoWork DEF Handled, GiveUp, Goto, ForgetMessage, TypeOK, ThreadedPc
      <4>2. CASE pc[f] = "exists" /\ Proceed(f, "find_root") /\ UNCHANGED localVars
        BY <4>2, NoWork DEF Proceed, Goto, localVars, TypeOK, ThreadedPc, Attributed, AttributedWork
      <4> QED
        BY <2>6, <4>1, <4>2 DEF CallFails, CallLost, TouchThread, MessageExistsByID
    <3> QED
      BY <2>3, <2>6, <3>1 DEF CallFails, TouchThread, MessageExistsByID
  <2>7. CASE Select(f) \/ Changed(f) \/ GetMailboxState(f) \/ SaveMailboxState(f) \/ NextMessage(f)
    <3>1. pc[f] \notin ThreadedPc /\ pc'[f] \notin ThreadedPc /\ res' = res
      BY <2>7 DEF Select, Changed, GetMailboxState, SaveMailboxState, NextMessage, Goto, TypeOK,
         localVars, ThreadedPc
    <3>2. AttributedWork(f)'
      BY <3>1, NoWork DEF Attributed, AttributedWork
    <3> QED
      BY <2>3, <2>7, <3>2 DEF Select, Changed, GetMailboxState, SaveMailboxState, NextMessage
  <2> QED
    BY <1>6, <2>2, <2>4, <2>5, <2>6, <2>7, <2>8 DEF sync, handleMessage
<1>7. ASSUME NEW a \in Senders, CommitAuthorization(a) PROVE Attributed'
  BY <1>7, CommitAttributed
<1>8. ASSUME NEW a \in Senders,
             \/ \E g \in Grantees : AddGranteeEmail(g, a) \/ RemoveGranteeEmail(g, a)
             \/ TagThreads(a) \/ Rollback(a)
      PROVE  Attributed'
  <2>1. UNCHANGED <<imapVars, mailVars, granted, pc, localVars>>
    BY <1>8 DEF AddGranteeEmail, RemoveGranteeEmail, TagThreads, Rollback, EndTransaction
  <2>2. \A f \in Folders : Still(f)
    BY <2>1, Untouched DEF Still, imapVars, localVars
  <2>3. \A b \in Senders : senders'[b] = senders[b] \/ senders'[b] = None
    BY <1>8 DEF AddGranteeEmail, RemoveGranteeEmail, TagThreads, Rollback, TypeOK
  <2> QED
    BY <2>1, <2>2, <2>3, AttributedFramedTables, {} \in SUBSET Folders
<1> QED
  BY <1>1, <1>2, <1>4, <1>5, <1>6, <1>7, <1>8 DEF Next

(***************************************************************************)
(* The theorems.                                                           *)
(***************************************************************************)
IInv == Base /\ Isolated /\ Positions /\ Reaches /\ Promoted /\ Attributed

\* The inductive invariant holds in every reachable state.
LEMMA Invariant == Spec => []IInv
<1>1. Init => IInv
  BY InitBase, InitIsolated, InitPositions, InitReaches, InitPromoted, InitAttributed DEF IInv
<1>2. IInv /\ [Next]_vars => IInv'
  BY NextBase, NextIsolated, NextPositions, NextReaches, NextPromoted, NextAttributed DEF IInv
<1> QED
  BY <1>1, <1>2, PTL DEF Spec

\* Every variable keeps its type: a worker never works on a thread that is not there
\* (FindThreadByRefs, CreateThread and its unique violation).
THEOREM TypeCorrect == Spec => []TypeOK
<1>1. IInv => TypeOK
  BY DEF IInv, Base
<1> QED
  BY Invariant, <1>1, PTL

\* A saved last_uid covers only mail that is stored or whose handling returned an
\* error, for any number of folders and rebuilds (sync, handleMessage).
THEOREM NothingIsSteppedOver == Spec => []NothingSteppedOver
<1>1. IInv => NothingSteppedOver
  BY DEF IInv, Positions, SavedPosition, Seen, NothingSteppedOver
<1> QED
  BY Invariant, <1>1, PTL

\* In a tagged thread no message stays untagged, unless it was inserted with a stale
\* answer, or in the middle of the transaction that tags its thread or authorizes its
\* sender (SetThreadGrantee, AddGranteeEmail, InsertMessage).
THEOREM ThreadTagsReachMail == Spec => []ThreadTagReachesMail
<1>1. IInv => ThreadTagReachesMail
  BY NoneAssumption DEF IInv, Reaches, Missed, Reachable, ThreadTagReachesMail
<1> QED
  BY Invariant, <1>1, PTL

\* Mail from an authorized sender is tagged, with the same exceptions, whichever came
\* first: each UPDATE of AddGranteeEmail sees what its own snapshot holds, and a
\* message that no snapshot holds is one inserted after them (AddGranteeEmail, Resolve).
THEOREM AuthorizedMailIsTagged == Spec => []AuthorizedMailTagged
<1>1. IInv => AuthorizedMailTagged
  BY DEF IInv, Reaches, Missed, Reachable, AuthorizedMailTagged
<1> QED
  BY Invariant, <1>1, PTL

\* Tagged mail in an untagged thread is about to be promoted, or its PromoteThread was
\* cut off or failed (handleMessage's order of InsertMessage and PromoteThread).
THEOREM PromotionsFollowInserts == Spec => []PromotionFollowsInsert
<1>1. IInv => PromotionFollowsInsert
  BY DEF IInv, Promoted, Ahead, AboutToPromote, Promotes, PromotionFollowsInsert, Promoting
<1> QED
  BY Invariant, <1>1, PTL

\* A message is attributed to a grantee only if a sender in each of its conversations
\* was authorized for that grantee (FindThreadByRefs, Resolve, SetThreadGrantee,
\* AddGranteeEmail).
THEOREM TagsKeepToConversations == Spec => []TagsStayInConversation
<1>1. IInv => TagsStayInConversation
  <2> SUFFICES ASSUME IInv, NEW C \in Conversations, NEW m \in C, Stored(m), msgs[m].grantee # None
               PROVE  \E n \in C : <<From[n], msgs[m].grantee>> \in granted
    BY DEF TagsStayInConversation
  <2>1. m \in Messages
    BY DEF Conversations
  <2>2. msgs[m].grantee \in Grantees
    BY <2>1 DEF IInv, Base, TypeOK
  <2>3. Entitled(m, msgs[m].grantee)
    BY <2>1, <2>2 DEF IInv, Attributed, AttributedMail
  <2> QED
    BY <2>3 DEF Entitled
<1> QED
  BY Invariant, <1>1, PTL
=============================================================================
