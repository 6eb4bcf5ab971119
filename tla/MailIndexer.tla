---------------------------- MODULE MailIndexer -----------------------------
(***************************************************************************)
(* The mail indexer: one worker per IMAP folder, all writing the threads   *)
(* and messages tables, while the approval executor and the administrator  *)
(* authorize sender addresses.                                             *)
(*                                                                         *)
(* handleMessage makes one database call (or transaction) at a time and is *)
(* split at those calls (pc[f]).  A call can fail, and a write can be done *)
(* with its reply lost; the whole process can stop and restart anywhere.   *)
(*                                                                         *)
(* The two transactions that tag, SetThreadGrantee and AddGranteeEmail,    *)
(* run at READ COMMITTED and are split at the snapshots of their UPDATEs.  *)
(* A snapshot holds what is committed and the transaction's own writes;    *)
(* the UPDATE then waits for rows others have written and tags those that  *)
(* are still untagged.  What is written shows at COMMIT.  Locks are only   *)
(* ever waited for by the other tagging transactions, RemoveGranteeEmail   *)
(* and TouchThread: an INSERT's foreign keys do not conflict with them.    *)
(*                                                                         *)
(* Refs[m] is the list of Message-IDs in m's References header followed by *)
(* those in its In-Reply-To header.  A thread is named by its unique root. *)
(* Left out: dates (so TouchThread only matters as a call that can fail),  *)
(* subjects, recipients, attachments and bodies, and UIDs near 2^32.       *)
(***************************************************************************)
EXTENDS Naturals, Sequences, FiniteSets

CONSTANTS
    Folders, Messages, Senders, Grantees,
    From,         \* the sender of a message
    Refs,         \* what a message refers to
    NoHeaderId,   \* messages whose envelope has no Message-ID
    Unparsable,   \* messages with an empty body or that ParseRFC822 rejects
    Arriving,     \* which messages each folder can receive
    Grants,       \* the <<sender, grantee>> pairs somebody asks to authorize
    MaxRebuilds,  \* bound on UIDVALIDITY changes per folder
    MaxFailed,    \* bound on the messages a failing call makes handleMessage give up
    None, Absent

ASSUME FromAssumption == From \in [Messages -> Senders]
ASSUME RefsAssumption == Refs \in [Messages -> Seq(Messages)]
ASSUME ArrivingAssumption == Arriving \in [Folders -> SUBSET Messages]
ASSUME GrantsAssumption == Grants \subseteq Senders \X Grantees
ASSUME BoundsAssumption == MaxRebuilds \in Nat /\ MaxFailed \in Nat
ASSUME NoneAssumption == None \notin Grantees \cup Messages
ASSUME AbsentAssumption == Absent \notin Grantees \cup {None}

VARIABLES
    \* The IMAP server.
    box,        \* a folder's messages; a message's UID is its position
    validity,   \* a folder's UIDVALIDITY
    \* The database.
    state,      \* mailbox_state, per folder
    thread,     \* threads: the grantee of a root's thread, None, or Absent
    msgs,       \* messages: thread and grantee, by Message-ID
    senders,    \* grantee_emails
    \* The workers.
    pc,         \* where a worker stands
    sel,        \* the UIDVALIDITY it selected
    highest,    \* the highest UID it handled, or already had
    todo,       \* the UIDs fetched and not handled yet
    cur,        \* the UID in handleMessage
    thr,        \* threadID
    res,        \* res.GranteeID
    bySender,   \* res.FromSender
    batch,      \* the messages SetThreadGrantee's second UPDATE found
    \* AddGranteeEmail; its INSERT locks the address, so one at a time for each.
    adding,     \* "none", or the UPDATE whose snapshot the transaction has taken
    addFor,     \* granteeID
    addThreads, \* the threads its first UPDATE found, and then wrote
    addMail,    \* the messages its second UPDATE found
    \* History.
    failed,     \* <<folder, message>> whose handleMessage returned an error
    stale,      \* messages inserted untagged although a tag was due by then
    lost,       \* messages whose PromoteThread was cut off or failed
    granted     \* every <<sender, grantee>> ever authorized

imapVars == <<box, validity>>
mailVars == <<thread, msgs>>
addVars == <<adding, addFor, addThreads, addMail>>
tagVars == <<senders, granted, addVars>>
localVars == <<sel, highest, todo, cur, thr, res, bySender, batch>>
vars == <<imapVars, state, mailVars, tagVars, pc, localVars, failed, stale, lost>>

(***************************************************************************)
(* Types.                                                                  *)
(***************************************************************************)
\* The calls of handleMessage.
MessagePc == {"exists", "find_root", "find_member", "create", "find_again",
              "lookup", "get_thread", "insert", "promote", "commit", "touch"}

NoState == [v |-> 0, last |-> 0]
NoMessage == [thread |-> None, grantee |-> None]

TypeOK ==
    /\ box \in [Folders -> Seq(Messages)]
    /\ validity \in [Folders -> Nat]
    /\ state \in [Folders -> [v : Nat, last : Nat]]
    /\ thread \in [Messages -> Grantees \cup {None, Absent}]
    /\ msgs \in [Messages -> [thread : Messages \cup {None}, grantee : Grantees \cup {None}]]
    /\ senders \in [Senders -> Grantees \cup {None}]
    /\ pc \in [Folders -> MessagePc \cup {"down", "get_state", "next", "idle"}]
    /\ sel \in [Folders -> Nat]
    /\ highest \in [Folders -> Nat]
    /\ todo \in [Folders -> SUBSET Nat]
    /\ cur \in [Folders -> Nat]
    /\ thr \in [Folders -> Messages \cup {None}]
    /\ res \in [Folders -> Grantees \cup {None}]
    /\ bySender \in [Folders -> BOOLEAN]
    /\ batch \in [Folders -> SUBSET Messages]
    /\ adding \in [Senders -> {"none", "threads", "messages"}]
    /\ addFor \in [Senders -> Grantees \cup {None}]
    /\ addThreads \in [Senders -> SUBSET Messages]
    /\ addMail \in [Senders -> SUBSET Messages]
    /\ failed \subseteq Folders \X Messages
    /\ stale \subseteq Messages
    /\ lost \subseteq Messages
    /\ granted \subseteq Senders \X Grantees

\* UIDVALIDITY is a positive number; no mail, no rows, no connection.
Init ==
    /\ box = [f \in Folders |-> <<>>]
    /\ validity = [f \in Folders |-> 1]
    /\ state = [f \in Folders |-> NoState]
    /\ thread = [m \in Messages |-> Absent]
    /\ msgs = [m \in Messages |-> NoMessage]
    /\ senders = [a \in Senders |-> None]
    /\ pc = [f \in Folders |-> "down"]
    /\ sel = [f \in Folders |-> 0]
    /\ highest = [f \in Folders |-> 0]
    /\ todo = [f \in Folders |-> {}]
    /\ cur = [f \in Folders |-> 0]
    /\ thr = [f \in Folders |-> None]
    /\ res = [f \in Folders |-> None]
    /\ bySender = [f \in Folders |-> FALSE]
    /\ batch = [f \in Folders |-> {}]
    /\ adding = [a \in Senders |-> "none"]
    /\ addFor = [a \in Senders |-> None]
    /\ addThreads = [a \in Senders |-> {}]
    /\ addMail = [a \in Senders |-> {}]
    /\ failed = {}
    /\ stale = {}
    /\ lost = {}
    /\ granted = {}

Stored(m) == msgs[m].thread # None
Handling(f) == box[f][cur[f]]

(***************************************************************************)
(* The IMAP server.                                                        *)
(***************************************************************************)
Delivered(f) == {box[f][u] : u \in 1..Len(box[f])}

\* A message arrives, or is filed in a second folder: the next UID.
Deliver(f, m) ==
    /\ m \notin Delivered(f)
    /\ box' = [box EXCEPT ![f] = Append(@, m)]
    /\ UNCHANGED <<validity, state, mailVars, tagVars, pc, localVars, failed, stale, lost>>

\* The locals of a worker that is not in a session.
ForgetLocals(F) ==
    /\ sel' = [f \in Folders |-> IF f \in F THEN 0 ELSE sel[f]]
    /\ highest' = [f \in Folders |-> IF f \in F THEN 0 ELSE highest[f]]
    /\ todo' = [f \in Folders |-> IF f \in F THEN {} ELSE todo[f]]
    /\ cur' = [f \in Folders |-> IF f \in F THEN 0 ELSE cur[f]]
    /\ thr' = [f \in Folders |-> IF f \in F THEN None ELSE thr[f]]
    /\ res' = [f \in Folders |-> IF f \in F THEN None ELSE res[f]]
    /\ bySender' = [f \in Folders |-> IF f \in F THEN FALSE ELSE bySender[f]]
    /\ batch' = [f \in Folders |-> IF f \in F THEN {} ELSE batch[f]]

\* Whose promotion is still to come, or to be committed, in the folders of F.
Promoting(F) == {Handling(f) : f \in {g \in F : pc[g] \in {"promote", "commit"}}}

\* The workers of F are cut off where they stand, their transactions rolled back.
Cut(F) ==
    /\ lost' = lost \cup Promoting(F)
    /\ pc' = [f \in Folders |-> IF f \in F THEN "down" ELSE pc[f]]
    /\ ForgetLocals(F)

\* The server rebuilds a folder: new UIDVALIDITY, UIDs in any order, sessions cut.
Rebuild(f) ==
    /\ validity[f] <= MaxRebuilds
    /\ validity' = [validity EXCEPT ![f] = @ + 1]
    /\ \E s \in [1..Len(box[f]) -> Delivered(f)] :
          /\ \A u, v \in 1..Len(box[f]) : s[u] = s[v] => u = v
          /\ box' = [box EXCEPT ![f] = s]
    /\ Cut({f})
    /\ UNCHANGED <<state, mailVars, tagVars, failed, stale>>

(***************************************************************************)
(* runOnce and sync.                                                       *)
(***************************************************************************)
Goto(f, where) == pc' = [pc EXCEPT ![f] = where]

\* dial, Login, Select.
Select(f) ==
    /\ pc[f] = "down"
    /\ Goto(f, "get_state")
    /\ sel' = [sel EXCEPT ![f] = validity[f]]
    /\ UNCHANGED <<imapVars, state, mailVars, tagVars, highest, todo, cur, thr, res,
                   bySender, batch, failed, stale, lost>>

\* Mutant: a changed UIDVALIDITY does not reset the position.
LastUIDKept(f) == state[f].last

LastUID(f) == IF state[f].v = sel[f] THEN state[f].last ELSE 0

\* FETCH LastUID+1:*, where a range past the end of the folder still holds its
\* last message.
Fetched(f) == {u \in 1..Len(box[f]) : u > LastUID(f) \/ u = Len(box[f])}

GetMailboxState(f) ==
    /\ pc[f] = "get_state"
    /\ highest' = [highest EXCEPT ![f] = LastUID(f)]
    /\ todo' = [todo EXCEPT ![f] = Fetched(f)]
    /\ Goto(f, "next")
    /\ UNCHANGED <<imapVars, state, mailVars, tagVars, sel, cur, thr, res, bySender,
                   batch, failed, stale, lost>>

\* cmd.Next: FETCH answers may come in any order.
NextMessage(f) ==
    /\ pc[f] = "next"
    /\ \E u \in todo[f] :
          /\ cur' = [cur EXCEPT ![f] = u]
          /\ todo' = [todo EXCEPT ![f] = @ \ {u}]
          /\ Goto(f, IF box[f][u] \in NoHeaderId \ Unparsable THEN "find_root" ELSE "exists")
    /\ UNCHANGED <<imapVars, state, mailVars, tagVars, sel, highest, thr, res, bySender,
                   batch, failed, stale, lost>>

\* SaveMailboxState; the code skips it when it would write what is there.
SaveMailboxState(f) ==
    /\ pc[f] = "next"
    /\ todo[f] = {}
    /\ state' = [state EXCEPT ![f] = [v |-> sel[f], last |-> highest[f]]]
    /\ Goto(f, "idle")
    /\ UNCHANGED <<imapVars, mailVars, tagVars, localVars, failed, stale, lost>>

\* idleUntilChange reports a change.
Changed(f) ==
    /\ pc[f] = "idle"
    /\ Goto(f, "get_state")
    /\ UNCHANGED <<imapVars, state, mailVars, tagVars, localVars, failed, stale, lost>>

\* An error that ends the session: a call of sync itself, or the connection.
SessionEnds(f) ==
    /\ pc[f] \in {"get_state", "next", "idle"}
    /\ Cut({f})
    /\ UNCHANGED <<imapVars, state, mailVars, tagVars, failed, stale>>

\* The process stops: a shutdown, an eviction, a panic.
Crash ==
    /\ Cut(Folders)
    /\ UNCHANGED <<imapVars, state, mailVars, tagVars, failed, stale>>

(***************************************************************************)
(* handleMessage.                                                          *)
(***************************************************************************)
ForgetMessage(f) ==
    /\ cur' = [cur EXCEPT ![f] = 0]
    /\ thr' = [thr EXCEPT ![f] = None]
    /\ res' = [res EXCEPT ![f] = None]
    /\ bySender' = [bySender EXCEPT ![f] = FALSE]
    /\ batch' = [batch EXCEPT ![f] = {}]

\* handleMessage returns nil: the position moves up.
Handled(f) ==
    /\ highest' = [highest EXCEPT ![f] = IF cur[f] > @ THEN cur[f] ELSE @]
    /\ Goto(f, "next")
    /\ ForgetMessage(f)
    /\ UNCHANGED <<sel, todo, failed>>

\* handleMessage returns an error: logged, the position stays, sync goes on.
GiveUp(f) ==
    /\ failed' = failed \cup {<<f, Handling(f)>>}
    /\ Goto(f, "next")
    /\ ForgetMessage(f)
    /\ UNCHANGED <<sel, highest, todo>>

\* A database call, or the reply to it, is lost.
CallLost(f) ==
    /\ <<f, Handling(f)>> \in failed \/ Cardinality(failed) < MaxFailed
    /\ GiveUp(f)

Proceed(f, where) == Goto(f, where) /\ UNCHANGED failed

\* A database call of handleMessage fails without doing its work: a transaction
\* under way is rolled back.
CallFails(f) ==
    /\ pc[f] \in MessagePc
    /\ CallLost(f)
    /\ lost' = lost \cup Promoting({f})
    /\ UNCHANGED <<imapVars, state, mailVars, tagVars, stale>>

\* MessageExistsByID, then ParseRFC822.
MessageExistsByID(f) ==
    LET m == Handling(f) IN
    /\ pc[f] = "exists"
    /\ \/ Stored(m) /\ Handled(f)
       \/ ~Stored(m) /\ m \in Unparsable /\ GiveUp(f)
       \/ ~Stored(m) /\ m \notin Unparsable /\ Proceed(f, "find_root") /\ UNCHANGED localVars
    /\ UNCHANGED <<imapVars, state, mailVars, tagVars, stale, lost>>

ThreadCandidates(m) == {Refs[m][n] : n \in 1..Len(Refs[m])} \cup {m}
Root(m) == IF Refs[m] = <<>> THEN m ELSE Refs[m][1]

\* Mutant: a candidate is taken for a thread without looking.
FindThreadByRootAssumed(f) ==
    /\ pc[f] = "find_root"
    /\ thr' = [thr EXCEPT ![f] = Root(Handling(f))]
    /\ Proceed(f, "lookup")
    /\ UNCHANGED <<imapVars, state, mailVars, tagVars, sel, highest, todo, cur, res,
                   bySender, batch, stale, lost>>

\* The first query of FindThreadByRefs: any thread rooted at a candidate.
FindThreadByRoot(f) ==
    LET found == {t \in ThreadCandidates(Handling(f)) : thread[t] # Absent} IN
    /\ pc[f] = "find_root"
    /\ \/ /\ found = {}
          /\ Proceed(f, "find_member")
          /\ UNCHANGED thr
       \/ \E t \in found :
             /\ thr' = [thr EXCEPT ![f] = t]
             /\ Proceed(f, "lookup")
    /\ UNCHANGED <<imapVars, state, mailVars, tagVars, sel, highest, todo, cur, res,
                   bySender, batch, stale, lost>>

\* The second: any candidate's thread.
FindThreadByMember(f) ==
    LET found == {m \in ThreadCandidates(Handling(f)) : Stored(m)} IN
    /\ pc[f] = "find_member"
    /\ \/ /\ found = {}
          /\ Proceed(f, "create")
          /\ UNCHANGED thr
       \/ \E m \in found :
             /\ thr' = [thr EXCEPT ![f] = msgs[m].thread]
             /\ Proceed(f, "lookup")
    /\ UNCHANGED <<imapVars, state, mailVars, tagVars, sel, highest, todo, cur, res,
                   bySender, batch, stale, lost>>

\* root_message_id is unique: the second creator sees a unique violation.
CreateThread(f) ==
    LET root == Root(Handling(f)) IN
    /\ pc[f] = "create"
    /\ \/ /\ thread[root] = Absent
          /\ thread' = [thread EXCEPT ![root] = None]
          /\ \/ /\ thr' = [thr EXCEPT ![f] = root]
                /\ Proceed(f, "lookup")
                /\ UNCHANGED <<sel, highest, todo, cur, res, bySender, batch>>
             \/ CallLost(f)
       \/ /\ thread[root] # Absent
          /\ Proceed(f, "find_again")
          /\ UNCHANGED <<thread, localVars>>
    /\ UNCHANGED <<imapVars, state, msgs, tagVars, stale, lost>>

\* FindThreadByRefs([root]) after a unique violation: threads are never deleted,
\* so its first query finds the other worker's.
FindThreadAgain(f) ==
    /\ pc[f] = "find_again"
    /\ thr' = [thr EXCEPT ![f] = Root(Handling(f))]
    /\ Proceed(f, "lookup")
    /\ UNCHANGED <<imapVars, state, mailVars, tagVars, sel, highest, todo, cur, res,
                   bySender, batch, stale, lost>>

\* Resolve, first half: the sender's own grantee.
LookupGranteeByEmail(f) ==
    LET g == senders[From[Handling(f)]] IN
    /\ pc[f] = "lookup"
    /\ res' = [res EXCEPT ![f] = g]
    /\ bySender' = [bySender EXCEPT ![f] = g # None]
    /\ Proceed(f, IF g # None THEN "insert" ELSE "get_thread")
    /\ UNCHANGED <<imapVars, state, mailVars, tagVars, sel, highest, todo, cur, thr, batch,
                   stale, lost>>

\* Resolve, second half: the thread's grantee, if any.
GetThread(f) ==
    /\ pc[f] = "get_thread"
    /\ res' = [res EXCEPT ![f] = thread[thr[f]]]
    /\ Proceed(f, "insert")
    /\ UNCHANGED <<imapVars, state, mailVars, tagVars, sel, highest, todo, cur, thr,
                   bySender, batch, stale, lost>>

\* The threads a transaction has written and not committed.
LockedThreads ==
    {t \in Messages : thread[t] = None /\
        \/ \E f \in Folders : pc[f] = "commit" /\ thr[f] = t
        \/ \E a \in Senders : adding[a] = "messages" /\ t \in addThreads[a]}

\* A transaction under way for address a has looked for the mail it is to tag and
\* does not see a message that comes to thread t from now on.
LookedBefore(a, t) ==
    \/ adding[a] = "threads" /\ t \notin addThreads[a]
    \/ adding[a] = "messages"
    \/ t \in LockedThreads

\* A tag is due for the message at hand by now, or is being written.
TagDue(f) ==
    \/ senders[From[Handling(f)]] # None
    \/ thread[thr[f]] \in Grantees
    \/ LookedBefore(From[Handling(f)], thr[f])

\* The message row, if it is the first with its Message-ID.
Inserted(f) ==
    LET m == Handling(f) IN
    IF Stored(m)
    THEN UNCHANGED <<msgs, stale>>
    ELSE /\ msgs' = [msgs EXCEPT ![m] = [thread |-> thr[f], grantee |-> res[f]]]
         /\ stale' = IF res[f] = None /\ TagDue(f) THEN stale \cup {m} ELSE stale

\* Mutant: the sender's tag stays on the message.
InsertMessageUnpromoted(f) ==
    /\ pc[f] = "insert"
    /\ Inserted(f)
    /\ Proceed(f, "touch")
    /\ UNCHANGED <<imapVars, state, thread, tagVars, localVars, lost>>

\* INSERT ... ON CONFLICT (message_id) DO NOTHING, in a transaction with the
\* child rows.
InsertMessage(f) ==
    /\ pc[f] = "insert"
    /\ Inserted(f)
    /\ \/ /\ Proceed(f, IF bySender[f] THEN "promote" ELSE "touch")
          /\ UNCHANGED <<localVars, lost>>
       \/ /\ CallLost(f)
          /\ lost' = IF bySender[f] THEN lost \cup {Handling(f)} ELSE lost
    /\ UNCHANGED <<imapVars, state, thread, tagVars>>

\* The untagged messages of the threads in T, in a snapshot taken now.
UntaggedIn(T) == {m \in Messages : msgs[m].thread \in T /\ msgs[m].grantee = None}

\* Those of M that are still untagged become g's.
TagMessages(M, g) ==
    [m \in Messages |-> IF m \in M /\ msgs[m].grantee = None
                        THEN [thread |-> msgs[m].thread, grantee |-> g]
                        ELSE msgs[m]]

\* Mutant: the thread is tagged, its earlier messages are not.
SetThreadOnly(f) ==
    /\ pc[f] = "promote"
    /\ thr[f] \notin LockedThreads
    /\ Proceed(f, "commit")
    /\ UNCHANGED <<imapVars, state, mailVars, tagVars, localVars, stale, lost>>

\* PromoteThread calls SetThreadGrantee: UPDATE threads, if the thread is untagged,
\* and the snapshot of UPDATE messages.
SetThreadGrantee(f) ==
    /\ pc[f] = "promote"
    /\ thr[f] \notin LockedThreads
    /\ batch' = [batch EXCEPT ![f] = UntaggedIn({thr[f]})]
    /\ Proceed(f, "commit")
    /\ UNCHANGED <<imapVars, state, mailVars, tagVars, sel, highest, todo, cur, thr, res,
                   bySender, stale, lost>>

\* ... the rows of UPDATE messages, and COMMIT.
PromoteThread(f) ==
    /\ pc[f] = "commit"
    /\ thread' = [thread EXCEPT ![thr[f]] = IF @ = None THEN res[f] ELSE @]
    /\ msgs' = TagMessages(batch[f], res[f])
    /\ \/ /\ Proceed(f, "touch")
          /\ batch' = [batch EXCEPT ![f] = {}]
          /\ UNCHANGED <<sel, highest, todo, cur, thr, res, bySender>>
       \/ CallLost(f)
    /\ UNCHANGED <<imapVars, state, tagVars, stale, lost>>

TouchThread(f) ==
    /\ pc[f] = "touch"
    /\ thr[f] \notin LockedThreads
    /\ Handled(f)
    /\ UNCHANGED <<imapVars, state, mailVars, tagVars, stale, lost>>

handleMessage(f) ==
    \/ MessageExistsByID(f)
    \/ FindThreadByRoot(f)
    \/ FindThreadByMember(f)
    \/ CreateThread(f)
    \/ FindThreadAgain(f)
    \/ LookupGranteeByEmail(f)
    \/ GetThread(f)
    \/ InsertMessage(f)
    \/ SetThreadGrantee(f)
    \/ PromoteThread(f)
    \/ TouchThread(f)
    \/ CallFails(f)

(***************************************************************************)
(* Authorizing a sender: AddGranteeEmail, one transaction, in the approval *)
(* server or the administrator's command.                                  *)
(***************************************************************************)
\* Mutant: only threads the sender started are looked for.
ThreadsStartedBy(a) == {t \in Messages : thread[t] = None /\ Stored(t) /\ From[t] = a}

\* The untagged threads that hold a message from a.
ThreadsFrom(a) ==
    {t \in Messages : thread[t] = None /\ \E m \in Messages : msgs[m].thread = t /\ From[m] = a}

\* Mutant: UPDATE messages is not restricted to threads.
AllMail(g, T) == {m \in Messages : msgs[m].grantee = None}

\* The untagged messages of g's threads, those of T just written included.
MailOf(g, T) == UntaggedIn(T \cup {t \in Messages : thread[t] = g})

\* INSERT, and the snapshot of UPDATE threads.
AddGranteeEmail(g, a) ==
    /\ adding[a] = "none"
    /\ adding' = [adding EXCEPT ![a] = "threads"]
    /\ addFor' = [addFor EXCEPT ![a] = g]
    /\ addThreads' = [addThreads EXCEPT ![a] = ThreadsFrom(a)]
    /\ UNCHANGED <<imapVars, state, mailVars, senders, granted, addMail, pc, localVars,
                   failed, stale, lost>>

\* The rows of UPDATE threads, and the snapshot of UPDATE messages.
TagThreads(a) ==
    LET T == {t \in addThreads[a] : thread[t] = None} IN
    /\ adding[a] = "threads"
    /\ addThreads[a] \cap LockedThreads = {}
    /\ adding' = [adding EXCEPT ![a] = "messages"]
    /\ addThreads' = [addThreads EXCEPT ![a] = T]
    /\ addMail' = [addMail EXCEPT ![a] = MailOf(addFor[a], T)]
    /\ UNCHANGED <<imapVars, state, mailVars, senders, granted, addFor, pc, localVars,
                   failed, stale, lost>>

EndTransaction(a) ==
    /\ adding' = [adding EXCEPT ![a] = "none"]
    /\ addFor' = [addFor EXCEPT ![a] = None]
    /\ addThreads' = [addThreads EXCEPT ![a] = {}]
    /\ addMail' = [addMail EXCEPT ![a] = {}]
    /\ UNCHANGED <<imapVars, state, pc, localVars, failed, stale, lost>>

\* The rows of UPDATE messages, and COMMIT.
CommitAuthorization(a) ==
    LET g == addFor[a] IN
    /\ adding[a] = "messages"
    /\ thread' = [t \in Messages |-> IF t \in addThreads[a] THEN g ELSE thread[t]]
    /\ msgs' = TagMessages(addMail[a], g)
    /\ senders' = [senders EXCEPT ![a] = g]
    /\ granted' = granted \cup {<<a, g>>}
    /\ EndTransaction(a)

\* A call fails, a deadlock is resolved against it, the caller is stopped.
Rollback(a) ==
    /\ adding[a] # "none"
    /\ EndTransaction(a)
    /\ UNCHANGED <<mailVars, senders, granted>>

RemoveGranteeEmail(g, a) ==
    /\ adding[a] = "none"
    /\ senders[a] = g
    /\ senders' = [senders EXCEPT ![a] = None]
    /\ UNCHANGED <<imapVars, state, mailVars, granted, addVars, pc, localVars, failed, stale,
                   lost>>

sync(f) ==
    \/ GetMailboxState(f)
    \/ NextMessage(f)
    \/ handleMessage(f)
    \/ SaveMailboxState(f)

Next ==
    \/ \E f \in Folders : \E m \in Arriving[f] : Deliver(f, m)
    \/ \E f \in Folders : Rebuild(f) \/ Select(f) \/ sync(f) \/ Changed(f) \/ SessionEnds(f)
    \/ Crash
    \/ \E a \in Senders, g \in Grantees :
          /\ <<a, g>> \in Grants
          /\ AddGranteeEmail(g, a) \/ RemoveGranteeEmail(g, a)
    \/ \E a \in Senders : TagThreads(a) \/ CommitAuthorization(a) \/ Rollback(a)

Spec == Init /\ [][Next]_vars

(***************************************************************************)
(* Properties.                                                             *)
(***************************************************************************)

\* A position covers mail only if the indexer has it: every message at or below a
\* folder's saved last_uid, under the folder's current UIDVALIDITY, is in the
\* messages table or is one whose own handling returned an error.  So neither a
\* crash between a message and the save, nor FETCH answers out of order, nor a
\* rebuilt folder makes sync step over mail it never looked at.
NothingSteppedOver ==
    \A f \in Folders : state[f].v = validity[f] =>
        \A u \in 1..Len(box[f]) : u <= state[f].last =>
            Stored(box[f][u]) \/ <<f, box[f][u]>> \in failed

\* A thread's tag reaches all its mail: in a tagged thread no message stays
\* untagged, unless it was inserted with an answer that was out of date, or after the
\* snapshot of a transaction that was tagging its thread or authorizing its sender.
\* SetThreadGrantee and AddGranteeEmail both have to back-fill, and to look for mail
\* only once the thread is theirs.
ThreadTagReachesMail ==
    \A m \in Messages :
        Stored(m) /\ thread[msgs[m].thread] \in Grantees /\ msgs[m].grantee = None
            => m \in stale

\* Mail from an authorized sender is tagged, with the same exceptions, whichever
\* came first, the mail or the authorization, and whoever tagged its thread.  The
\* exceptions are mail handleMessage was working on when the tag was written: what
\* was in the table before is tagged, however the transactions overlap.
AuthorizedMailTagged ==
    \A m \in Messages :
        Stored(m) /\ senders[From[m]] # None /\ msgs[m].grantee = None => m \in stale

\* Sets of messages no reference leads out of or into, and the smallest of them.
Closed ==
    {C \in SUBSET Messages :
        \A m \in Messages : ThreadCandidates(m) \cap C # {} => ThreadCandidates(m) \subseteq C}

Conversations ==
    {{n \in Messages : \A C \in Closed : m \in C => n \in C} : m \in Messages}

\* A tag never crosses conversations: a message is attributed to a grantee only if
\* a sender of some message it is connected to by references was authorized for
\* that grantee, however threads were split, found or raced for.
TagsStayInConversation ==
    \A C \in Conversations : \A m \in C :
        Stored(m) /\ msgs[m].grantee # None =>
            \E n \in C : <<From[n], msgs[m].grantee>> \in granted

\* Mail tagged by its sender takes its thread along: a message with a grantee sits in
\* an untagged thread only while its worker is about to call PromoteThread, or when
\* that call was cut off or failed.  The message is then in the table, so no later
\* sync handles it again, and the thread can stay untagged.
PromotionFollowsInsert ==
    \A m \in Messages :
        Stored(m) /\ msgs[m].grantee # None /\ thread[msgs[m].thread] = None
            => m \in lost \cup Promoting(Folders)
=============================================================================
