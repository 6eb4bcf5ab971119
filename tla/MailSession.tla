---------------------------- MODULE MailSession ----------------------------
(***************************************************************************)
(* One folder's IMAP session: when the mail indexer looks.                 *)
(*                                                                         *)
(* The server reports new mail by an EXISTS line, whenever it likes; the   *)
(* client library's reader turns it into an element of the notify channel  *)
(* (Exists).  The worker syncs, drains the channel, idles, and syncs again *)
(* on the next element.  A periodic refresh leaves IDLE and enters it      *)
(* again without a sync.                                                   *)
(*                                                                         *)
(* The messages of the folder are 1..mail, their numbers their UIDs.  What *)
(* sync does with a message is in MailIndexer: here all it fetches is      *)
(* handled and the UIDVALIDITY stays.  The delay before a new session is   *)
(* left out.                                                               *)
(***************************************************************************)
EXTENDS Naturals

CONSTANTS
    Capacity,   \* of the notify channel
    MaxMail,    \* bound on the messages delivered
    MaxEnds     \* bound on the sessions that end

ASSUME CapacityAssumption == Capacity \in Nat \ {0}
ASSUME BoundsAssumption == MaxMail \in Nat /\ MaxEnds \in Nat

VARIABLES
    mail,       \* how many messages the folder has
    told,       \* how many of them the server has reported in this session
    notify,     \* the number of elements in the notify channel
    pc,         \* where the worker stands
    fetched,    \* the last message in the answer to FETCH
    lastUID,    \* mailbox_state.last_uid
    ends,       \* how many sessions have ended
    late        \* history: messages reported when the notice would be drained

serverVars == <<mail, told>>
vars == <<serverVars, notify, pc, fetched, lastUID, ends, late>>

Connected == pc # "down"

TypeOK ==
    /\ mail \in 0..MaxMail
    /\ told \in 0..mail
    /\ notify \in 0..Capacity
    /\ pc \in {"down", "sync", "save", "drain", "idle", "idling", "changed", "refresh"}
    /\ fetched \in 0..told
    /\ lastUID \in 0..mail
    /\ ends \in 0..MaxEnds
    /\ late \subseteq (lastUID + 1)..mail

Init ==
    /\ mail = 0
    /\ told = 0
    /\ notify = 0
    /\ pc = "down"
    /\ fetched = 0
    /\ lastUID = 0
    /\ ends = 0
    /\ late = {}

Goto(where) == pc' = where

(***************************************************************************)
(* The server and the library's reader.                                    *)
(***************************************************************************)
Deliver ==
    /\ mail < MaxMail
    /\ mail' = mail + 1
    /\ UNCHANGED <<told, notify, pc, fetched, lastUID, ends, late>>

\* Mutant: the channel has no buffer, a notice counts only while select waits.
NotifyUnbuffered == notify' = IF pc = "idling" THEN 1 ELSE notify

\* A full channel takes no more: one element is enough to wake the worker.
Notify == notify' = IF notify < Capacity THEN notify + 1 ELSE notify

\* Between the FETCH of a sync, or the refresh, and the drain.
Deaf == pc \in {"save", "drain", "refresh"}

Exists ==
    /\ Connected
    /\ told < mail
    /\ told' = mail
    /\ Notify
    /\ late' = IF Deaf THEN late \cup (told + 1)..mail ELSE late
    /\ UNCHANGED <<mail, pc, fetched, lastUID, ends>>

(***************************************************************************)
(* Run and runOnce.                                                        *)
(***************************************************************************)
\* Mutant: a session starts without a sync of its own.
SelectOnly ==
    /\ pc = "down"
    /\ told' = mail
    /\ Goto("drain")
    /\ UNCHANGED <<mail, notify, fetched, lastUID, ends, late>>

\* dial with a new channel, Login, Select, whose answer counts the messages.
Select ==
    /\ pc = "down"
    /\ told' = mail
    /\ Goto("sync")
    /\ UNCHANGED <<mail, notify, fetched, lastUID, ends, late>>

\* Mutant: one message is fetched per notice.
FetchOne ==
    /\ pc = "sync"
    /\ fetched' = IF lastUID < told THEN lastUID + 1 ELSE told
    /\ Goto("save")
    /\ UNCHANGED <<serverVars, notify, lastUID, ends, late>>

\* FETCH lastUID+1:* is answered from what the server has reported by then.
Fetch ==
    /\ pc = "sync"
    /\ fetched' = told
    /\ Goto("save")
    /\ UNCHANGED <<serverVars, notify, lastUID, ends, late>>

\* Mutant: the next UID is saved, not the last.
SaveUIDNext ==
    /\ pc = "save"
    /\ lastUID' = fetched + 1
    /\ late' = late \ 1..fetched
    /\ Goto("drain")
    /\ UNCHANGED <<serverVars, notify, fetched, ends>>

SaveMailboxState ==
    /\ pc = "save"
    /\ lastUID' = fetched
    /\ late' = late \ 1..fetched
    /\ Goto("drain")
    /\ UNCHANGED <<serverVars, notify, fetched, ends>>

sync == Fetch \/ SaveMailboxState

\* An error of dial, sync or IDLE, the end of the process, the loss of the
\* connection: the next session has a channel of its own.
SessionEnds ==
    /\ Connected
    /\ ends < MaxEnds
    /\ ends' = ends + 1
    /\ told' = 0
    /\ notify' = 0
    /\ fetched' = 0
    /\ Goto("down")
    /\ UNCHANGED <<mail, lastUID, late>>

(***************************************************************************)
(* idleUntilChange.                                                        *)
(***************************************************************************)
\* Empty the channel, whatever the notices were about.
Drain ==
    /\ pc = "drain"
    /\ notify' = 0
    /\ Goto("idle")
    /\ UNCHANGED <<serverVars, fetched, lastUID, ends, late>>

Idle ==
    /\ pc = "idle"
    /\ Goto("idling")
    /\ UNCHANGED <<serverVars, notify, fetched, lastUID, ends, late>>

\* case <-notify
Wake ==
    /\ pc = "idling"
    /\ notify > 0
    /\ notify' = notify - 1
    /\ Goto("changed")
    /\ UNCHANGED <<serverVars, fetched, lastUID, ends, late>>

\* case <-refresh.C, which select may take even when a notice is there.
Refresh ==
    /\ pc = "idling"
    /\ late' = IF notify > 0 THEN late \cup (lastUID + 1)..told ELSE late
    /\ Goto("refresh")
    /\ UNCHANGED <<serverVars, notify, fetched, lastUID, ends>>

\* case err := <-done without an error: the server ended IDLE.
IdleEnded ==
    /\ pc = "idling"
    /\ Goto("sync")
    /\ UNCHANGED <<serverVars, notify, fetched, lastUID, ends, late>>

\* Mutant: a change is taken for a refresh.
StopUnchanged ==
    /\ pc \in {"changed", "refresh"}
    /\ Goto("drain")
    /\ UNCHANGED <<serverVars, notify, fetched, lastUID, ends, late>>

\* DONE is acknowledged; only a change leads to a sync.
Stop ==
    /\ \/ pc = "changed" /\ Goto("sync")
       \/ pc = "refresh" /\ Goto("drain")
    /\ UNCHANGED <<serverVars, notify, fetched, lastUID, ends, late>>

idleUntilChange == Drain \/ Idle \/ Wake \/ Stop

Next ==
    \/ Deliver
    \/ Exists
    \/ Select
    \/ sync
    \/ idleUntilChange
    \/ Refresh
    \/ IdleEnded
    \/ SessionEnds

\* The goroutine runs on when it does not wait, its calls return, a new session
\* can be had, and a server reports mail in the end.  The refresh, the end of
\* IDLE and the end of a session may never come.
Fairness ==
    /\ WF_vars(Select \/ sync \/ idleUntilChange)
    /\ WF_vars(Exists)

Spec == Init /\ [][Next]_vars /\ Fairness

(***************************************************************************)
(* Properties.                                                             *)
(***************************************************************************)

\* What the worker sleeps on: when it waits in IDLE on an empty channel, every
\* message reported to it is fetched, unless it was reported between the FETCH of
\* a sync and the drain, or as the refresh fired.  A full channel, a notice between
\* the drain and IDLE or one while IDLE is left for a sync lose nothing.
NothingSleptOn ==
    pc = "idling" /\ notify = 0 => 1..told \subseteq 1..lastUID \cup late

\* Mail delivered at any moment is fetched in the end, unless it is reported in one
\* of those two windows: then idleUntilChange drains the notice, and the mail waits
\* for the next.
MailIsFetched ==
    \A m \in 1..MaxMail : m <= mail ~> m <= lastUID \/ m \in late

\* A new session makes up for everything, late notices included, unless it ends
\* too: Run reconnects, and runOnce syncs before it idles.
ReconnectCatchesUp ==
    \A m \in 1..MaxMail : pc = "down" /\ m <= mail ~> m <= lastUID

\* One notice is enough for all the mail there is: once a notice wakes the worker,
\* everything reported until then is fetched, mail whose own notice came late
\* included, unless the refresh fires at the same moment or the session ends.
WakeFetchesBacklog ==
    \A m \in 1..MaxMail :
        pc = "idling" /\ notify > 0 /\ m <= told ~> m <= lastUID \/ pc \in {"refresh", "down"}
=============================================================================
