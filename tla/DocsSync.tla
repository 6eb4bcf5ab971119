------------------------------ MODULE DocsSync ------------------------------
(***************************************************************************)
(* The Google Docs sync: pods that each run one cycle after another over   *)
(* the whitelisted sources of the active grantees, and the docs table they *)
(* keep.  The deployment has one replica and the default rolling update,   *)
(* so two pods can overlap.                                                *)
(*                                                                         *)
(* Pods are the ones that could run, pods those that ever do.              *)
(*                                                                         *)
(* A cycle is split at its database and Drive calls (pc[p]).  A pod can be *)
(* stopped, or its cycle abandoned by an error, at any of them; a call for *)
(* one grantee, source or document can fail and is then only skipped.      *)
(*                                                                         *)
(* Time is counted in ticks, TicksPerSecond to a second: Drive's times are *)
(* finer than the whole seconds the docs table keeps.  A version of a      *)
(* document is named by its modification time.  Drive is abstracted to the *)
(* sources a document is found under: its folders at any depth, or itself. *)
(* Left out: titles, owners, image flags, error texts, synced_at and       *)
(* last_successful_sync; a folder is listed in one call, not page by page. *)
(***************************************************************************)
EXTENDS Naturals

CONSTANTS
    Pods, Docs, Grantees, Sources,
    Grants,               \* the <<grantee, source>> pairs somebody asks to authorize
    TicksPerSecond,
    MaxTime, MaxCycles,   \* bounds on edits and on cycles
    None

ASSUME TimeAssumption == TicksPerSecond \in Nat \ {0} /\ MaxTime \in Nat /\ MaxCycles \in Nat
ASSUME GrantsAssumption == Grants \subseteq Grantees \X Sources
ASSUME NoneAssumption == None \notin Docs \cup Grantees \cup Sources

VARIABLES
    \* Drive.
    clock,
    mtime,      \* the modification time of a document
    place,      \* the sources a document is found under
    readable,   \* the documents the service account may export
    pods,       \* the pods of the deployment
    \* The database.
    active,     \* the grantees that are not paused
    sources,    \* grantee_sources, as <<grantee, source>> pairs
    docs,       \* docs
    counter,    \* sync_state's cycle_counter
    \* The pods.
    pc,
    cycle,      \* cycleID; before the write, the counter as read
    gtodo,      \* grantees left to sync
    stodo,      \* <<grantee, source>> pairs left of the current grantee
    from,       \* the pair being walked
    ftodo,      \* <<document, modifiedTime>> pairs listed under it and left
    file,       \* the pair in processDoc
    had,        \* existing # nil
    text,       \* the version ExportMarkdown returned
    \* History.
    calm,       \* pods whose cycle nothing has disturbed
    allowed     \* every pair ever in grantee_sources

driveVars == <<clock, mtime, place, readable>>
adminVars == <<pods, active, sources, allowed>>
walkVars == <<gtodo, stodo, from, ftodo>>
docVars == <<file, had, text>>
vars == <<driveVars, adminVars, docs, counter, pc, cycle, walkVars, docVars, calm>>

(***************************************************************************)
(* Types.                                                                  *)
(***************************************************************************)
Files == Docs \X Nat
NoFile == <<None, 0>>
NoPair == <<None, None>>

NoDoc == [status |-> "absent", grantee |-> None, source |-> None, listed |-> 0,
          content |-> 0, seen |-> 0]

\* listed is the modifiedTime the row was written with, content the version.
Doc == [status : {"active", "stale", "error"}, grantee : Grantees, source : Sources,
        listed : Nat, content : Nat, seen : Nat]

DocPc == {"touch", "export", "mark_stale", "mark_error", "upsert"}

TypeOK ==
    /\ clock \in Nat
    /\ mtime \in [Docs -> Nat]
    /\ place \in [Docs -> SUBSET Sources]
    /\ readable \subseteq Docs
    /\ pods \subseteq Pods
    /\ active \subseteq Grantees
    /\ sources \subseteq Grantees \X Sources
    /\ docs \in [Docs -> Doc \cup {NoDoc}]
    /\ counter \in Nat
    /\ pc \in [Pods -> DocPc \cup {"idle", "bump", "list", "walk", "ended"}]
    /\ cycle \in [Pods -> Nat]
    /\ gtodo \in [Pods -> SUBSET Grantees]
    /\ stodo \in [Pods -> SUBSET (Grantees \X Sources)]
    /\ from \in [Pods -> (Grantees \X Sources) \cup {NoPair}]
    /\ ftodo \in [Pods -> SUBSET Files]
    /\ file \in [Pods -> Files \cup {NoFile}]
    /\ had \in [Pods -> BOOLEAN]
    /\ text \in [Pods -> Nat]
    /\ calm \subseteq Pods
    /\ allowed \subseteq Grantees \X Sources

Init ==
    /\ clock = 1
    /\ mtime = [d \in Docs |-> 1]
    /\ place = [d \in Docs |-> {}]
    /\ readable = Docs
    /\ pods \in SUBSET Pods
    /\ active = Grantees
    /\ sources = {}
    /\ allowed = {}
    /\ docs = [d \in Docs |-> NoDoc]
    /\ counter = 0
    /\ pc = [p \in Pods |-> "idle"]
    /\ cycle = [p \in Pods |-> 0]
    /\ gtodo = [p \in Pods |-> {}]
    /\ stodo = [p \in Pods |-> {}]
    /\ from = [p \in Pods |-> NoPair]
    /\ ftodo = [p \in Pods |-> {}]
    /\ file = [p \in Pods |-> NoFile]
    /\ had = [p \in Pods |-> FALSE]
    /\ text = [p \in Pods |-> 0]
    /\ calm = {}

(***************************************************************************)
(* Drive: documents are edited, moved, shared and unshared.                *)
(***************************************************************************)
Edit(d) ==
    /\ \E t \in clock + 1 .. MaxTime :
          /\ clock' = t
          /\ mtime' = [mtime EXCEPT ![d] = t]
    /\ calm' = {}
    /\ UNCHANGED <<place, readable, adminVars, docs, counter, pc, cycle, walkVars, docVars>>

\* Moving or sharing a document does not touch its modifiedTime.
Move(d, S) ==
    /\ place' = [place EXCEPT ![d] = S]
    /\ calm' = {}
    /\ UNCHANGED <<clock, mtime, readable, adminVars, docs, counter, pc, cycle, walkVars,
                   docVars>>

SetReadable(R) ==
    /\ readable' = R
    /\ calm' = {}
    /\ UNCHANGED <<clock, mtime, place, adminVars, docs, counter, pc, cycle, walkVars, docVars>>

(***************************************************************************)
(* The administrator, and the executor of whitelist_doc.                   *)
(***************************************************************************)
\* api grantee pause, resume
SetGranteeStatus(A) ==
    /\ active' = A
    /\ calm' = {}
    /\ UNCHANGED <<driveVars, pods, sources, allowed, docs, counter, pc, cycle, walkVars,
                   docVars>>

UpsertSource(g, s) ==
    /\ sources' = sources \cup {<<g, s>>}
    /\ allowed' = allowed \cup {<<g, s>>}
    /\ calm' = {}
    /\ UNCHANGED <<driveVars, pods, active, docs, counter, pc, cycle, walkVars, docVars>>

\* api grantee revoke: the source goes, its documents stay.
DeleteSource(g, s) ==
    /\ <<g, s>> \in sources
    /\ sources' = sources \ {<<g, s>>}
    /\ calm' = {}
    /\ UNCHANGED <<driveVars, pods, active, allowed, docs, counter, pc, cycle, walkVars,
                   docVars>>

(***************************************************************************)
(* Run.                                                                    *)
(***************************************************************************)
Goto(p, where) == pc' = [pc EXCEPT ![p] = where]

\* NextCycleID reads the counter in a transaction of its own, at the default
\* isolation level: the row is not locked.
ReadCounter(p) ==
    /\ p \in pods
    /\ pc[p] \in {"idle", "ended"}
    /\ counter < MaxCycles
    /\ cycle' = [cycle EXCEPT ![p] = counter]
    /\ calm' = IF \A q \in Pods \ {p} : pc[q] \in {"idle", "ended"} THEN {p} ELSE {}
    /\ Goto(p, "bump")
    /\ UNCHANGED <<driveVars, adminVars, docs, counter, walkVars, docVars>>

\* ... and writes its own sum; then ListActiveGrantees.
WriteCounter(p) ==
    /\ pc[p] = "bump"
    /\ counter' = cycle[p] + 1
    /\ cycle' = [cycle EXCEPT ![p] = @ + 1]
    /\ Goto(p, "list")
    /\ UNCHANGED <<driveVars, adminVars, docs, walkVars, docVars, calm>>

ListActiveGrantees(p) ==
    /\ pc[p] = "list"
    /\ gtodo' = [gtodo EXCEPT ![p] = active]
    /\ Goto(p, "walk")
    /\ UNCHANGED <<driveVars, adminVars, docs, counter, cycle, stodo, from, ftodo, docVars,
                   calm>>

\* syncGrantee: ListSourcesForGrantee; on an error the grantee is left out.
syncGrantee(p) ==
    /\ pc[p] = "walk" /\ stodo[p] = {} /\ ftodo[p] = {}
    /\ \E g \in gtodo[p] :
          /\ gtodo' = [gtodo EXCEPT ![p] = @ \ {g}]
          /\ \/ /\ stodo' = [stodo EXCEPT ![p] = {x \in sources : x[1] = g}]
                /\ UNCHANGED calm
             \/ /\ calm' = calm \ {p}
                /\ UNCHANGED stodo
    /\ UNCHANGED <<driveVars, adminVars, docs, counter, pc, cycle, from, ftodo, docVars>>

Found(s) == {<<d, mtime[d]>> : d \in {e \in Docs : s \in place[e]}}

\* Mutant: the documents found are handed on without their source.
walkFolderForgetsSource(p) ==
    /\ pc[p] = "walk" /\ ftodo[p] = {}
    /\ \E x \in stodo[p] :
          /\ stodo' = [stodo EXCEPT ![p] = @ \ {x}]
          /\ ftodo' = [ftodo EXCEPT ![p] = Found(x[2])]
    /\ UNCHANGED <<driveVars, adminVars, docs, counter, pc, cycle, gtodo, from, docVars, calm>>

\* walkFolder, or GetFile for a single document.  An error leaves out what lies
\* behind it: some of the folder, or all.
walkFolder(p) ==
    /\ pc[p] = "walk" /\ ftodo[p] = {}
    /\ \E x \in stodo[p] :
          /\ stodo' = [stodo EXCEPT ![p] = @ \ {x}]
          /\ from' = [from EXCEPT ![p] = x]
          /\ \/ /\ ftodo' = [ftodo EXCEPT ![p] = Found(x[2])]
                /\ UNCHANGED calm
             \/ /\ \E F \in SUBSET Found(x[2]) : ftodo' = [ftodo EXCEPT ![p] = F]
                /\ calm' = calm \ {p}
    /\ UNCHANGED <<driveVars, adminVars, docs, counter, pc, cycle, gtodo, docVars>>

(***************************************************************************)
(* processDoc.                                                             *)
(***************************************************************************)
Present(d) == docs[d].status # "absent"

\* What survives of a time in the docs table: whole seconds.
ToSeconds(t) == t - (t % TicksPerSecond)

\* Mutant: both times are compared in whole seconds.
UnchangedToTheSecond(d, t) == Present(d) /\ ToSeconds(docs[d].listed) = ToSeconds(t)

\* existing.ModifiedAt.Equal(modifiedAt): seconds read back, against Drive's own.
Unchanged(d, t) == Present(d) /\ ToSeconds(docs[d].listed) = t

\* GetDocByID and the change detection.
GetDocByID(p) ==
    /\ pc[p] = "walk"
    /\ \E x \in ftodo[p] :
          /\ ftodo' = [ftodo EXCEPT ![p] = @ \ {x}]
          /\ file' = [file EXCEPT ![p] = x]
          /\ had' = [had EXCEPT ![p] = Present(x[1])]
          /\ Goto(p, IF Unchanged(x[1], x[2]) THEN "touch" ELSE "export")
    /\ UNCHANGED <<driveVars, adminVars, docs, counter, cycle, gtodo, stodo, from, text, calm>>

\* processDoc returns.
Return(p) ==
    /\ Goto(p, "walk")
    /\ file' = [file EXCEPT ![p] = NoFile]
    /\ had' = [had EXCEPT ![p] = FALSE]
    /\ text' = [text EXCEPT ![p] = 0]

\* A database call of processDoc fails: logged, the document is left as it is.
CallFails(p) ==
    /\ pc[p] \in DocPc
    /\ Return(p)
    /\ calm' = calm \ {p}
    /\ UNCHANGED <<driveVars, adminVars, docs, counter, cycle, walkVars>>

SetStatus(d, status, seen) ==
    docs' = [docs EXCEPT ![d] = [status |-> status, grantee |-> @.grantee,
                source |-> @.source, listed |-> @.listed, content |-> @.content, seen |-> seen]]

\* Mutant: the status of a row found again is left alone.
TouchKeepsStatus(p) ==
    LET d == file[p][1] IN
    /\ pc[p] = "touch"
    /\ SetStatus(d, docs[d].status, cycle[p])
    /\ Return(p)
    /\ UNCHANGED <<driveVars, adminVars, counter, cycle, walkVars, calm>>

TouchDocSeen(p) ==
    /\ pc[p] = "touch"
    /\ SetStatus(file[p][1], "active", cycle[p])
    /\ Return(p)
    /\ UNCHANGED <<driveVars, adminVars, counter, cycle, walkVars, calm>>

\* The export returns today's version, which may be newer than the listed one; or
\* it fails, which only matters for a document that has a row.  IsNotFoundOrForbidden
\* takes any 403 or 404 for lost access, a rate limit on a readable document too, and
\* anything else for an error, also when the document cannot be read.
ExportMarkdown(p) ==
    LET d == file[p][1] IN
    /\ pc[p] = "export"
    /\ \/ /\ d \in readable
          /\ text' = [text EXCEPT ![p] = mtime[d]]
          /\ Goto(p, "upsert")
          /\ UNCHANGED <<file, had, calm>>
       \/ /\ had[p]
          /\ \E where \in {"mark_stale", "mark_error"} : Goto(p, where)
          /\ calm' = calm \ {p}
          /\ UNCHANGED docVars
       \/ /\ ~had[p]
          /\ Return(p)
          /\ calm' = calm \ {p}
    /\ UNCHANGED <<driveVars, adminVars, docs, counter, cycle, walkVars>>

MarkDocStale(p) ==
    /\ pc[p] = "mark_stale"
    /\ SetStatus(file[p][1], "stale", docs[file[p][1]].seen)
    /\ Return(p)
    /\ UNCHANGED <<driveVars, adminVars, counter, cycle, walkVars, calm>>

MarkDocError(p) ==
    /\ pc[p] = "mark_error"
    /\ SetStatus(file[p][1], "error", docs[file[p][1]].seen)
    /\ Return(p)
    /\ UNCHANGED <<driveVars, adminVars, counter, cycle, walkVars, calm>>

\* Mutant: on a conflict the row keeps its grantee.
UpsertKeepsGrantee(p) ==
    LET d == file[p][1] IN
    /\ pc[p] = "upsert"
    /\ docs' = [docs EXCEPT ![d] =
          [status |-> "active", grantee |-> IF Present(d) THEN @.grantee ELSE from[p][1],
           source |-> from[p][2], listed |-> file[p][2], content |-> text[p],
           seen |-> cycle[p]]]
    /\ Return(p)
    /\ UNCHANGED <<driveVars, adminVars, counter, cycle, walkVars, calm>>

UpsertDoc(p) ==
    /\ pc[p] = "upsert"
    /\ docs' = [docs EXCEPT ![file[p][1]] =
          [status |-> "active", grantee |-> from[p][1], source |-> from[p][2],
           listed |-> file[p][2], content |-> text[p], seen |-> cycle[p]]]
    /\ Return(p)
    /\ UNCHANGED <<driveVars, adminVars, counter, cycle, walkVars, calm>>

processDoc(p) ==
    \/ GetDocByID(p)
    \/ TouchDocSeen(p)
    \/ ExportMarkdown(p)
    \/ MarkDocStale(p)
    \/ MarkDocError(p)
    \/ UpsertDoc(p)
    \/ CallFails(p)

(***************************************************************************)
(* The end of a cycle.                                                     *)
(***************************************************************************)
\* Active rows of active grantees whose source is still somebody's.
Markable(d) ==
    /\ docs[d].status = "active"
    /\ docs[d].grantee \in active
    /\ \E x \in sources : x[2] = docs[d].source

Walked(p) == pc[p] = "walk" /\ gtodo[p] = {} /\ stodo[p] = {} /\ ftodo[p] = {}

\* Mutant: a row seen in the cycle before this one is taken for seen.
MarkUnseenOffByOne(p) ==
    /\ Walked(p)
    /\ docs' = [d \in Docs |->
          IF Markable(d) /\ docs[d].seen + 1 < cycle[p]
          THEN [status |-> "stale", grantee |-> docs[d].grantee, source |-> docs[d].source,
                listed |-> docs[d].listed, content |-> docs[d].content, seen |-> docs[d].seen]
          ELSE docs[d]]
    /\ Goto(p, "ended")
    /\ UNCHANGED <<driveVars, adminVars, counter, cycle, walkVars, docVars, calm>>

MarkUnseenStale(p) ==
    /\ Walked(p)
    /\ docs' = [d \in Docs |->
          IF Markable(d) /\ docs[d].seen < cycle[p]
          THEN [status |-> "stale", grantee |-> docs[d].grantee, source |-> docs[d].source,
                listed |-> docs[d].listed, content |-> docs[d].content, seen |-> docs[d].seen]
          ELSE docs[d]]
    /\ Goto(p, "ended")
    /\ UNCHANGED <<driveVars, adminVars, counter, cycle, walkVars, docVars, calm>>

\* The cycle is abandoned: an error of NextCycleID, ListActiveGrantees or
\* MarkUnseenStale, a shutdown or a crash.  runPollLoop, or the next pod, retries.
Abandon(p) ==
    /\ pc[p] \notin {"idle", "ended"}
    /\ pc' = [pc EXCEPT ![p] = "idle"]
    /\ cycle' = [cycle EXCEPT ![p] = 0]
    /\ gtodo' = [gtodo EXCEPT ![p] = {}]
    /\ stodo' = [stodo EXCEPT ![p] = {}]
    /\ from' = [from EXCEPT ![p] = NoPair]
    /\ ftodo' = [ftodo EXCEPT ![p] = {}]
    /\ file' = [file EXCEPT ![p] = NoFile]
    /\ had' = [had EXCEPT ![p] = FALSE]
    /\ text' = [text EXCEPT ![p] = 0]
    /\ calm' = calm \ {p}
    /\ UNCHANGED <<driveVars, adminVars, docs, counter>>

Run(p) ==
    \/ ReadCounter(p)
    \/ WriteCounter(p)
    \/ ListActiveGrantees(p)
    \/ syncGrantee(p)
    \/ walkFolder(p)
    \/ processDoc(p)
    \/ MarkUnseenStale(p)
    \/ Abandon(p)

Drive ==
    \/ \E d \in Docs : Edit(d)
    \/ \E d \in Docs, S \in SUBSET Sources : Move(d, S)
    \/ \E R \in SUBSET Docs : SetReadable(R)

Admin ==
    \/ \E A \in SUBSET Grantees : SetGranteeStatus(A)
    \/ \E g \in Grantees, s \in Sources :
          /\ <<g, s>> \in Grants
          /\ UpsertSource(g, s) \/ DeleteSource(g, s)

Next == Drive \/ Admin \/ \E p \in Pods : Run(p)

Spec == Init /\ [][Next]_vars

(***************************************************************************)
(* Properties.                                                             *)
(***************************************************************************)

\* Change detection never hides an edit: a row that the next look at the document
\* would take for unchanged holds the document's current version, however edits,
\* listings, exports and two pods' upserts interleaved.
UnchangedMeansCurrent ==
    \A d \in Docs : Unchanged(d, mtime[d]) => docs[d].content = mtime[d]

\* "Only whitelisted sources are ever fetched": the grantee and the source a row
\* names have stood together in grantee_sources, whatever was authorized, revoked
\* or moved while pods were working from what they had read.
RowsComeFromGrants ==
    \A d \in Docs : Present(d) => <<docs[d].grantee, docs[d].source>> \in allowed

\* A document found under a source of an active grantee.
Reachable(d) == \E x \in sources : x[1] \in active /\ x[2] \in place[d]

\* A cycle that ran alone, without an error and with nothing changing under it, leaves
\* every document within reach active, current and seen, whatever overlapping cycles
\* and failing calls left in the table before.
CalmCycleServesDrive ==
    \A p \in calm : pc[p] = "ended" =>
        \A d \in Docs : Reachable(d) =>
            docs[d].status = "active" /\ docs[d].content = mtime[d] /\ docs[d].seen = cycle[p]

\* "Marks any previously-active doc that wasn't seen in this cycle stale": the rows
\* such a cycle leaves active, of those MarkUnseenStale looks at, are within reach.
UnseenAreStale == \A d \in Docs : Markable(d) => Reachable(d)

\* It holds while there is one pod, whatever failed in the cycles before.
OnePodMarksUnseenStale ==
    \A p \in calm : pods = {p} /\ pc[p] = "ended" => UnseenAreStale

\* "NextCycleID atomically increments the monotonic cycle counter", and so every such
\* cycle would mark what it did not see, with other pods before it too.  Two pods that
\* read the counter at once can put it back, and a later cycle then repeats a number
\* that rows have been seen in.
EveryPodMarksUnseenStale ==
    \A p \in calm : pc[p] = "ended" => UnseenAreStale

\* "same modifiedTime is a no-op": a document whose row was written with the
\* modifiedTime that is listed now is not exported again.  A fraction of a second is
\* dropped from the row, and then the times differ in every cycle.
SameTimeIsNoOp ==
    \A p \in Pods : pc[p] = "export" =>
        ~(Present(file[p][1]) /\ docs[file[p][1]].listed = file[p][2])
=============================================================================
