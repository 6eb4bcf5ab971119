# balvibot: TLA+ models, checks and proofs

balvibot's backend (`src/tools/api`) is one binary, `api`, run as several
processes over one Postgres database, and an operator's command line tool,
`balvi-approve`. An agent talks to it through an MCP server. This directory
models the parts that carry its logic, checks them with TLC and proves the safety
properties of all of them but the signing payload with TLAPS.

## The system

| Part | State it keeps | Operations |
|---|---|---|
| approval queue and server (`approvalserver`, `store/approvals.go`) | `approval_actions`, `approval_users` | queue an action, approve it, mark it executed or failed |
| executor (`approval/executor.go`, `actions`) | writes `grantees`, `approval_users`, `grantee_sources`, `grantee_emails` | one handler per action name |
| signing (`approval/signing.go`, `verify.go`) | none | payload, signature check |
| `balvi-approve` (`cmd/approve`) | none | fetch, show, ask, sign, post |
| MCP server (`mcpserver`) | `notes`, and rows of the queue | four queueing tools, notes, listings page by page, single reads |
| mail indexer (`mailbox`, `grantee`, `parse`) | `mailbox_state`, `threads`, `messages`, the notify channel | per folder: select, sync, handle a message, idle |
| attachment store (`cas`) | files under their digest, temporary files | Put |
| Google Docs sync (`sync`, `drive`) | `docs`, `sync_state` | one cycle after another |
| administration (`cmd/api`) | the same tables, without approval | operators, grantees, senders, sources, migrations |

They interact only through the tables. What is hard about each:

* **Approval.** `approveAction` checks that a row is pending, dispatches, and
  marks it, in separate database calls on the request's context: requests race,
  operators interrupt, calls fail, the server dies in between. Correct means:
  nothing runs that an operator did not confirm, the status and the answer tell
  the truth, a settled row stays settled, an undisturbed dispatch settles its row.
* **Mail.** Folder workers write the same threads; senders are authorized while
  messages are in flight; the position is saved once per sync. Correct means: no
  mail is stepped over unseen, tags reach the mail they should and no other.
* **Sessions.** Notices of new mail arrive at any time through a bounded channel that
  is drained before every IDLE, next to a refresh timer. Correct means: mail is
  fetched in the end, and a new session makes up for what the last one missed.
* **Attachments.** Workers store the same content at the same time, calls fail and the
  process stops between a file and the row that names it. Correct means: what a row
  names is there, whole, and stays.
* **Listings.** Rows are written, tagged and moved to the front between two pages.
  Correct means: a listing ends and misses and repeats nothing.
* **Docs.** Pods overlap in a rolling update; Drive changes during a cycle; times
  have different precision. Correct means: an edit is never taken for no change,
  rows belong to authorized sources, a quiet cycle serves what is within reach and
  marks what is not.
* **Notes.** Calls that look a note up and supersede it run side by side, ids become
  visible out of order, and listings are fetched page by page meanwhile. Correct
  means: a listing is complete and repeats nothing, nothing current is hidden.
* **Signing.** The same args pass through JSON encoders and JSONB on two paths and
  must end as the same bytes.

`PROJECT.json` lists every component, the hazards with their lines, and the source
lines of every definition.

## Modules

**`Approval`** follows the gate from the tools to the status update. A session
(`req[c]`) is one POST and its goroutine; `req[c].pc` is the database call it is
at: `get_action`, `get_user` (with `Verify`), `dispatch`, `mark_executed` or
`mark_failed`. The rows are `row`, the other variables the tables the handlers
write. A call of a session ends `ok`, `error` (nothing done) or `lost` (done, the
reply lost): because the database failed (at most `MaxFaults` times), or because
the operator interrupted the CLI, which cancels the context of the call under way
and of all later ones. `Crash` ends every session under way. `Resubmit` posts an
old signature again, to any row and under any address. The administrator's
commands change the same tables at any time. Signatures are records of key, id
and job: unforgeable, as SSH signatures are taken to be.

**`ApprovalQueue`** is what the gate promises of a row: queued, confirmed, takes
effect only once confirmed, executed only once it took effect, and final then. It
does not promise that a row takes effect once, because the code does not: two requests
can both find a row pending and both dispatch it. Each handler sets rows to given
values, so two dispatches with nothing in between are as one, but an administrator's
`approve-user remove` between them is undone by the second. Nothing here claims
otherwise. `Approval` maps its rows and sessions to the queue (`ImplementsQueue`).
`SendersAfter` writes `grantee_emails` only; the threads and messages that
`AddGranteeEmail` tags in the same transaction are in `MailIndexer`.

**`SigningPayload`** is the way of an action's args from the tool through
`json.Marshal`, the JSONB column, the HTTP answer and `json.Compact` to the bytes
both sides build. JSON texts are sequences of lexemes; only separators, white
space and the characters Go escapes for HTML are told apart.

**`MailIndexer`** has one worker per folder, split at the database calls of
`handleMessage`. An IMAP folder is a sequence of messages, the UID the position;
`Rebuild` gives it a new UIDVALIDITY and new UIDs. Threads are named by their
unique root. Any call can fail, any write can be done and its reply lost, and the
process can stop anywhere. The two transactions that tag, `SetThreadGrantee` and
`AddGranteeEmail`, run at READ COMMITTED and are split at the snapshots of their
UPDATEs: `SetThreadGrantee`, then `PromoteThread` with the COMMIT; `AddGranteeEmail`,
`TagThreads`, then `CommitAuthorization`. `LockedThreads` are the rows written and not
committed, for which the other writers of threads wait; `Rollback` ends a transaction
that failed or lost a deadlock.

History variables name what the code lets slip, and the properties excuse it. `stale`
holds messages inserted without a grantee although by then the sender was authorized,
the thread tagged, or a transaction that tags them had taken the snapshot that does not
show them: `Resolve` and `InsertMessage` are separate calls, and the back-fill sees only
what its snapshots see. So mail that is being handled while its sender is authorized can
stay untagged, although `actions/handlers.go` line 112 speaks of back-filling; mail that
was in the table before cannot, and that is what `AuthorizedMailTagged` and
`ThreadTagReachesMail` say. `lost` holds messages whose `PromoteThread` was cut off or
failed after the row was there (the next sync finds the row and returns early), and
`failed` those whose handling returned an error, which a later UID lets the position
pass. The properties bound these losses; they do not rule them out.

**`MailSession`** is when the indexer looks: one folder's session, with the notify
channel (`notify`, at most `Capacity` elements), the worker's place in `runOnce` and
`idleUntilChange` (`pc`) and the server, which reports mail (`Exists`) some time after
it arrived. `sync` is abstracted to the FETCH and the saved position. `idleUntilChange`
drains the channel "so we only react to fresh ones", but what it drains can be about
mail that no FETCH has seen: mail reported after the FETCH of the sync just done, or
reported as the refresh fires, since select may choose the refresh. The history
variable `late` holds exactly these messages; they wait for the next notice, the end
of IDLE, or the next session. The properties excuse them and say that no other mail
waits.

**`Attachments`** is `ParseRFC822`'s loop over the attachments of a message around
`Put`, and the transaction that writes the rows, for workers that share the
directory. `Put` is split at its file system calls, with the error return of each; a
content stands for its digest and its path. `leaked` is history: temporary files left
by a stop of the process or by an `os.Remove` that failed, whose error the code
ignores. The Go code has no step that removes them.

**`DocsSync`** has one process per pod, split at the calls of a cycle. A version of
a document is named by its modification time; times are in ticks, and `ToSeconds`
is what the docs table keeps. Drive is the set of sources a document is found
under. `pods` are the pods of the deployment: any of `Pods`, chosen at the start.
`calm` holds the pods whose cycle nothing disturbed. What such a cycle has to achieve is
stated in two halves. `CalmCycleServesDrive`: every document within reach is active,
current and seen; it holds with any number of pods. `UnseenAreStale`: of the rows
`MarkUnseenStale` looks at, those left active are within reach; it holds of a deployment
of one pod (`OnePodMarksUnseenStale`) and not of two (`EveryPodMarksUnseenStale`).

**`Notes`** has `create_note` calls split at their database calls, the INSERT once
more into drawing the id and committing the row, and clients that drain
`list_notes`. A page is the set of rows with fewer than `limit` rows after them.
`got` counts how often a row was returned, `start` remembers what matched at the
first page. `NotesProofs` proves its safety properties.

**`Listings`** is the same for the other four listings: emails, search and threads, which
order by a time and continue by id, and documents, which continue by a time in whole
seconds. `kind` says which one the client drains. Rows become visible in any order of
their ids (`Insert`), which are drawn inside the workers' transactions. `standing` holds the rows that have
matched unchanged since the first page, `orderly` whether all along the cursor's key
has fallen with the order of the rows. Where it has, the listing is complete
(`OrderlyListingComplete`); where not, emails, searches and threads can miss rows or
repeat them and documents can miss some of one second, but never repeat one.

`MCApproval`, `MCMailIndexer`, `MCDocsSync`, `MCNotes` and `MCAttachments` give the
constants values; `SigningPayload`, `Listings` and `MailSession` need none.

## Runs

| Run | Expect | Shows |
|---|---|---|
| `gate` | pass | `TypeOK`, `DispatchWasConfirmed`, `OutcomeIsApproversOwn`, `ReceiptIsExclusive`, `DispatchSettles`, `ImplementsQueue` with two operators and two requests, on two rows or racing for one of any kind, one kind without a handler; interruptions, a database failure, a crash |
| `payload` | violation | args with `&`, `<` or `>`: the CLI refuses to sign |
| `position` | pass | `TypeOK`, `NothingSteppedOver`, `PromotionFollowsInsert` in one folder, rebuilt once, with a failing call |
| `tags` | pass | `ThreadTagReachesMail`, `AuthorizedMailTagged`, `TagsStayInConversation`, `PromotionFollowsInsert`: two workers on a message and its answer, or one on a conversation in two threads and other mail, with two senders being authorized |
| `idle` | pass | `TypeOK`, `NothingSleptOn`, `MailIsFetched`, `ReconnectCatchesUp`, `WakeFetchesBacklog`: four messages, a channel of two, two sessions that end |
| `attachments` | pass | `TypeOK`, `FilesAreWhole`, `RowsHaveTheirFiles`, `NoStrayTemps`, `FilesStay`: two workers, messages that share an attachment |
| `docs` | pass | `TypeOK`, `RowsComeFromGrants`, `UnchangedMeansCurrent`, `CalmCycleServesDrive`, `OnePodMarksUnseenStale` with one pod and two grantees, or two pods that overlap |
| `counter` | violation | two pods: the counter goes back, a later cycle leaves a document active that is gone |
| `fraction` | violation | an unedited document is exported again |
| `notes` | pass | `TypeOK`, `StandingNotesListedOnce`, `NewestNoteStands`, `ListingEnds` with two calls, two grantees, one listing |
| `complete` | pass | `TypeOK`, `OrderlyListingComplete`, `DocumentsListedOnce`, `ListingEnds` for the four listings |
| `pages` | violation | a message that is on no page of the listing |

The violations are quoted in `PROJECT.json` under `findings`, each against the
comment it contradicts. `counter`: a pod reads the counter and is held up, the other
finishes a cycle, the first writes its old sum; a document is removed, and the next cycle,
undisturbed, draws a number that the document's row already carries, so `MarkUnseenStale`
leaves the row active, against "atomically increments the monotonic cycle counter". The
chart asks for one replica and leaves the strategy at the default rolling update, so pods
overlap only while one replaces the other. `fraction`: the docs table keeps whole
seconds, so a modifiedTime with a fraction never equals what was read back, against "same
modifiedTime is a no-op". Two more things the code does are facts of the models without a
run of their own: mail handled while its sender is authorized stays untagged (`stale`),
and the rows of a revoked source stay active (`Markable` wants the source in
`grantee_sources`).

**Bounds.** Two requests per row are what a race needs; a second row is what a
signature for another row needs, and two operators what a wrong approver needs. One
database failure and one crash suffice to separate any two calls. `gate` is three
instances in one (`Instances` of `MCApproval`): two rows with interruptions only, one row
with a failing call or a crash besides, one row of any kind while the administrator writes
the tables of sources and senders.

In `position` a message with an answer that cannot be parsed and one without an
envelope's Message-ID are in a folder that is rebuilt once; until then they have UIDs in
one order (`InOrder`), since FETCH answers in any order anyway. In `tags` a message
that answers two others, each the root of a thread, is a conversation split in two, and
a fourth message is other mail; two folders make two workers. Its mail is delivered
before the rest happens (`MailIs`), and the full mail meets one worker (`Split`), two
workers meet a message and its answer (`Races`), where at most three of the two
workers and two authorizing transactions are under way at once.

Two ticks make a second: the times 1 to 3 hold two times in one second and one outside
it, 1 and 2 a time the table rounds and one it keeps. `docs` is two instances in one
(`OneOrTwoPods`): one pod with two grantees, a source each, two times and three cycles
(one that writes a row, one that makes it stale, one that finds it again); and two pods
with one source, three times and counters below 3. `counter` and `fraction` are as small
as their counterexamples allow.

Three notes are enough for one that stands on a later page
while one is superseded and a third is written; the limits 0 and 3 meet both ends of
`clampLimit` (default 1, maximum 2), and so do those of `complete`. Four messages and a channel
of two make a full channel with mail still to come; two sessions that end make one
that ends before its sync. Two attachments of one message, one of them shared, are what
a Put that fails half-way and two Puts of one content need; three temporary
names are one for each worker and one left behind. The sets are otherwise as small as
the actions allow.

**Fairness.** `notes` and `complete` assume weak fairness of a client that has a
cursor (`WF(NextPage(l))`, `WF(cursor > 0 /\ ListPage)`): `ListingEnds` is about clients
that go on asking. `gate`, `position`, `tags`, `docs` and `attachments` check safety and
assume none.
`idle` assumes that the worker runs on when it does not wait and that its calls return
(`WF(Select \/ sync \/ idleUntilChange)`: `Run` retries for ever), and that a server
reports mail in the end (`WF(Exists)`). Nothing makes the refresh fire, IDLE end or a
session fail; with them the mail in `late` would be fetched sooner, but the code sets no
limit to how long that takes.

## Proofs

### The approval gate

`ApprovalProofs` proves, for any constants that satisfy the named assumptions of
`Approval` (any number of rows, requests, operators, keys, failures and crashes):

* `TypeCorrect`, `ConfirmedBeforeDispatch`, `StatusIsTruthful`, `OneReceipt`,
  `DispatchedRowsSettle`: the five invariants of `gate`;
* `GateImplementsQueue`: its refinement.

The invariants are not inductive alone. `IInv` adds `Staged` (which fields of a
session are set at which call), `Vetted` (past `Verify`, the signature is over the
session's row, whose job never changes) and `Provenance` (every signature in use
was made by a `balvi-approve` run on the row it names). Each action preserves
`IInv` in a lemma of its own; handler steps share frame lemmas that say what they
leave alone. The refinement goes through the same invariant: `Post` from the CLI
is `Confirm`, `Dispatch` is `TakeEffect`, a status update that matches is `Settle`,
all else stutters. `DispatchedRowsSettle` says that an undisturbed request that ran the
handler leaves its row settled, by its own update or because another request's came
first; what was interrupted, cut off or met a failing call is exempt, because the code
leaves such rows pending. The assumptions say that keys, drives and jobs have their
types, that the bounds are naturals, and that `None` is none of the values.

### The notes

`NotesProofs` proves `TypeCorrect`, `ListedOnce` and `NewestStands` for any number of
calls, clients, grantees and ids and any limits; the assumptions are that the limits
are naturals, the default and the maximum not 0, and that `None` is no grantee. What
makes them inductive: an id is drawn once and is larger than every id visible at the
time (`Drawn`), so what a call has looked up is older than the note it will write
(`Checked`), so every written note supersedes an older one of its grantee (`Chain`);
and a client has been given nothing below its cursor and, above it, everything that
still stands (`Listed`). The page step rests on `PageUpward`: a page is an upper part
of what it is taken from, so its least id separates what was returned from what was
not. `NewestNoteStands` follows from `Chain`: what superseded the newest would be
newer.

### The mail indexer

`MailIndexerProofs` proves the six invariants of `position` and `tags` for any folders,
messages, references, senders, grantees, rebuilds and failing calls; the assumptions are
those named in `MailIndexer`: `From`, `Refs` and `Grants` have their types, the bounds
are naturals, `None` and `Absent` are none of the values. The invariant has six parts.
`Base` says what each call of `handleMessage` relies on from the calls before it: the
thread it found exists, a tag came from the sender or from the thread, the row is there
when its thread is promoted. It rests on `Grows`: threads and rows stay, a thread keeps
its tag and a message its thread. `Isolated` says what an open transaction holds: no two
of them have written the same untagged thread, so what a COMMIT writes is still untagged.
`Positions` says what the UIDs up to the running `highest`, and not only the saved one,
have become; a rebuild makes both worthless at once. `Reaches` joins
`ThreadTagReachesMail` and `AuthorizedMailTagged`, which are inductive only together with
the resolution a worker holds between `Resolve` and `InsertMessage` and with what an open
transaction has found: an untagged message of a thread it has written, or of the sender it
authorizes, is in its batch or in `stale`. `Promoted` is `PromotionFollowsInsert`, and
`Attributed` says for each thread, message, worker and transaction who entitles it to its
tag: a message and its thread lie in the same conversations.

### The session

`MailSessionProofs` proves `TypeOK` and `NothingSleptOn` for any capacity of the channel
(not 0) and any number of messages and sessions. `Noticed` is what has to be added: where
the worker no longer looks at the channel, what was reported is fetched or late; where it
still does, what is not has left an element in the channel. That a full channel loses
nothing is then one line: a channel with room for one element is not empty after a notice.

### The attachments

`AttachmentsProofs` proves the four invariants and the action property `FilesStay` for any
number of workers, messages, contents and temporary names. What makes them inductive: a
temporary file belongs to one `Put` (`Exclusive`, `Owned`), which past `Copy` has written
all of the attachment at hand (`Writing`), and what a worker has parsed is a first part
of its message's attachments, all on disk (`Progress`).

### The docs sync

`DocsSyncProofs` proves, for any number of pods, documents, grantees, sources, edits and
ticks to a second:

* `TypeCorrect`, with what a pod has in hand at each call (`Base`): rows are never
  removed, so a row found by `GetDocByID` is there when it is touched or marked;
* `RowsAreGranted`: `Granted` follows a pair from `grantee_sources` through `stodo` and
  `from` to the row, whatever is revoked meanwhile;
* `NoEditIsHidden`: `Timely` orders the times. A listing is no newer than the export it
  led to, the export no newer than the document, and seconds are never ahead of the time
  they are taken from; so seconds that equal the last edit leave no room between;
* `CalmCycleServes`: `CalmCycleServesDrive`. `Calm` follows a document under an
  authorized source through the cycle: its grantee, its source or itself is still to
  come, or it is in hand, or served. No hypothesis about the counter is needed: what the
  cycle has seen carries the cycle's own number, and is not marked;
* `OnePodMarks`: `OnePodMarksUnseenStale`. `Lone` says that in a deployment of one pod no
  row and no cycle is ahead of the counter, so a number drawn is new, and that what an
  undisturbed cycle is to visit, has in hand and has seen is within reach. With two pods
  the first half fails, which is what `counter` shows.

### The listings

`ListingsProofs` proves `TypeOK`, `OrderlyListingComplete` and `DocumentsListedOnce` for
any number of rows, times and limits, and `CursorsFall`: each next page has a smaller
cursor, whatever was written since. The properties speak of a drained listing; the
invariant says what has been returned at every cursor (`Complete`, `Once`). The page
step rests on `LastOfPage`: the last row of a page splits what the page was taken from,
by the order of the rows; only if the key falls with that order does it split by the key
as well, and for documents a tie can only be passed over. The assumptions: times are
positive naturals, the limits naturals, the default and the maximum not 0.

### Only model-checked

Liveness (`ListingEnds`, `MailIsFetched`, `ReconnectCatchesUp`, `WakeFetchesBacklog`):
fairness and ENABLED are beyond the prover; `CursorsFall` is the part of `ListingEnds`
that is not. The four violations, which are counterexamples. The signing payload, whose conversions are recursive over
the text: what a recursive definition computes for every input cannot be proved here.

## Left out

* Calls rejected by a form check before any state is read; timestamps, texts,
  metadata, logging.
* The choice of a signing key in the CLI (`getSigner`): any key the operator holds.
* Dates, subjects, recipients and MIME decoding of mail; UIDs near 2^32; the backoff
  between sessions. In `MailSession` every fetched message is handled and the
  UIDVALIDITY stays: failures and rebuilt folders are in `MailIndexer`, which in turn
  lets a change be reported at any time.
* What a failure of the machine does to files that were written and not synced.
* Drive's paging and folder depth: a listing is one call that may lose any part.
* Contents, kinds and times of notes; the filters of a listing (a fixed predicate of a
  row), and the filter `_unassigned`, which rows leave when they are tagged. Tools that read one row or run
  one query.
* Configuration, database connection, containers, charts and agent skills, which keep
  no state of their own.

## Plan

1. *(done)* `Approval`, `ApprovalQueue`, `ApprovalProofs`: the gate, checked and proved.
2. *(done)* `SigningPayload`, `MailIndexer`, `DocsSync`: checked.
   `Notes`, `NotesProofs`: checked and proved.
3. *(done)* `MailSession`, `Attachments`, `Listings`, and the lost promotion in
   `MailIndexer`: checked.
4. *(done)* `MailSessionProofs`, `AttachmentsProofs`, `ListingsProofs`,
   `MailIndexerProofs`, `DocsSyncProofs`: every invariant of a passing run, and
   `FilesStay`.
5. An abstract specification of tagging (a message is stored, tagged, and keeps its
   tag) that `MailIndexer` implements, checked and then proved from `Base` and `Grows`.
   A finished cycle of `DocsSync` as a step of an abstract table. Action properties for
   what the proofs already use: a row keeps its thread, a thread its tag.
