------------------------------ MODULE Approval ------------------------------
(***************************************************************************)
(* The approval gate: the MCP tools that queue an action, the operator's   *)
(* balvi-approve run that signs it, and the approval server's handler that *)
(* verifies the signature, dispatches the action and records the outcome.  *)
(*                                                                         *)
(* A session c is one approve request: one POST /actions/{id}/approve and  *)
(* the goroutine that serves it.  approveAction makes one database call at *)
(* a time, so it is split at those calls (req[c].pc); sessions interleave  *)
(* between them, with the tools and with the administrator's commands.     *)
(*                                                                         *)
(* A database call of a session can fail in three ways: the database fails *)
(* (bounded by MaxFaults), the operator interrupts the CLI, which cancels  *)
(* the request context every later call uses, or the server dies (bounded  *)
(* by MaxCrashes).  A failing write is either not done ("error") or done   *)
(* with its reply lost ("lost").                                           *)
(*                                                                         *)
(* Left out: timestamps, error texts, requested_by and metadata, and the   *)
(* calls rejected by a form check (empty or malformed fields) before any   *)
(* state is read, which change nothing.                                    *)
(***************************************************************************)
EXTENDS Naturals, FiniteSets

CONSTANTS
    Ids,         \* ids of approval_actions rows, handed out by the table
    Sessions,    \* approve requests
    Operators,   \* operator e-mail addresses
    Keys,        \* SSH keys, each with its private half
    Grantees, Drives, Senders,
    Holds,       \* Holds[e]: the private keys the person behind e can use
    MimeOf,      \* what Drive says each object is
    Registered,  \* action names with an executor handler
    Requested,   \* the jobs the agent's tool calls ask for
    BootEmail, BootKey,      \* APPROVAL_BOOTSTRAP_*
    MaxFaults, MaxCrashes,   \* bounds on failures
    None

ActionNames ==
    {"add_grantee", "add_approval_user", "whitelist_doc", "authorize_grantee_email"}

\* What a row asks for: the action name with its args.
Job ==
    [action : {"add_grantee"}, grantee : Grantees]
      \cup [action : {"add_approval_user"}, email : Operators, key : Keys]
      \cup [action : {"whitelist_doc"}, grantee : Grantees, drive : Drives,
            type : {"folder", "doc"}]
      \cup [action : {"authorize_grantee_email"}, grantee : Grantees, sender : Senders]

ASSUME HoldsAssumption == Holds \in [Operators -> SUBSET Keys]
ASSUME DriveAssumption == MimeOf \in [Drives -> {"folder", "doc", "other"}]
ASSUME JobsAssumption == Requested \subseteq Job /\ Registered \subseteq ActionNames
ASSUME BootAssumption == BootEmail \in Operators /\ BootKey \in Keys
ASSUME BoundsAssumption == MaxFaults \in Nat /\ MaxCrashes \in Nat
ASSUME NoneAssumption ==
    None \notin Ids \cup Operators \cup Keys \cup Grantees \cup Job
                  \cup {"folder", "doc"} \cup [key : Keys, id : Ids, job : Job]

VARIABLES
    row,        \* approval_actions
    users,      \* approval_users: the key authorized for an address, or None
    grantees,   \* grantees
    sources,    \* grantee_sources: type of an authorized <<grantee, drive>>, or None
    senders,    \* grantee_emails: the grantee of a sender, or None
    req,        \* the sessions
    faults, crashes   \* failures spent

queueVars == row
effectVars == <<grantees, sources, senders>>
budgetVars == <<faults, crashes>>
vars == <<row, users, effectVars, req, budgetVars>>

(***************************************************************************)
(* Types.                                                                  *)
(***************************************************************************)
Signature == [key : Keys, id : Ids, job : Job]

NoRow == [job |-> None, status |-> "absent", approved_by |-> None]

Row ==
    [job : Job, status : {"pending", "executed", "failed"},
     approved_by : Operators \cup {None}]

\* Where a request stands: not sent, at one of the handler's database calls, or over.
ServerPc == {"get_action", "get_user", "dispatch", "mark_executed", "mark_failed"}

Request ==
    [pc : {"idle", "done"} \cup ServerPc,
     via : {"none", "cli", "resubmit"},
     target : Ids \cup {None},
     email : Operators \cup {None},
     sig : Signature \cup {None},
     auth : Keys \cup {None},                    \* the key Verify accepted
     ran : {"none", "ok", "error", "lost"},      \* what Dispatch did
     code : {"none", "200", "403", "404", "409", "500", "cut"},
     ctx : {"live", "cancelled", "dead"}]        \* the request context

Terminal == {"executed", "failed"}

TypeOK ==
    /\ row \in [Ids -> Row \cup {NoRow}]
    /\ users \in [Operators -> Keys \cup {None}]
    /\ grantees \subseteq Grantees
    /\ sources \in [Grantees \X Drives -> {"folder", "doc", None}]
    /\ senders \in [Senders -> Grantees \cup {None}]
    /\ req \in [Sessions -> Request]
    /\ faults \in Nat
    /\ crashes \in Nat

NoRequest ==
    [pc |-> "idle", via |-> "none", target |-> None, email |-> None, sig |-> None,
     auth |-> None, ran |-> "none", code |-> "none", ctx |-> "live"]

\* A session that has moved on: what was posted stays.
Moved(r, pc, auth, ran, code, ctx) ==
    [pc |-> pc, via |-> r.via, target |-> r.target, email |-> r.email, sig |-> r.sig,
     auth |-> auth, ran |-> ran, code |-> code, ctx |-> ctx]

\* A fresh deployment: migrate up has run and seeded the bootstrap operator.
Init ==
    /\ row = [i \in Ids |-> NoRow]
    /\ users = [e \in Operators |-> IF e = BootEmail THEN BootKey ELSE None]
    /\ grantees = {}
    /\ sources = [s \in Grantees \X Drives |-> None]
    /\ senders = [a \in Senders |-> None]
    /\ req = [c \in Sessions |-> NoRequest]
    /\ faults = 0
    /\ crashes = 0

(***************************************************************************)
(* The tools.  whitelist_doc and authorize_grantee_email want an existing  *)
(* grantee, whitelist_doc resolves folder or doc from Drive; then the row  *)
(* is inserted under an id never used before.                              *)
(***************************************************************************)
NeedsGrantee(j) == j.action \in {"whitelist_doc", "authorize_grantee_email"}

Enqueue(j) ==
    /\ NeedsGrantee(j) => j.grantee \in grantees
    /\ j.action = "whitelist_doc" => j.type = MimeOf[j.drive]
    /\ \E i \in Ids :
          /\ row[i].status = "absent"
          /\ row' = [row EXCEPT ![i] =
                        [job |-> j, status |-> "pending", approved_by |-> None]]
    /\ UNCHANGED <<users, effectVars, req, budgetVars>>

(***************************************************************************)
(* The operator.  balvi-approve fetches the row, refuses unless it is      *)
(* pending, shows it, asks, signs and posts.  The key is any the operator  *)
(* holds: --agent-key overrides the registered fingerprint.  The time      *)
(* between the fetch and the post is part of the time the post is under    *)
(* way.  The payload is compared with the server's before it is signed,    *)
(* which module SigningPayload models.  Resubmit posts a signature made    *)
(* before: a repeated or scripted POST, to any row, under any address.     *)
(***************************************************************************)
SigningPayload(i) == [id |-> i, job |-> row[i].job]

Post(c, how, i, e, s) ==
    /\ req[c].pc = "idle"
    /\ req' = [req EXCEPT ![c] =
                  [pc |-> "get_action", via |-> how, target |-> i, email |-> e, sig |-> s,
                   auth |-> None, ran |-> "none", code |-> "none", ctx |-> "live"]]
    /\ UNCHANGED <<row, users, effectVars, budgetVars>>

CliApprove(c, i, e, k) ==
    /\ row[i].status = "pending"
    /\ k \in Holds[e]
    /\ Post(c, "cli", i, e, [key |-> k, id |-> i, job |-> row[i].job])

Resubmit(c, i, e, d) ==
    /\ req[d].sig # None
    /\ Post(c, "resubmit", i, e, req[d].sig)

\* The operator interrupts the CLI: net/http cancels the request context.
Disconnect(c) ==
    /\ req[c].pc \in ServerPc
    /\ req[c].ctx = "live"
    /\ req' = [req EXCEPT ![c] = Moved(@, @.pc, @.auth, @.ran, @.code, "cancelled")]
    /\ UNCHANGED <<row, users, effectVars, budgetVars>>

(***************************************************************************)
(* The handler.                                                            *)
(***************************************************************************)

\* How the call at hand can end.  Cancellation hits the call under way before
\* or after the database did the work; calls begun later do nothing.
Outcomes(c) ==
    CASE req[c].ctx = "cancelled" -> {"error", "lost"}
      [] req[c].ctx = "dead" -> {"error"}
      [] OTHER -> IF faults < MaxFaults THEN {"ok", "error", "lost"} ELSE {"ok"}

NextCtx(c) == IF req[c].ctx = "live" THEN "live" ELSE "dead"

\* A failure of the database, not of the request's own context, uses up the bound.
Charge(c, o) ==
    /\ faults' = IF req[c].ctx = "live" /\ o # "ok" THEN faults + 1 ELSE faults
    /\ UNCHANGED crashes

\* The handler answers.
Answer(c, code) ==
    req' = [req EXCEPT ![c] = Moved(@, "done", @.auth, @.ran, code, NextCtx(c))]

\* The handler goes on to its next database call.
GoTo(c, pc) ==
    req' = [req EXCEPT ![c] = Moved(@, pc, @.auth, @.ran, @.code, NextCtx(c))]

\* GetAction, and the check that the row is pending.
GetAction(c) ==
    LET r == row[req[c].target] IN
    /\ req[c].pc = "get_action"
    /\ \E o \in Outcomes(c) :
          /\ Charge(c, o)
          /\ \/ o # "ok" /\ Answer(c, "500")
             \/ o = "ok" /\ r.status = "absent" /\ Answer(c, "404")
             \/ o = "ok" /\ r.status \in Terminal /\ Answer(c, "409")
             \/ o = "ok" /\ r.status = "pending" /\ GoTo(c, "get_user")
    /\ UNCHANGED <<row, users, effectVars>>

\* Mutant: the payload leaves the row id out.
VerifyWithoutId(k, i, s) == k # None /\ s.key = k /\ s.job = row[i].job

\* Verify: the signature is over this row's payload, by this public key.
Verify(k, i, s) == k # None /\ s.key = k /\ [id |-> s.id, job |-> s.job] = SigningPayload(i)


\* GetApprovalUser, then Verify against the key just read.
GetApprovalUser(c) ==
    LET k == users[req[c].email] IN
    /\ req[c].pc = "get_user"
    /\ \E o \in Outcomes(c) :
          /\ Charge(c, o)
          /\ \/ o # "ok" /\ Answer(c, "500")
             \/ o = "ok" /\ ~Verify(k, req[c].target, req[c].sig) /\ Answer(c, "403")
             \/ /\ o = "ok"
                /\ Verify(k, req[c].target, req[c].sig)
                /\ req' = [req EXCEPT ![c] =
                              Moved(@, "dispatch", k, @.ran, @.code, NextCtx(c))]
    /\ UNCHANGED <<row, users, effectVars>>

(***************************************************************************)
(* Dispatch runs the row's handler.  Every handler ends in one upsert; two *)
(* of them first look the grantee up, and no code deletes a grantee, so    *)
(* the lookup and the upsert are one step.  authorize_grantee_email also   *)
(* tags threads and messages, in the same transaction; those tables are    *)
(* not in this module, MailIndexer has them and the transaction's steps.   *)
(***************************************************************************)
HandlerError(j) ==
    \/ j.action \notin Registered
    \/ NeedsGrantee(j) /\ j.grantee \notin grantees

GranteesAfter(gs, j) == IF j.action = "add_grantee" THEN gs \cup {j.grantee} ELSE gs

UsersAfter(us, j) ==
    IF j.action = "add_approval_user" THEN [us EXCEPT ![j.email] = j.key] ELSE us

SourcesAfter(ss, j) ==
    IF j.action = "whitelist_doc" THEN [ss EXCEPT ![<<j.grantee, j.drive>>] = j.type] ELSE ss

\* grantee_emails, without the threads and messages the handler tags with it.
SendersAfter(as, j) ==
    IF j.action = "authorize_grantee_email" THEN [as EXCEPT ![j.sender] = j.grantee] ELSE as

Apply(j) ==
    /\ grantees' = GranteesAfter(grantees, j)
    /\ users' = UsersAfter(users, j)
    /\ sources' = SourcesAfter(sources, j)
    /\ senders' = SendersAfter(senders, j)

Ran(c, result, pc) ==
    req' = [req EXCEPT ![c] = Moved(@, pc, @.auth, result, @.code, NextCtx(c))]

\* Mutant: an error of the handler is taken for success.
DispatchIgnoringError(c) ==
    LET j == row[req[c].target].job IN
    /\ req[c].pc = "dispatch"
    /\ \E o \in Outcomes(c) :
          /\ Charge(c, o)
          /\ \/ /\ o = "error" \/ HandlerError(j)
                /\ Ran(c, "error", "mark_executed")
                /\ UNCHANGED <<users, effectVars>>
             \/ /\ o # "error" /\ ~HandlerError(j)
                /\ Ran(c, o, "mark_executed")
                /\ Apply(j)
    /\ UNCHANGED row

\* Mutant: a failing dispatch answers without recording the failure.
DispatchWithoutMark(c) ==
    LET j == row[req[c].target].job IN
    /\ req[c].pc = "dispatch"
    /\ IF HandlerError(j)
       THEN Ran(c, "error", "done") /\ UNCHANGED <<users, effectVars>>
       ELSE Ran(c, "ok", "mark_executed") /\ Apply(j)
    /\ UNCHANGED <<row, budgetVars>>

Dispatch(c) ==
    LET j == row[req[c].target].job IN
    /\ req[c].pc = "dispatch"
    /\ \E o \in Outcomes(c) :
          /\ Charge(c, o)
          /\ \/ /\ o = "error" \/ HandlerError(j)
                /\ Ran(c, "error", "mark_failed")
                /\ UNCHANGED <<users, effectVars>>
             \/ /\ o = "ok" /\ ~HandlerError(j)
                /\ Ran(c, "ok", "mark_executed")
                /\ Apply(j)
             \/ /\ o = "lost" /\ ~HandlerError(j)
                /\ Ran(c, "lost", "mark_failed")
                /\ Apply(j)
    /\ UNCHANGED row

\* Mutant: the update does not ask for a pending row.
MarkAnyRow(c, status) ==
    row' = [row EXCEPT ![req[c].target].status = status,
                       ![req[c].target].approved_by = req[c].email]

\* Mutant: the approver's key is recorded in place of the address.
MarkWithKey(c, status) ==
    row' = [row EXCEPT ![req[c].target] =
               IF @.status = "pending"
               THEN [job |-> @.job, status |-> status, approved_by |-> req[c].auth]
               ELSE @]

\* UPDATE approval_actions SET status, approved_by WHERE id AND status = 'pending'.
Mark(c, status) ==
    row' = [row EXCEPT ![req[c].target] =
               IF @.status = "pending"
               THEN [job |-> @.job, status |-> status, approved_by |-> req[c].email]
               ELSE @]

\* Mutant: an update that matched no row is taken for success.
MarkExecutedUnchecked(c) ==
    /\ req[c].pc = "mark_executed"
    /\ \E o \in Outcomes(c) :
          /\ Charge(c, o)
          /\ IF o = "error" THEN UNCHANGED row ELSE Mark(c, "executed")
          /\ Answer(c, IF o = "ok" THEN "200" ELSE "500")
    /\ UNCHANGED <<users, effectVars>>

\* requireOneRow turns an update that matched nothing into an error.
MarkActionExecuted(c) ==
    /\ req[c].pc = "mark_executed"
    /\ \E o \in Outcomes(c) :
          /\ Charge(c, o)
          /\ IF o = "error" THEN UNCHANGED row ELSE Mark(c, "executed")
          /\ Answer(c, IF o = "ok" /\ row[req[c].target].status = "pending"
                       THEN "200" ELSE "500")
    /\ UNCHANGED <<users, effectVars>>

\* The error of MarkActionFailed is only logged; the answer is 500 either way.
MarkActionFailed(c) ==
    /\ req[c].pc = "mark_failed"
    /\ \E o \in Outcomes(c) :
          /\ Charge(c, o)
          /\ IF o = "error" THEN UNCHANGED row ELSE Mark(c, "failed")
          /\ Answer(c, "500")
    /\ UNCHANGED <<users, effectVars>>

approveAction(c) ==
    \/ GetAction(c)
    \/ GetApprovalUser(c)
    \/ Dispatch(c)
    \/ MarkActionExecuted(c)
    \/ MarkActionFailed(c)

\* The server process ends (shutdown past its 5 s grace, eviction, panic): the
\* handlers under way vanish where they stand.  The deployment restarts it.
Crash ==
    /\ crashes < MaxCrashes
    /\ \E c \in Sessions : req[c].pc \in ServerPc
    /\ crashes' = crashes + 1
    /\ req' = [c \in Sessions |-> IF req[c].pc \in ServerPc
                                  THEN Moved(req[c], "done", req[c].auth, req[c].ran,
                                             "cut", req[c].ctx)
                                  ELSE req[c]]
    /\ UNCHANGED <<row, users, effectVars, faults>>

(***************************************************************************)
(* The administrator's commands write the same tables without approval.    *)
(***************************************************************************)
SetUser(e, k) ==
    /\ users' = [users EXCEPT ![e] = k]
    /\ UNCHANGED <<row, effectVars, req, budgetVars>>

\* api approve-user add
ApproveUserAdd(e, k) == SetUser(e, k)

\* api approve-user remove
ApproveUserRemove(e) == users[e] # None /\ SetUser(e, None)

\* The upsert at the end of every api migrate up.
bootstrapApprovalUser == SetUser(BootEmail, BootKey)

\* api grantee create
GranteeCreate(g) ==
    /\ grantees' = grantees \cup {g}
    /\ UNCHANGED <<row, users, sources, senders, req, budgetVars>>

\* api grantee authorize: EnsureGrantee, UpsertSource.
Authorize(g, d, t) ==
    /\ grantees' = grantees \cup {g}
    /\ sources' = [sources EXCEPT ![<<g, d>>] = t]
    /\ UNCHANGED <<row, users, senders, req, budgetVars>>

\* api grantee revoke
Revoke(g, d) ==
    /\ sources[<<g, d>>] # None
    /\ sources' = [sources EXCEPT ![<<g, d>>] = None]
    /\ UNCHANGED <<row, users, grantees, senders, req, budgetVars>>

\* api grantee email add: EnsureGrantee, AddGranteeEmail.
EmailAdd(g, a) ==
    /\ grantees' = grantees \cup {g}
    /\ senders' = [senders EXCEPT ![a] = g]
    /\ UNCHANGED <<row, users, sources, req, budgetVars>>

\* api grantee email remove
EmailRemove(g, a) ==
    /\ senders[a] = g
    /\ senders' = [senders EXCEPT ![a] = None]
    /\ UNCHANGED <<row, users, grantees, sources, req, budgetVars>>

Client(c) ==
    \/ \E i \in Ids, e \in Operators, k \in Keys : CliApprove(c, i, e, k)
    \/ \E i \in Ids, e \in Operators, d \in Sessions : Resubmit(c, i, e, d)
    \/ Disconnect(c)

Admin ==
    \/ \E e \in Operators, k \in Keys : ApproveUserAdd(e, k)
    \/ \E e \in Operators : ApproveUserRemove(e)
    \/ bootstrapApprovalUser
    \/ \E g \in Grantees : GranteeCreate(g)
    \/ \E g \in Grantees, d \in Drives, t \in {"folder", "doc"} : Authorize(g, d, t)
    \/ \E g \in Grantees, d \in Drives : Revoke(g, d)
    \/ \E g \in Grantees, a \in Senders : EmailAdd(g, a)
    \/ \E g \in Grantees, a \in Senders : EmailRemove(g, a)

Next ==
    \/ \E j \in Requested : Enqueue(j)
    \/ \E c \in Sessions : Client(c)
    \/ \E c \in Sessions : approveAction(c)
    \/ Crash
    \/ Admin

Spec == Init /\ [][Next]_vars

(***************************************************************************)
(* Properties.                                                             *)
(***************************************************************************)
Applied(c) == req[c].ran \in {"ok", "lost"}

\* Session d is an operator's run of balvi-approve on row i, signed with key k.
ConfirmedBy(d, i, k) ==
    req[d].via = "cli" /\ req[d].target = i /\ req[d].sig.key = k

\* Nothing is dispatched that an operator did not confirm: for every session that
\* ran Dispatch there is a run of balvi-approve on the very same row, signed with
\* the key that approveAction found registered for the request's address.  It is
\* the signing payload's binding of id and args that rules out a signature
\* resubmitted for another row, another queued copy of the same job included.
DispatchWasConfirmed ==
    \A c \in Sessions : req[c].ran # "none" =>
        \E d \in Sessions : ConfirmedBy(d, req[c].target, req[c].auth)

\* The status column tells the truth about the approver it names: an executed row
\* names the address of a request whose own dispatch succeeded, a failed row one
\* whose own dispatch returned an error, however the requests for it raced.
OutcomeIsApproversOwn ==
    \A i \in Ids : row[i].status \in Terminal =>
        \E c \in Sessions :
            /\ req[c].target = i
            /\ req[c].email = row[i].approved_by
            /\ IF row[i].status = "executed" THEN req[c].ran = "ok"
                                             ELSE req[c].ran \in {"error", "lost"}

\* A 200 answer is a receipt: at most one request per row gets it, and from then on
\* the row is executed under that request's address.
ReceiptIsExclusive ==
    \A c \in Sessions : req[c].code = "200" =>
        /\ row[req[c].target].status = "executed"
        /\ row[req[c].target].approved_by = req[c].email
        /\ \A d \in Sessions :
              req[d].code = "200" /\ req[d].target = req[c].target => d = c

\* What keeps a handler from recording its outcome.
Disturbed(c) == req[c].ctx # "live" \/ req[c].code = "cut" \/ faults > 0

\* A dispatched action does not stay pending: when a request is over that ran the
\* handler, its row is executed or failed, whoever won the race for it, unless the
\* operator interrupted this request, the server died under it or a database call
\* failed.  In those cases the code leaves a row pending whose effects are there.
DispatchSettles ==
    \A c \in Sessions :
        req[c].pc = "done" /\ req[c].ran # "none" /\ ~Disturbed(c) =>
            row[req[c].target].status \in Terminal

(***************************************************************************)
(* What the gate promises, without its machinery.                          *)
(***************************************************************************)
confirmedRows == {i \in Ids : \E c \in Sessions : req[c].via = "cli" /\ req[c].target = i}
appliedRows == {i \in Ids : \E c \in Sessions : Applied(c) /\ req[c].target = i}

Queue == INSTANCE ApprovalQueue
            WITH status <- [i \in Ids |-> row[i].status],
                 confirmed <- confirmedRows,
                 applied <- appliedRows

\* The gate implements the abstract queue: a row is queued, confirmed, takes effect
\* only once confirmed, is executed only once it has taken effect, and a status
\* other than pending is final.
ImplementsQueue == Queue!Spec
=============================================================================
