--------------------------- MODULE ApprovalProofs ---------------------------
(***************************************************************************)
(* Proofs about the approval gate, for any number of rows, sessions,       *)
(* operators, keys and failures.  The inductive invariant IInv adds to the *)
(* properties what a session has established at each point of its handler: *)
(* Staged relates the fields of one session, Vetted what it knows of its   *)
(* row, Provenance where signatures come from.                             *)
(***************************************************************************)
EXTENDS Approval, TLAPS

\* One session: fields are set before they are used, ran and code match pc.
StagedAt(c) ==
    /\ req[c].pc = "idle" => req[c] = NoRequest
    /\ req[c].pc # "idle" =>
          /\ req[c].target \in Ids
          /\ req[c].email \in Operators
          /\ req[c].sig \in Signature
          /\ req[c].via \in {"cli", "resubmit"}
    /\ req[c].pc \in {"get_action", "get_user", "dispatch"} => req[c].ran = "none"
    /\ req[c].pc = "mark_executed" => req[c].ran = "ok"
    /\ req[c].pc = "mark_failed" => req[c].ran \in {"error", "lost"}
    /\ req[c].code # "none" => req[c].pc = "done"

Staged == \A c \in Sessions : StagedAt(c)

\* A session past GetAction has a row; past Verify its signature is over that row.
VettedAt(c) ==
    /\ req[c].pc = "get_user" => row[req[c].target].status # "absent"
    /\ req[c].pc = "dispatch" \/ req[c].ran # "none" =>
          /\ row[req[c].target].status # "absent"
          /\ req[c].auth = req[c].sig.key
          /\ req[c].sig.id = req[c].target
          /\ req[c].sig.job = row[req[c].target].job

Vetted == \A c \in Sessions : VettedAt(c)

\* Every signature in use was made by a balvi-approve run on the row it names.
Provenance ==
    \A c \in Sessions : req[c].sig # None =>
        \E d \in Sessions :
            req[d].via = "cli" /\ req[d].target = req[c].sig.id /\ req[d].sig = req[c].sig

IInv == TypeOK /\ Staged /\ Vetted /\ Provenance
          /\ OutcomeIsApproversOwn /\ ReceiptIsExclusive

USE NoneAssumption, HoldsAssumption, DriveAssumption, JobsAssumption,
    BootAssumption, BoundsAssumption

\* The fields a handler reads from a job have their types.
LEMMA JobFields ==
    ASSUME NEW j \in Job
    PROVE  /\ j.action \in ActionNames
           /\ j.action = "add_grantee" => j.grantee \in Grantees
           /\ j.action = "add_approval_user" => j.email \in Operators /\ j.key \in Keys
           /\ j.action = "whitelist_doc" =>
                 j.grantee \in Grantees /\ j.drive \in Drives /\ j.type \in {"folder", "doc"}
           /\ j.action = "authorize_grantee_email" =>
                 j.grantee \in Grantees /\ j.sender \in Senders
BY DEF Job, ActionNames

\* Initially no session has started and no row exists.
LEMMA InitIInv == Init => IInv
BY DEF Init, IInv, TypeOK, Staged, StagedAt, Vetted, VettedAt, Provenance,
       OutcomeIsApproversOwn, ReceiptIsExclusive, NoRow, NoRequest, Row, Request, Terminal

\* Steps that leave rows and sessions alone only have to keep the tables' types.
LEMMA TablesOnly ==
    ASSUME IInv, UNCHANGED <<row, req, budgetVars>>, TypeOK'
    PROVE  IInv'
BY DEF IInv, Staged, StagedAt, Vetted, VettedAt, Provenance, OutcomeIsApproversOwn,
       ReceiptIsExclusive, Terminal, budgetVars

\* The administrator's commands preserve it: they write no row and no session.
LEMMA AdminIInv == IInv /\ Admin => IInv'
<1> SUFFICES ASSUME IInv, Admin PROVE TypeOK' /\ UNCHANGED <<row, req, budgetVars>>
  BY TablesOnly
<1> USE DEF IInv, TypeOK, effectVars, budgetVars
<1>1. ASSUME NEW e \in Operators, NEW k \in Keys \cup {None}, SetUser(e, k)
      PROVE  TypeOK' /\ UNCHANGED <<row, req, budgetVars>>
  BY <1>1 DEF SetUser
<1>2. ASSUME NEW g \in Grantees, GranteeCreate(g)
      PROVE  TypeOK' /\ UNCHANGED <<row, req, budgetVars>>
  BY <1>2 DEF GranteeCreate
<1>3. ASSUME NEW g \in Grantees, NEW d \in Drives,
             \/ \E t \in {"folder", "doc"} : Authorize(g, d, t)
             \/ Revoke(g, d)
      PROVE  TypeOK' /\ UNCHANGED <<row, req, budgetVars>>
  BY <1>3 DEF Authorize, Revoke
<1>4. ASSUME NEW g \in Grantees, NEW a \in Senders, EmailAdd(g, a) \/ EmailRemove(g, a)
      PROVE  TypeOK' /\ UNCHANGED <<row, req, budgetVars>>
  BY <1>4 DEF EmailAdd, EmailRemove
<1> QED
  BY <1>1, <1>2, <1>3, <1>4
     DEF Admin, ApproveUserAdd, ApproveUserRemove, bootstrapApprovalUser

\* Queueing a row preserves it: no session points at a row that was absent.
LEMMA EnqueueIInv ==
    ASSUME IInv, NEW j \in Requested, Enqueue(j)
    PROVE  IInv'
<1> USE DEF IInv
<1>1. PICK i \in Ids :
         /\ row[i].status = "absent"
         /\ row' = [row EXCEPT ![i] = [job |-> j, status |-> "pending", approved_by |-> None]]
  BY DEF Enqueue
<1>2. UNCHANGED <<users, grantees, sources, senders, req, faults, crashes>>
  BY DEF Enqueue, effectVars, budgetVars
<1>3. TypeOK'
  BY <1>1, <1>2 DEF TypeOK, Row
<1>4. Staged' /\ Provenance'
  BY <1>2 DEF Staged, StagedAt, Provenance
<1>5. Vetted'
  BY <1>1, <1>2 DEF Vetted, VettedAt, TypeOK, Staged, StagedAt, NoRequest
<1>6. OutcomeIsApproversOwn'
  BY <1>1, <1>2 DEF OutcomeIsApproversOwn, TypeOK, Terminal
<1>7. ReceiptIsExclusive'
  BY <1>1, <1>2 DEF ReceiptIsExclusive, TypeOK, Terminal
<1> QED
  BY <1>3, <1>4, <1>5, <1>6, <1>7

\* A session that posts a signature with a known origin preserves it.
LEMMA PostIInv ==
    ASSUME IInv, NEW c \in Sessions, NEW how \in {"cli", "resubmit"}, NEW i \in Ids,
           NEW e \in Operators, NEW s \in Signature, Post(c, how, i, e, s),
           \/ how = "cli" /\ s.id = i
           \/ \E d \in Sessions : req[d].sig = s
    PROVE  IInv'
<1> USE DEF IInv
<1>1. /\ req[c].pc = "idle"
      /\ req' = [req EXCEPT ![c] =
                    [pc |-> "get_action", via |-> how, target |-> i, email |-> e, sig |-> s,
                     auth |-> None, ran |-> "none", code |-> "none", ctx |-> "live"]]
      /\ UNCHANGED <<row, users, grantees, sources, senders, faults, crashes>>
  BY DEF Post, effectVars, budgetVars
<1>2. TypeOK'
  BY <1>1 DEF TypeOK, Request, NoRequest, ServerPc
<1>3. req[c] = NoRequest
  BY <1>1 DEF Staged, StagedAt
<1>4. Staged'
  BY <1>1 DEF Staged, StagedAt, TypeOK, NoRequest
<1>5. Vetted'
  BY <1>1 DEF Vetted, VettedAt, TypeOK, NoRequest
<1>6. Provenance'
  <2> SUFFICES ASSUME NEW x \in Sessions, req'[x].sig # None
               PROVE  \E d \in Sessions : /\ req'[d].via = "cli"
                                          /\ req'[d].target = req'[x].sig.id
                                          /\ req'[d].sig = req'[x].sig
    BY DEF Provenance
  <2>1. \A d \in Sessions : req[d].via = "cli" => req'[d] = req[d]
    BY <1>1, <1>3 DEF TypeOK, NoRequest
  <2>2. s # None
    BY DEF Signature
  <2>3. CASE x # c
    <3>1. req'[x] = req[x]
      BY <1>1, <2>3 DEF TypeOK
    <3>2. PICK o \in Sessions : /\ req[o].via = "cli"
                                /\ req[o].target = req[x].sig.id
                                /\ req[o].sig = req[x].sig
      BY <3>1 DEF Provenance
    <3> QED
      BY <2>1, <3>1, <3>2
  <2>4. CASE x = c /\ how = "cli" /\ s.id = i
    BY <1>1, <2>4 DEF TypeOK
  <2>5. CASE x = c /\ \E d \in Sessions : req[d].sig = s
    <3>1. PICK d \in Sessions : req[d].sig = s
      BY <2>5
    <3>2. PICK o \in Sessions : /\ req[o].via = "cli"
                                /\ req[o].target = s.id
                                /\ req[o].sig = s
      BY <3>1, <2>2 DEF Provenance
    <3> QED
      BY <1>1, <2>1, <2>5, <3>2 DEF TypeOK
  <2> QED
    BY <2>3, <2>4, <2>5
<1>7. OutcomeIsApproversOwn'
  BY <1>1, <1>3 DEF OutcomeIsApproversOwn, TypeOK, NoRequest
<1>8. ReceiptIsExclusive'
  BY <1>1, <1>3 DEF ReceiptIsExclusive, TypeOK, NoRequest
<1> QED
  BY <1>2, <1>4, <1>5, <1>6, <1>7, <1>8

\* What every step of a handler keeps: other sessions, and who asked for what.
HandlerFrame(c) ==
    /\ req' \in [Sessions -> Request]
    /\ \A d \in Sessions : d # c => req'[d] = req[d]
    /\ req'[c].via = req[c].via
    /\ req'[c].target = req[c].target
    /\ req'[c].email = req[c].email
    /\ req'[c].sig = req[c].sig

\* Handler steps leave what was posted alone, so signatures keep their origin.
LEMMA HandlerFrameProvenance ==
    ASSUME IInv, NEW c \in Sessions, HandlerFrame(c)
    PROVE  Provenance'
<1>1. \A d \in Sessions : /\ req'[d].via = req[d].via
                          /\ req'[d].target = req[d].target
                          /\ req'[d].sig = req[d].sig
  BY DEF HandlerFrame
<1> QED
  BY <1>1 DEF IInv, Provenance

\* The outcome of a database call is one of three.
LEMMA OutcomeTypes ==
    ASSUME TypeOK, NEW c \in Sessions, NEW o \in Outcomes(c), Charge(c, o)
    PROVE  o \in {"ok", "error", "lost"} /\ faults' \in Nat /\ crashes' \in Nat
BY DEF TypeOK, Request, Outcomes, Charge

\* Answering keeps everything but pc, code and ctx.
LEMMA AnswerFrame ==
    ASSUME TypeOK, NEW c \in Sessions, NEW code \in {"200", "403", "404", "409", "500"},
           Answer(c, code)
    PROVE  /\ HandlerFrame(c)
           /\ req'[c].pc = "done" /\ req'[c].code = code
           /\ req'[c].ran = req[c].ran /\ req'[c].auth = req[c].auth
BY DEF TypeOK, Request, ServerPc, Answer, Moved, NextCtx, HandlerFrame

\* So does going on to the next call, which leaves code alone too.
LEMMA GoToFrame ==
    ASSUME TypeOK, NEW c \in Sessions, NEW pc \in ServerPc, GoTo(c, pc)
    PROVE  /\ HandlerFrame(c)
           /\ req'[c].pc = pc /\ req'[c].code = req[c].code
           /\ req'[c].ran = req[c].ran /\ req'[c].auth = req[c].auth
BY DEF TypeOK, Request, ServerPc, GoTo, Moved, NextCtx, HandlerFrame

\* And accepting a signature, which sets auth.
LEMMA AcceptFrame ==
    ASSUME TypeOK, NEW c \in Sessions, NEW k \in Keys \cup {None},
           req' = [req EXCEPT ![c] = Moved(@, "dispatch", k, @.ran, @.code, NextCtx(c))]
    PROVE  /\ HandlerFrame(c)
           /\ req'[c].pc = "dispatch" /\ req'[c].code = req[c].code
           /\ req'[c].ran = req[c].ran /\ req'[c].auth = k
BY DEF TypeOK, Request, ServerPc, Moved, NextCtx, HandlerFrame

\* And ending a dispatch, which sets ran.
LEMMA RanFrame ==
    ASSUME TypeOK, NEW c \in Sessions, NEW pc \in ServerPc,
           NEW result \in {"ok", "error", "lost"}, Ran(c, result, pc)
    PROVE  /\ HandlerFrame(c)
           /\ req'[c].pc = pc /\ req'[c].code = req[c].code
           /\ req'[c].ran = result /\ req'[c].auth = req[c].auth
BY DEF TypeOK, Request, ServerPc, Ran, Moved, NextCtx, HandlerFrame

\* A handler step that writes no row keeps what rows and receipts say, as long as it
\* neither changes the result of a dispatch nor hands out a receipt.
LEMMA QuietStep ==
    ASSUME IInv, NEW c \in Sessions, HandlerFrame(c), row' = row,
           req[c].ran # "none" => req'[c].ran = req[c].ran,
           req'[c].code # "200" \/ req'[c].code = req[c].code
    PROVE  OutcomeIsApproversOwn' /\ ReceiptIsExclusive'
<1>1. OutcomeIsApproversOwn'
  <2> SUFFICES ASSUME NEW i \in Ids, row[i].status \in Terminal
               PROVE  \E d \in Sessions :
                         /\ req'[d].target = i
                         /\ req'[d].email = row[i].approved_by
                         /\ IF row[i].status = "executed"
                            THEN req'[d].ran = "ok" ELSE req'[d].ran \in {"error", "lost"}
    BY DEF OutcomeIsApproversOwn
  <2>1. PICK d \in Sessions :
           /\ req[d].target = i
           /\ req[d].email = row[i].approved_by
           /\ IF row[i].status = "executed"
              THEN req[d].ran = "ok" ELSE req[d].ran \in {"error", "lost"}
    BY DEF IInv, OutcomeIsApproversOwn
  <2> QED
    BY <2>1 DEF HandlerFrame
<1>2. ReceiptIsExclusive'
  BY DEF IInv, ReceiptIsExclusive, HandlerFrame
<1> QED
  BY <1>1, <1>2

\* Cancelling a request's context preserves it.
LEMMA DisconnectIInv ==
    ASSUME IInv, NEW c \in Sessions, Disconnect(c)
    PROVE  IInv'
<1> USE DEF IInv
<1>1. /\ HandlerFrame(c)
      /\ req'[c].pc = req[c].pc /\ req'[c].code = req[c].code
      /\ req'[c].ran = req[c].ran /\ req'[c].auth = req[c].auth
      /\ req[c].pc \in ServerPc
      /\ UNCHANGED <<row, users, grantees, sources, senders, faults, crashes>>
  BY DEF Disconnect, Moved, TypeOK, Request, HandlerFrame, effectVars, budgetVars
<1>2. TypeOK'
  BY <1>1 DEF TypeOK, HandlerFrame
<1>3. Staged'
  BY <1>1 DEF Staged, StagedAt, HandlerFrame, ServerPc
<1>4. Vetted'
  BY <1>1 DEF Vetted, VettedAt, HandlerFrame
<1>5. Provenance'
  BY <1>1, HandlerFrameProvenance
<1>6. OutcomeIsApproversOwn' /\ ReceiptIsExclusive'
  BY <1>1, QuietStep
<1> QED
  BY <1>2, <1>3, <1>4, <1>5, <1>6

\* The GetAction step preserves it: it goes on only for a pending row.
LEMMA GetActionIInv ==
    ASSUME IInv, NEW c \in Sessions, GetAction(c)
    PROVE  IInv'
<1> USE DEF IInv
<1>1. PICK o \in Outcomes(c) :
         /\ Charge(c, o)
         /\ \/ \E code \in {"500", "404", "409"} : Answer(c, code)
            \/ row[req[c].target].status = "pending" /\ GoTo(c, "get_user")
  BY DEF GetAction
<1>2. req[c].pc = "get_action" /\ UNCHANGED <<row, users, grantees, sources, senders>>
  BY DEF GetAction, effectVars
<1>3. /\ HandlerFrame(c)
      /\ req'[c].ran = req[c].ran /\ req'[c].auth = req[c].auth
      /\ \/ req'[c].pc = "done" /\ req'[c].code \in {"500", "404", "409"}
         \/ /\ req'[c].pc = "get_user" /\ req'[c].code = req[c].code
            /\ row[req[c].target].status = "pending"
  BY <1>1, AnswerFrame, GoToFrame DEF ServerPc
<1>4. TypeOK'
  BY <1>1, <1>2, <1>3, OutcomeTypes DEF TypeOK, HandlerFrame
<1>5. Staged'
  BY <1>2, <1>3 DEF Staged, StagedAt, HandlerFrame
<1>6. Vetted'
  BY <1>2, <1>3 DEF Vetted, VettedAt, Staged, StagedAt, HandlerFrame
<1>7. Provenance'
  BY <1>3, HandlerFrameProvenance
<1>8. OutcomeIsApproversOwn' /\ ReceiptIsExclusive'
  BY <1>2, <1>3, QuietStep
<1> QED
  BY <1>4, <1>5, <1>6, <1>7, <1>8

\* The GetApprovalUser step preserves it: it goes on only with a signature over this row.
LEMMA GetApprovalUserIInv ==
    ASSUME IInv, NEW c \in Sessions, GetApprovalUser(c)
    PROVE  IInv'
<1> USE DEF IInv
<1> DEFINE k == users[req[c].email]
           Accepted == req' = [req EXCEPT ![c] =
                                  Moved(@, "dispatch", k, @.ran, @.code, NextCtx(c))]
<1>1. PICK o \in Outcomes(c) :
         /\ Charge(c, o)
         /\ \/ \E code \in {"500", "403"} : Answer(c, code)
            \/ Verify(k, req[c].target, req[c].sig) /\ Accepted
  BY DEF GetApprovalUser
<1>2. /\ req[c].pc = "get_user"
      /\ UNCHANGED <<row, users, grantees, sources, senders>>
      /\ req[c].email \in Operators /\ req[c].sig \in Signature /\ req[c].target \in Ids
  BY DEF GetApprovalUser, effectVars, Staged, StagedAt
<1>3. ASSUME Verify(k, req[c].target, req[c].sig), Accepted
      PROVE  /\ HandlerFrame(c)
             /\ req'[c].ran = req[c].ran /\ req'[c].auth = req[c].sig.key
             /\ req'[c].pc = "dispatch" /\ req'[c].code = req[c].code
             /\ req[c].sig.id = req[c].target
             /\ req[c].sig.job = row[req[c].target].job
  <2>1. k \in Keys /\ req[c].sig.key = k
    BY <1>2, <1>3 DEF Verify, TypeOK
  <2>2. /\ req[c].sig.id = req[c].target
        /\ req[c].sig.job = row[req[c].target].job
    BY <1>3 DEF Verify, SigningPayload
  <2> QED
    BY <1>3, <2>1, <2>2, AcceptFrame
<1>4. /\ HandlerFrame(c)
      /\ req'[c].ran = req[c].ran
      /\ \/ req'[c].pc = "done" /\ req'[c].code \in {"500", "403"}
         \/ /\ req'[c].pc = "dispatch" /\ req'[c].code = req[c].code
            /\ req'[c].auth = req[c].sig.key
            /\ req[c].sig.id = req[c].target
            /\ req[c].sig.job = row[req[c].target].job
  BY <1>1, <1>3, AnswerFrame
<1>5. TypeOK'
  BY <1>1, <1>2, <1>4, OutcomeTypes DEF TypeOK, HandlerFrame
<1>6. Staged'
  BY <1>2, <1>4 DEF Staged, StagedAt, HandlerFrame
<1>7. Vetted'
  BY <1>2, <1>4 DEF Vetted, VettedAt, Staged, StagedAt, HandlerFrame
<1>8. Provenance'
  BY <1>4, HandlerFrameProvenance
<1>9. OutcomeIsApproversOwn' /\ ReceiptIsExclusive'
  BY <1>2, <1>4, QuietStep
<1> QED
  BY <1>5, <1>6, <1>7, <1>8, <1>9

\* Whatever a well-typed job does to the tables, they keep their types.
LEMMA ApplyTypes ==
    ASSUME TypeOK, NEW j \in Job, Apply(j)
    PROVE  /\ users' \in [Operators -> Keys \cup {None}]
           /\ grantees' \subseteq Grantees
           /\ sources' \in [Grantees \X Drives -> {"folder", "doc", None}]
           /\ senders' \in [Senders -> Grantees \cup {None}]
<1> USE JobFields DEF TypeOK, Apply
<1>1. users' \in [Operators -> Keys \cup {None}]
  BY DEF UsersAfter
<1>2. grantees' \subseteq Grantees
  BY DEF GranteesAfter
<1>3. sources' \in [Grantees \X Drives -> {"folder", "doc", None}]
  BY DEF SourcesAfter
<1>4. senders' \in [Senders -> Grantees \cup {None}]
  BY DEF SendersAfter
<1> QED
  BY <1>1, <1>2, <1>3, <1>4

\* How a dispatch ends, for the session that ran it.
LEMMA DispatchStep ==
    ASSUME IInv, NEW c \in Sessions, Dispatch(c)
    PROVE  /\ HandlerFrame(c)
           /\ req[c].pc = "dispatch" /\ row' = row
           /\ req'[c].code = req[c].code /\ req'[c].auth = req[c].auth
           /\ \/ req'[c].pc = "mark_executed" /\ req'[c].ran = "ok"
              \/ req'[c].pc = "mark_failed" /\ req'[c].ran \in {"error", "lost"}
           /\ TypeOK'
<1> USE DEF IInv
<1> DEFINE j == row[req[c].target].job
<1>1. PICK o \in Outcomes(c) :
         /\ Charge(c, o)
         /\ \/ Ran(c, "error", "mark_failed") /\ UNCHANGED <<users, effectVars>>
            \/ Ran(c, "ok", "mark_executed") /\ Apply(j)
            \/ Ran(c, "lost", "mark_failed") /\ Apply(j)
  BY DEF Dispatch
<1>2. req[c].pc = "dispatch" /\ row' = row
  BY DEF Dispatch
<1>3. j \in Job
  BY <1>2 DEF Vetted, VettedAt, Staged, StagedAt, Signature
<1>4. /\ HandlerFrame(c)
      /\ req'[c].code = req[c].code /\ req'[c].auth = req[c].auth
      /\ \/ req'[c].pc = "mark_executed" /\ req'[c].ran = "ok"
         \/ req'[c].pc = "mark_failed" /\ req'[c].ran \in {"error", "lost"}
  BY <1>1, RanFrame DEF ServerPc
<1>5. /\ users' \in [Operators -> Keys \cup {None}]
      /\ grantees' \subseteq Grantees
      /\ sources' \in [Grantees \X Drives -> {"folder", "doc", None}]
      /\ senders' \in [Senders -> Grantees \cup {None}]
  BY <1>1, <1>3, ApplyTypes DEF TypeOK, effectVars
<1>6. TypeOK'
  BY <1>1, <1>2, <1>4, <1>5, OutcomeTypes DEF TypeOK, HandlerFrame
<1> QED
  BY <1>2, <1>4, <1>6

\* The Dispatch step preserves it: it writes tables and the session's result.
LEMMA DispatchIInv ==
    ASSUME IInv, NEW c \in Sessions, Dispatch(c)
    PROVE  IInv'
<1> USE DispatchStep DEF IInv
<1>1. Staged'
  BY DEF Staged, StagedAt, HandlerFrame
<1>2. Vetted'
  BY DEF Vetted, VettedAt, HandlerFrame
<1>3. Provenance'
  BY HandlerFrameProvenance
<1>4. req[c].ran = "none"
  BY DEF Staged, StagedAt
<1>5. OutcomeIsApproversOwn' /\ ReceiptIsExclusive'
  BY <1>4, QuietStep
<1> QED
  BY <1>1, <1>2, <1>3, <1>5

\* Marking changes at most the session's own row, and only from pending.
LEMMA MarkRow ==
    ASSUME TypeOK, NEW c \in Sessions, req[c].target \in Ids, req[c].email \in Operators,
           NEW status \in Terminal, Mark(c, status)
    PROVE  /\ row' \in [Ids -> Row \cup {NoRow}]
           /\ \A i \in Ids : i # req[c].target => row'[i] = row[i]
           /\ row[req[c].target].status # "pending" =>
                 row'[req[c].target] = row[req[c].target]
           /\ row[req[c].target].status = "pending" =>
                 /\ row'[req[c].target].job = row[req[c].target].job
                 /\ row'[req[c].target].status = status
                 /\ row'[req[c].target].approved_by = req[c].email
BY DEF TypeOK, Row, NoRow, Mark, Terminal

\* The two marking steps: the session is over, its row is as before or settled.
LEMMA MarkStep ==
    ASSUME IInv, NEW c \in Sessions, MarkActionExecuted(c) \/ MarkActionFailed(c)
    PROVE  /\ HandlerFrame(c)
           /\ TypeOK'
           /\ req[c].pc \in {"mark_executed", "mark_failed"}
           /\ req[c].target \in Ids
           /\ req'[c].pc = "done" /\ req'[c].ran = req[c].ran /\ req'[c].auth = req[c].auth
           /\ \A i \in Ids : i # req[c].target => row'[i] = row[i]
           /\ \/ /\ row'[req[c].target] = row[req[c].target]
                 /\ req'[c].code = "500"
              \/ /\ row[req[c].target].status = "pending"
                 /\ row'[req[c].target].job = row[req[c].target].job
                 /\ row'[req[c].target].approved_by = req[c].email
                 /\ \/ /\ row'[req[c].target].status = "executed"
                       /\ req[c].ran = "ok"
                       /\ req'[c].code \in {"200", "500"}
                    \/ /\ row'[req[c].target].status = "failed"
                       /\ req[c].ran \in {"error", "lost"}
                       /\ req'[c].code = "500"
<1> USE DEF IInv
<1> DEFINE i == req[c].target
<1>1. /\ req[c].pc \in {"mark_executed", "mark_failed"}
      /\ i \in Ids /\ req[c].email \in Operators
      /\ req[c].pc = "mark_executed" => req[c].ran = "ok"
      /\ req[c].pc = "mark_failed" => req[c].ran \in {"error", "lost"}
      /\ UNCHANGED <<users, grantees, sources, senders>>
  BY DEF MarkActionExecuted, MarkActionFailed, Staged, StagedAt, effectVars
<1>2. PICK o \in Outcomes(c), code \in {"200", "500"} :
         /\ Charge(c, o)
         /\ Answer(c, code)
         /\ code = "200" => o = "ok" /\ row[i].status = "pending"
         /\ code = "200" => req[c].pc = "mark_executed"
         /\ IF o = "error" THEN row' = row
            ELSE Mark(c, IF req[c].pc = "mark_executed" THEN "executed" ELSE "failed")
  BY DEF MarkActionExecuted, MarkActionFailed
<1>3. /\ HandlerFrame(c)
      /\ req'[c].pc = "done" /\ req'[c].code = code
      /\ req'[c].ran = req[c].ran /\ req'[c].auth = req[c].auth
  BY <1>2, AnswerFrame
<1>4. CASE o = "error"
  <2>1. TypeOK'
    BY <1>1, <1>2, <1>3, <1>4, OutcomeTypes DEF TypeOK, HandlerFrame
  <2> QED
    BY <1>1, <1>2, <1>3, <1>4, <2>1
<1>5. CASE o # "error"
  <2> DEFINE status == IF req[c].pc = "mark_executed" THEN "executed" ELSE "failed"
  <2>1. status \in Terminal /\ Mark(c, status)
    BY <1>2, <1>5 DEF Terminal
  <2> HIDE DEF status
  <2>2. /\ row' \in [Ids -> Row \cup {NoRow}]
        /\ \A x \in Ids : x # i => row'[x] = row[x]
        /\ row[i].status # "pending" => row'[i] = row[i]
        /\ row[i].status = "pending" =>
              /\ row'[i].job = row[i].job
              /\ row'[i].status = status
              /\ row'[i].approved_by = req[c].email
    BY <1>1, <2>1, MarkRow
  <2>3. TypeOK'
    BY <1>1, <1>2, <1>3, <2>2, OutcomeTypes DEF TypeOK, HandlerFrame
  <2> QED
    BY <1>1, <1>2, <1>3, <2>2, <2>3 DEF status
<1> QED
  BY <1>4, <1>5

\* The two status updates preserve it: a row is settled once, by the session at hand.
LEMMA MarkIInv ==
    ASSUME IInv, NEW c \in Sessions, MarkActionExecuted(c) \/ MarkActionFailed(c)
    PROVE  IInv'
<1> USE DEF IInv
<1> DEFINE i == req[c].target
<1>1. i \in Ids /\ TypeOK' /\ HandlerFrame(c)
  BY MarkStep
<1>2. Staged'
  BY MarkStep DEF Staged, StagedAt, HandlerFrame
<1>3. \A x \in Ids : row[x].status # "absent" =>
                        row'[x].status # "absent" /\ row'[x].job = row[x].job
  BY MarkStep
<1>4. Vetted'
  BY <1>1, <1>3, MarkStep DEF Vetted, VettedAt, HandlerFrame, Staged, StagedAt, NoRequest
<1>5. Provenance'
  BY <1>1, HandlerFrameProvenance
<1>6. OutcomeIsApproversOwn'
  <2> SUFFICES ASSUME NEW x \in Ids, row'[x].status \in Terminal
               PROVE  \E d \in Sessions :
                         /\ req'[d].target = x
                         /\ req'[d].email = row'[x].approved_by
                         /\ IF row'[x].status = "executed"
                            THEN req'[d].ran = "ok" ELSE req'[d].ran \in {"error", "lost"}
    BY DEF OutcomeIsApproversOwn
  <2>1. \A d \in Sessions : /\ req'[d].target = req[d].target
                            /\ req'[d].email = req[d].email
                            /\ req'[d].ran = req[d].ran
    BY MarkStep DEF HandlerFrame
  <2>2. CASE row'[x] = row[x]
    BY <2>1, <2>2 DEF OutcomeIsApproversOwn
  <2>3. CASE row'[x] # row[x]
    BY <2>1, <2>3, MarkStep
  <2> QED
    BY <2>2, <2>3
<1>7. ReceiptIsExclusive'
  <2>1. \A d \in Sessions : req[d].code = "200" /\ req[d].target = i =>
                               row[i].status = "executed"
    BY DEF ReceiptIsExclusive
  <2>2. \A d \in Sessions : req'[d].target = req[d].target /\ req'[d].email = req[d].email
    BY <1>1 DEF HandlerFrame
  <2>3. \A d \in Sessions : d # c => req'[d].code = req[d].code
    BY <1>1 DEF HandlerFrame
  <2>4. req'[c].code = "200" =>
           /\ row[i].status = "pending"
           /\ row'[i].status = "executed"
           /\ row'[i].approved_by = req[c].email
    BY MarkStep
  <2>5. \A x \in Ids : row[x].status = "executed" => row'[x] = row[x]
    BY MarkStep
  <2>6. \A d \in Sessions : req[d].code = "200" => req[d].target \in Ids
    BY DEF Staged, StagedAt
  <2> QED
    BY <1>1, <2>1, <2>2, <2>3, <2>4, <2>5, <2>6 DEF ReceiptIsExclusive
<1> QED
  BY <1>1, <1>2, <1>4, <1>5, <1>6, <1>7

\* A crash preserves it: the sessions under way end with no answer.
LEMMA CrashIInv == IInv /\ Crash => IInv'
<1> SUFFICES ASSUME IInv, Crash PROVE IInv'
  OBVIOUS
<1> USE DEF IInv
<1>1. /\ req' \in [Sessions -> Request]
      /\ \A d \in Sessions :
            /\ req'[d].via = req[d].via /\ req'[d].target = req[d].target
            /\ req'[d].email = req[d].email /\ req'[d].sig = req[d].sig
            /\ req'[d].ran = req[d].ran /\ req'[d].auth = req[d].auth
            /\ \/ req'[d] = req[d]
               \/ /\ req[d].pc \in ServerPc /\ req'[d].pc = "done"
                  /\ req'[d].code = "cut"
  BY DEF Crash, Moved, TypeOK, Request
<1>2. crashes' \in Nat /\ UNCHANGED <<row, users, grantees, sources, senders, faults>>
  BY DEF Crash, effectVars, TypeOK
<1>3. TypeOK'
  BY <1>1, <1>2 DEF TypeOK
<1>4. Staged'
  BY <1>1 DEF Staged, StagedAt, ServerPc
<1>5. Vetted'
  BY <1>1, <1>2 DEF Vetted, VettedAt
<1>6. Provenance'
  BY <1>1 DEF Provenance
<1>7. OutcomeIsApproversOwn'
  BY <1>1, <1>2 DEF OutcomeIsApproversOwn
<1>8. ReceiptIsExclusive'
  BY <1>1, <1>2 DEF ReceiptIsExclusive
<1> QED
  BY <1>3, <1>4, <1>5, <1>6, <1>7, <1>8

\* A signature posted by the CLI or resubmitted is a signature.
LEMMA ClientIInv ==
    ASSUME IInv, NEW c \in Sessions, Client(c)
    PROVE  IInv'
<1>1. ASSUME NEW i \in Ids, NEW e \in Operators, NEW k \in Keys, CliApprove(c, i, e, k)
      PROVE  IInv'
  <2>1. row[i].job \in Job
    BY <1>1 DEF IInv, TypeOK, Row, NoRow, CliApprove
  <2>2. [key |-> k, id |-> i, job |-> row[i].job] \in Signature
    BY <2>1 DEF Signature
  <2> QED
    BY <1>1, <2>2, PostIInv DEF CliApprove
<1>2. ASSUME NEW i \in Ids, NEW e \in Operators, NEW d \in Sessions, Resubmit(c, i, e, d)
      PROVE  IInv'
  <2>1. req[d].sig \in Signature
    BY <1>2 DEF IInv, TypeOK, Request, Resubmit
  <2> QED
    BY <1>2, <2>1, PostIInv DEF Resubmit
<1> QED
  BY <1>1, <1>2, DisconnectIInv DEF Client

\* IInv is inductive.
LEMMA NextIInv == IInv /\ [Next]_vars => IInv'
<1> SUFFICES ASSUME IInv, [Next]_vars PROVE IInv'
  OBVIOUS
<1>1. CASE \E j \in Requested : Enqueue(j)
  BY <1>1, EnqueueIInv
<1>2. CASE \E c \in Sessions : Client(c)
  BY <1>2, ClientIInv
<1>3. ASSUME NEW c \in Sessions, approveAction(c) PROVE IInv'
  BY <1>3, GetActionIInv, GetApprovalUserIInv, DispatchIInv, MarkIInv DEF approveAction
<1>4. CASE Crash
  BY <1>4, CrashIInv
<1>5. CASE Admin
  BY <1>5, AdminIInv
<1>6. CASE UNCHANGED vars
  BY <1>6 DEF vars, effectVars, budgetVars, IInv, TypeOK, Staged, StagedAt, Vetted, VettedAt,
              Provenance, OutcomeIsApproversOwn, ReceiptIsExclusive, Terminal
<1> QED
  BY <1>1, <1>2, <1>3, <1>4, <1>5, <1>6 DEF Next

\* So it holds in every reachable state.
LEMMA SpecIInv == Spec => []IInv
BY InitIInv, NextIInv, PTL DEF Spec

\* Every reachable state is well typed: dispatch only ever runs a job that was queued.
THEOREM TypeCorrect == Spec => []TypeOK
<1>1. IInv => TypeOK
  BY DEF IInv
<1> QED
  BY <1>1, SpecIInv, PTL

\* A session that ran Dispatch has a confirming balvi-approve run for its row.
LEMMA IInvConfirmed == IInv => DispatchWasConfirmed
<1> SUFFICES ASSUME IInv, NEW c \in Sessions, req[c].ran # "none"
             PROVE  \E d \in Sessions : ConfirmedBy(d, req[c].target, req[c].auth)
  BY DEF DispatchWasConfirmed
<1>1. req[c].pc # "idle"
  BY DEF IInv, Staged, StagedAt, NoRequest
<1>2. req[c].sig # None
  BY <1>1 DEF IInv, Staged, StagedAt, Signature
<1>3. PICK d \in Sessions :
         req[d].via = "cli" /\ req[d].target = req[c].sig.id /\ req[d].sig = req[c].sig
  BY <1>2 DEF IInv, Provenance
<1>4. req[c].auth = req[c].sig.key /\ req[c].sig.id = req[c].target
  BY DEF IInv, Vetted, VettedAt
<1> QED
  BY <1>3, <1>4 DEF ConfirmedBy

\* No action is dispatched without an operator's confirmation of that very row, made
\* with the key the server accepted: approveAction's Verify and SigningPayload suffice
\* for any number of rows, requests, resubmitted signatures, failures and crashes.
THEOREM ConfirmedBeforeDispatch == Spec => []DispatchWasConfirmed
BY SpecIInv, IInvConfirmed, PTL

\* The status column is truthful about the approver it names, however approve requests
\* race: the WHERE status = 'pending' of both Mark statements suffices.
THEOREM StatusIsTruthful == Spec => []OutcomeIsApproversOwn
<1>1. IInv => OutcomeIsApproversOwn
  BY DEF IInv
<1> QED
  BY <1>1, SpecIInv, PTL

\* At most one request per row is ever answered 200, and its row stays executed.
THEOREM OneReceipt == Spec => []ReceiptIsExclusive
<1>1. IInv => ReceiptIsExclusive
  BY DEF IInv
<1> QED
  BY <1>1, SpecIInv, PTL

(***************************************************************************)
(* The refinement: each step maps to a step of the abstract queue or to a  *)
(* stutter.  Only four kinds of step are visible there.                    *)
(***************************************************************************)
queueState == <<[i \in Ids |-> row[i].status], confirmedRows, appliedRows>>

\* A step that keeps statuses, and for every session where it came from, its row and
\* whether it took effect, is invisible.
LEMMA InvisibleStep ==
    ASSUME \A i \in Ids : row'[i].status = row[i].status,
           \A d \in Sessions :
              /\ req'[d].via = "cli" /\ req'[d].target \in Ids
                    <=> req[d].via = "cli" /\ req[d].target \in Ids
              /\ req'[d].ran \in {"ok", "lost"} <=> req[d].ran \in {"ok", "lost"}
              /\ req[d].via = "cli" \/ req[d].ran \in {"ok", "lost"} =>
                    req'[d].target = req[d].target
    PROVE  UNCHANGED queueState
<1>1. confirmedRows' = confirmedRows
  BY DEF confirmedRows
<1>2. appliedRows' = appliedRows
  BY DEF appliedRows, Applied
<1> QED
  BY <1>1, <1>2 DEF queueState

\* A session that has taken effect or is about to is on a confirmed row.
LEMMA RowIsConfirmed ==
    ASSUME IInv, NEW c \in Sessions, req[c].pc = "dispatch" \/ req[c].ran # "none"
    PROVE  req[c].target \in confirmedRows
<1>1. req[c].pc # "idle"
  BY DEF IInv, Staged, StagedAt, NoRequest
<1>2. req[c].sig # None /\ req[c].target \in Ids
  BY <1>1 DEF IInv, Staged, StagedAt, Signature
<1>3. PICK d \in Sessions : req[d].via = "cli" /\ req[d].target = req[c].sig.id
  BY <1>2 DEF IInv, Provenance
<1>4. req[c].sig.id = req[c].target
  BY DEF IInv, Vetted, VettedAt
<1> QED
  BY <1>2, <1>3, <1>4 DEF confirmedRows

\* Queueing a row is the abstract Enqueue.
LEMMA EnqueueRefines ==
    ASSUME IInv, NEW j \in Requested, Enqueue(j)
    PROVE  Queue!Next
<1>1. PICK i \in Ids :
         /\ row[i].status = "absent"
         /\ row' = [row EXCEPT ![i] = [job |-> j, status |-> "pending", approved_by |-> None]]
  BY DEF Enqueue
<1>2. req' = req
  BY DEF Enqueue
<1>3. confirmedRows' = confirmedRows /\ appliedRows' = appliedRows
  BY <1>2 DEF confirmedRows, appliedRows, Applied
<1>4. [x \in Ids |-> row'[x].status] = [[x \in Ids |-> row[x].status] EXCEPT ![i] = "pending"]
  BY <1>1 DEF IInv, TypeOK
<1>5. Queue!Enqueue(i)
  BY <1>1, <1>3, <1>4 DEF Queue!Enqueue
<1> QED
  BY <1>5 DEF Queue!Next

\* Posting is the abstract Confirm for the CLI and a stutter for a resubmission.
LEMMA PostRefines ==
    ASSUME IInv, NEW c \in Sessions, NEW how \in {"cli", "resubmit"}, NEW i \in Ids,
           NEW e \in Operators, NEW s, Post(c, how, i, e, s),
           how = "cli" => row[i].status = "pending"
    PROVE  Queue!Next \/ UNCHANGED queueState
<1>1. /\ req[c] = NoRequest
      /\ row' = row
      /\ req' = [req EXCEPT ![c] =
                    [pc |-> "get_action", via |-> how, target |-> i, email |-> e, sig |-> s,
                     auth |-> None, ran |-> "none", code |-> "none", ctx |-> "live"]]
  BY DEF Post, IInv, Staged, StagedAt
<1>2. /\ req[c].via = "none" /\ req[c].ran = "none"
      /\ req'[c].via = how /\ req'[c].ran = "none" /\ req'[c].target = i
      /\ \A d \in Sessions : d # c => req'[d] = req[d]
  BY <1>1 DEF IInv, TypeOK, NoRequest
<1>3. CASE how = "resubmit"
  <2>1. confirmedRows' = confirmedRows
    BY <1>2, <1>3 DEF confirmedRows
  <2>2. appliedRows' = appliedRows
    BY <1>2 DEF appliedRows, Applied
  <2> QED
    BY <1>1, <2>1, <2>2 DEF queueState
<1>4. CASE how = "cli"
  <2>1. confirmedRows' = confirmedRows \cup {i}
    BY <1>2, <1>4 DEF confirmedRows
  <2>2. appliedRows' = appliedRows
    BY <1>2 DEF appliedRows, Applied
  <2>3. Queue!Confirm(i)
    BY <1>1, <1>4, <2>1, <2>2 DEF Queue!Confirm
  <2> QED
    BY <2>3 DEF Queue!Next
<1> QED
  BY <1>3, <1>4

\* A handler step that neither writes a row nor takes effect is invisible.
LEMMA FrameRefines ==
    ASSUME NEW c \in Sessions, HandlerFrame(c), row' = row,
           req'[c].ran \in {"ok", "lost"} <=> req[c].ran \in {"ok", "lost"}
    PROVE  UNCHANGED queueState
<1>1. \A d \in Sessions : /\ req'[d].via = req[d].via
                          /\ req'[d].target = req[d].target
                          /\ req'[d].ran \in {"ok", "lost"} <=> req[d].ran \in {"ok", "lost"}
  BY DEF HandlerFrame
<1> QED
  BY <1>1, InvisibleStep

\* A dispatch is the abstract TakeEffect, or a stutter when the handler did nothing.
LEMMA DispatchRefines ==
    ASSUME IInv, NEW c \in Sessions, Dispatch(c)
    PROVE  Queue!Next \/ UNCHANGED queueState
<1> DEFINE i == req[c].target
<1>1. /\ HandlerFrame(c) /\ row' = row /\ req[c].pc = "dispatch"
  BY DispatchStep
<1>2. req[c].ran = "none"
  BY <1>1 DEF IInv, Staged, StagedAt
<1>3. CASE req'[c].ran \notin {"ok", "lost"}
  BY <1>1, <1>2, <1>3, FrameRefines
<1>4. CASE req'[c].ran \in {"ok", "lost"}
  <2>1. i \in confirmedRows /\ i \in Ids
    BY <1>1, RowIsConfirmed DEF confirmedRows
  <2>2. confirmedRows' = confirmedRows
    BY <1>1 DEF confirmedRows, HandlerFrame
  <2>3. appliedRows' = appliedRows \cup {i}
    BY <1>1, <1>2, <1>4, <2>1 DEF appliedRows, Applied, HandlerFrame
  <2>4. Queue!TakeEffect(i)
    BY <1>1, <2>1, <2>2, <2>3 DEF Queue!TakeEffect
  <2> QED
    BY <2>1, <2>4 DEF Queue!Next
<1> QED
  BY <1>3, <1>4

\* A status update is the abstract Settle, or a stutter when the row is settled.
LEMMA MarkRefines ==
    ASSUME IInv, NEW c \in Sessions, MarkActionExecuted(c) \/ MarkActionFailed(c)
    PROVE  Queue!Next \/ UNCHANGED queueState
<1> DEFINE i == req[c].target
<1>1. /\ HandlerFrame(c) /\ i \in Ids /\ req'[c].ran = req[c].ran /\ TypeOK'
      /\ \A x \in Ids : x # i => row'[x] = row[x]
  BY MarkStep
<1>2. confirmedRows' = confirmedRows /\ appliedRows' = appliedRows
  BY <1>1 DEF confirmedRows, appliedRows, Applied, HandlerFrame
<1>3. CASE row'[i] = row[i]
  <2>1. [x \in Ids |-> row'[x].status] = [x \in Ids |-> row[x].status]
    BY <1>1, <1>3
  <2> QED
    BY <1>2, <2>1 DEF queueState
<1>4. CASE row'[i] # row[i]
  <2>1. PICK o \in {"executed", "failed"} :
           /\ row[i].status = "pending" /\ row'[i].status = o
           /\ \/ o = "executed" /\ req[c].ran = "ok"
              \/ o = "failed" /\ req[c].ran \in {"error", "lost"}
    BY <1>4, MarkStep
  <2>2. i \in confirmedRows
    BY <2>1, RowIsConfirmed
  <2>3. o = "executed" => i \in appliedRows
    BY <1>1, <2>1 DEF appliedRows, Applied
  <2>4. [x \in Ids |-> row'[x].status] = [[x \in Ids |-> row[x].status] EXCEPT ![i] = o]
    BY <1>1, <2>1
  <2>5. Queue!Settle(i, o)
    BY <1>1, <1>2, <2>1, <2>2, <2>3, <2>4 DEF Queue!Settle
  <2> QED
    BY <1>1, <2>5 DEF Queue!Next
<1> QED
  BY <1>3, <1>4

\* Every handler step is an abstract step or a stutter.
LEMMA ApproveRefines ==
    ASSUME IInv, NEW c \in Sessions, approveAction(c)
    PROVE  Queue!Next \/ UNCHANGED queueState
<1> USE DEF IInv
<1>1. CASE GetAction(c)
  <2>1. HandlerFrame(c) /\ req'[c].ran = req[c].ran
    BY <1>1, AnswerFrame, GoToFrame DEF GetAction, ServerPc
  <2> QED
    BY <1>1, <2>1, FrameRefines DEF GetAction
<1>2. CASE GetApprovalUser(c)
  <2>1. PICK k \in Keys \cup {None} :
           \/ \E code \in {"500", "403"} : Answer(c, code)
           \/ req' = [req EXCEPT ![c] = Moved(@, "dispatch", k, @.ran, @.code, NextCtx(c))]
    BY <1>2 DEF GetApprovalUser, TypeOK, Staged, StagedAt
  <2>2. HandlerFrame(c) /\ req'[c].ran = req[c].ran
    BY <2>1, AnswerFrame, AcceptFrame
  <2> QED
    BY <1>2, <2>2, FrameRefines DEF GetApprovalUser
<1> QED
  BY <1>1, <1>2, DispatchRefines, MarkRefines DEF approveAction

\* Every step of the gate is an abstract step or a stutter.
LEMMA NextRefines == IInv /\ [Next]_vars => [Queue!Next]_queueState
<1> SUFFICES ASSUME IInv, [Next]_vars PROVE Queue!Next \/ UNCHANGED queueState
  OBVIOUS
<1>1. CASE \E j \in Requested : Enqueue(j)
  BY <1>1, EnqueueRefines
<1>2. ASSUME NEW c \in Sessions, Client(c) PROVE Queue!Next \/ UNCHANGED queueState
  <2>1. ASSUME NEW i \in Ids, NEW e \in Operators, NEW k \in Keys, CliApprove(c, i, e, k)
        PROVE  Queue!Next \/ UNCHANGED queueState
    BY <2>1, PostRefines DEF CliApprove
  <2>2. ASSUME NEW i \in Ids, NEW e \in Operators, NEW d \in Sessions, Resubmit(c, i, e, d)
        PROVE  Queue!Next \/ UNCHANGED queueState
    BY <2>2, PostRefines DEF Resubmit
  <2>3. CASE Disconnect(c)
    <3>1. HandlerFrame(c) /\ row' = row /\ req'[c].ran = req[c].ran
      BY <2>3 DEF Disconnect, Moved, IInv, TypeOK, Request, HandlerFrame
    <3> QED
      BY <3>1, FrameRefines
  <2> QED
    BY <1>2, <2>1, <2>2, <2>3 DEF Client
<1>3. CASE \E c \in Sessions : approveAction(c)
  BY <1>3, ApproveRefines
<1>4. CASE Crash
  <2>1. row' = row /\ \A d \in Sessions : /\ req'[d].via = req[d].via
                                          /\ req'[d].target = req[d].target
                                          /\ req'[d].ran = req[d].ran
    BY <1>4 DEF Crash, Moved
  <2> QED
    BY <2>1, InvisibleStep
<1>5. CASE Admin \/ UNCHANGED vars
  <2>1. row' = row /\ req' = req
    BY <1>5 DEF Admin, ApproveUserAdd, ApproveUserRemove, bootstrapApprovalUser, SetUser,
                GranteeCreate, Authorize, Revoke, EmailAdd, EmailRemove, vars
  <2> QED
    BY <2>1 DEF queueState, confirmedRows, appliedRows, Applied
<1> QED
  BY <1>1, <1>2, <1>3, <1>4, <1>5 DEF Next

\* The approval gate implements the abstract queue for every value of the constants: an
\* action takes effect only after an operator confirmed its row, is executed only after
\* it took effect, and its status, once settled, never changes.
THEOREM GateImplementsQueue == Spec => ImplementsQueue
<1>1. Init => Queue!Init
  BY DEF Init, Queue!Init, NoRow, NoRequest, confirmedRows, appliedRows, Applied
<1>2. IInv /\ [Next]_vars => [Queue!Next]_queueState
  BY NextRefines
<1> QED
  BY <1>1, <1>2, SpecIInv, PTL DEF Spec, ImplementsQueue, Queue!Spec, queueState

(***************************************************************************)
(* A dispatched action is settled.                                         *)
(***************************************************************************)
\* A step keeps DispatchSettles if settled rows stay settled, failures are not
\* forgotten, and it ends no undisturbed session that ran its handler.
LEMMA SettlesKept ==
    ASSUME IInv, DispatchSettles, faults' \in Nat, faults' >= faults,
           \A i \in Ids : row[i].status \in Terminal => row'[i].status \in Terminal,
           \A d \in Sessions :
              \/ req'[d] = req[d]
              \/ req'[d].pc # "done" \/ req'[d].ran = "none"
              \/ req'[d].code = "cut" \/ req'[d].ctx # "live" \/ faults' > 0
              \/ row'[req'[d].target].status \in Terminal
    PROVE  DispatchSettles'
<1> SUFFICES ASSUME NEW d \in Sessions, req'[d].pc = "done", req'[d].ran # "none",
                    req'[d].ctx = "live", req'[d].code # "cut", ~(faults' > 0)
             PROVE  row'[req'[d].target].status \in Terminal
  BY DEF DispatchSettles, Disturbed
<1>1. CASE req'[d] = req[d]
  <2>1. ~(faults > 0)
    BY DEF IInv, TypeOK
  <2>2. req[d].target \in Ids
    BY <1>1 DEF IInv, Staged, StagedAt
  <2> QED
    BY <1>1, <2>1, <2>2 DEF DispatchSettles, Disturbed
<1> QED
  BY <1>1

\* A session that ran its handler has a row that is pending or settled.
LEMMA DispatchedRow ==
    ASSUME IInv, NEW c \in Sessions, req[c].ran # "none"
    PROVE  /\ req[c].target \in Ids
           /\ row[req[c].target].status = "pending" \/ row[req[c].target].status \in Terminal
<1>1. req[c].target \in Ids
  BY DEF IInv, Staged, StagedAt, NoRequest
<1>2. row[req[c].target].status # "absent"
  BY DEF IInv, Vetted, VettedAt
<1> QED
  BY <1>1, <1>2 DEF IInv, TypeOK, Row, NoRow, Terminal

\* A handler's last call settles the row, finds it settled, or failed.
LEMMA MarkSettles ==
    ASSUME IInv, DispatchSettles, NEW c \in Sessions,
           MarkActionExecuted(c) \/ MarkActionFailed(c)
    PROVE  DispatchSettles'
<1>1. /\ req[c].pc \in {"mark_executed", "mark_failed"}
      /\ req[c].target \in Ids /\ req[c].email \in Operators
      /\ req[c].ran # "none"
  BY DEF IInv, Staged, StagedAt, MarkActionExecuted, MarkActionFailed
<1>2. PICK o \in Outcomes(c), code \in {"200", "500"}, status \in Terminal :
         /\ Charge(c, o)
         /\ Answer(c, code)
         /\ IF o = "error" THEN row' = row ELSE Mark(c, status)
  BY DEF MarkActionExecuted, MarkActionFailed, Terminal
<1>3. /\ \A d \in Sessions : d # c => req'[d] = req[d]
      /\ req'[c].target = req[c].target
  BY <1>2, AnswerFrame DEF HandlerFrame, IInv
<1>4. req'[c].ctx = NextCtx(c)
  BY <1>2 DEF Answer, Moved, IInv, TypeOK
<1>5. faults' \in Nat /\ faults' >= faults
  BY <1>2 DEF Charge, IInv, TypeOK
<1>6. \A i \in Ids : row[i].status \in Terminal => row'[i].status \in Terminal
  BY <1>1, <1>2, MarkRow DEF IInv, Terminal
<1>7. CASE o = "ok"
  <2>1. row'[req[c].target].status \in Terminal
    BY <1>1, <1>2, <1>7, MarkRow, DispatchedRow DEF IInv
  <2> QED
    BY <1>3, <1>5, <1>6, <2>1, SettlesKept
<1>8. CASE o # "ok"
  <2>1. req'[c].ctx # "live" \/ faults' > 0
    BY <1>2, <1>4, <1>8 DEF Charge, NextCtx, IInv, TypeOK
  <2> QED
    BY <1>3, <1>5, <1>6, <2>1, SettlesKept
<1> QED
  BY <1>7, <1>8

\* The earlier calls of a handler end no session that ran one.
LEMMA HandlerSettles ==
    ASSUME IInv, DispatchSettles, NEW c \in Sessions, approveAction(c)
    PROVE  DispatchSettles'
<1>1. CASE GetAction(c) \/ GetApprovalUser(c)
  <2>1. row' = row /\ req[c].ran = "none"
    BY <1>1 DEF GetAction, GetApprovalUser, IInv, Staged, StagedAt
  <2>2. PICK o \in Outcomes(c) : Charge(c, o)
    BY <1>1 DEF GetAction, GetApprovalUser
  <2>3. faults' \in Nat /\ faults' >= faults
    BY <2>2 DEF Charge, IInv, TypeOK
  <2>4. /\ \A d \in Sessions : d # c => req'[d] = req[d]
        /\ req'[c].ran = req[c].ran
    BY <1>1 DEF GetAction, GetApprovalUser, Answer, GoTo, Moved, IInv, TypeOK
  <2> QED
    BY <2>1, <2>3, <2>4, SettlesKept
<1>2. CASE Dispatch(c)
  <2>1. PICK o \in Outcomes(c) : Charge(c, o)
    BY <1>2 DEF Dispatch
  <2>2. faults' \in Nat /\ faults' >= faults
    BY <2>1 DEF Charge, IInv, TypeOK
  <2> QED
    BY <1>2, <2>2, DispatchStep, SettlesKept DEF HandlerFrame
<1> QED
  BY <1>1, <1>2, MarkSettles DEF approveAction

\* Everything else leaves settled rows alone and ends sessions only by a crash.
LEMMA NextSettles == IInv /\ DispatchSettles /\ [Next]_vars => DispatchSettles'
<1> SUFFICES ASSUME IInv, DispatchSettles, [Next]_vars PROVE DispatchSettles'
  OBVIOUS
<1>1. CASE \E j \in Requested : Enqueue(j)
  <2>1. PICK i \in Ids, r \in Row :
           row[i].status = "absent" /\ row' = [row EXCEPT ![i] = r]
    <3>1. PICK j \in Requested, i \in Ids :
             /\ row[i].status = "absent"
             /\ row' = [row EXCEPT ![i] =
                           [job |-> j, status |-> "pending", approved_by |-> None]]
      BY <1>1 DEF Enqueue
    <3>2. [job |-> j, status |-> "pending", approved_by |-> None] \in Row
      BY DEF Row
    <3> QED
      BY <3>1, <3>2
  <2>2. UNCHANGED <<req, faults>>
    BY <1>1 DEF Enqueue, budgetVars
  <2> QED
    BY <2>1, <2>2, SettlesKept DEF IInv, TypeOK, Terminal
<1>2. ASSUME NEW c \in Sessions, Client(c) PROVE DispatchSettles'
  <2>1. UNCHANGED <<row, faults>>
    BY <1>2 DEF Client, CliApprove, Resubmit, Post, Disconnect, budgetVars
  <2>2. /\ \A d \in Sessions : d # c => req'[d] = req[d]
        /\ req'[c].pc # "done"
    BY <1>2 DEF Client, CliApprove, Resubmit, Post, Disconnect, Moved, ServerPc, IInv, TypeOK
  <2> QED
    BY <2>1, <2>2, SettlesKept DEF IInv, TypeOK
<1>3. ASSUME NEW c \in Sessions, approveAction(c) PROVE DispatchSettles'
  BY <1>3, HandlerSettles
<1>4. CASE Crash
  <2>1. UNCHANGED <<row, faults>>
    BY <1>4 DEF Crash
  <2>2. \A d \in Sessions : req'[d] = req[d] \/ req'[d].code = "cut"
    BY <1>4 DEF Crash, Moved
  <2> QED
    BY <2>1, <2>2, SettlesKept DEF IInv, TypeOK
<1>5. CASE Admin
  <2>1. UNCHANGED <<row, req, faults>>
    BY <1>5 DEF Admin, ApproveUserAdd, ApproveUserRemove, bootstrapApprovalUser, SetUser,
                GranteeCreate, Authorize, Revoke, EmailAdd, EmailRemove, budgetVars
  <2> QED
    BY <2>1, SettlesKept DEF IInv, TypeOK
<1>6. CASE UNCHANGED vars
  BY <1>6, SettlesKept DEF vars, budgetVars, IInv, TypeOK
<1> QED
  BY <1>1, <1>2, <1>3, <1>4, <1>5, <1>6 DEF Next

\* A request that ran the handler of its row leaves the row executed or failed, however
\* many requests race for it, unless it was interrupted, cut off or met a failing call.
THEOREM DispatchedRowsSettle == Spec => []DispatchSettles
<1>1. Init => DispatchSettles
  BY DEF Init, DispatchSettles, NoRequest
<1> QED
  BY <1>1, NextSettles, SpecIInv, PTL DEF Spec
=============================================================================
