--------------------------- MODULE DocsSyncProofs ---------------------------
(***************************************************************************)
(* Theorems about DocsSync, for any number of pods, documents, grantees,   *)
(* sources, edits and cycles.                                              *)
(*                                                                         *)
(* The invariant has five parts.  Base says what a pod has in hand at each *)
(* place of a cycle.  Granted follows a pair of grantee and source from    *)
(* grantee_sources to the row.  Timely orders the times: of a listing, of  *)
(* the export it led to, and of the document.  Calm follows a document     *)
(* through an undisturbed cycle, with any number of pods.  Lone is about a *)
(* deployment of one pod: its cycle counter only rises, and what an        *)
(* undisturbed cycle has seen is within reach.                             *)
(***************************************************************************)
EXTENDS DocsSync, TLAPS

Pairs == Grantees \X Sources
Between == {"idle", "ended"}
Starting == {"idle", "ended", "bump", "list"}

\* What a pod has in hand.
InHand(p) ==
    /\ pc[p] \in Starting => gtodo[p] = {} /\ stodo[p] = {} /\ ftodo[p] = {}
    /\ ftodo[p] # {} => from[p] \in Pairs
    /\ pc[p] \in DocPc =>
          /\ file[p] \in Files
          /\ from[p] \in Pairs
          /\ had[p] => Present(file[p][1])
          /\ pc[p] \in {"touch", "mark_stale", "mark_error"} => Present(file[p][1])

Base == TypeOK /\ \A p \in Pods : InHand(p)

\* Where a pair of grantee and source can be on its way to a row.
Granted ==
    /\ sources \subseteq allowed
    /\ \A p \in Pods : stodo[p] \subseteq allowed /\ from[p] \in allowed \cup {NoPair}
    /\ RowsComeFromGrants

\* A listing is no newer than the export it leads to, and that no newer than
\* the document.
TimelyRow(d) ==
    Present(d) => docs[d].listed <= docs[d].content /\ docs[d].content <= mtime[d]

TimelyPod(p) ==
    /\ \A f \in ftodo[p] : f[2] <= mtime[f[1]]
    /\ pc[p] \in DocPc => file[p][2] <= mtime[file[p][1]]
    /\ pc[p] = "upsert" => file[p][2] <= text[p] /\ text[p] <= mtime[file[p][1]]

Timely ==
    /\ \A d \in Docs : mtime[d] <= clock
    /\ \A d \in Docs : TimelyRow(d)
    /\ \A p \in Pods : TimelyPod(p)

\* A source of an active grantee under which the document is found.
Reach(x, d) == x[1] \in active /\ x[2] \in place[d]

Served(p, d) ==
    docs[d].status = "active" /\ docs[d].content = mtime[d] /\ docs[d].seen = cycle[p]

\* The pod is still to come to the document under x, has it in hand, or is done with it.
OnItsWay(p, x, d) ==
    \/ x[1] \in gtodo[p]
    \/ x \in stodo[p]
    \/ <<d, mtime[d]>> \in ftodo[p]
    \/ pc[p] \in DocPc /\ file[p] = <<d, mtime[d]>>
    \/ Served(p, d)

\* What an undisturbed pod knows is what Drive and the database hold.
CalmPod(p) ==
    /\ pc[p] \notin {"idle", "mark_stale", "mark_error"}
    /\ \A q \in Pods : q # p => pc[q] \in Between
    /\ \A f \in ftodo[p] : f[2] = mtime[f[1]]
    /\ pc[p] \in DocPc => file[p][2] = mtime[file[p][1]]
    /\ pc[p] = "touch" => docs[file[p][1]].content = mtime[file[p][1]]
    /\ pc[p] = "upsert" => text[p] = mtime[file[p][1]]
    /\ pc[p] \in DocPc \cup {"walk"} =>
          \A d \in Docs, x \in sources : Reach(x, d) => OnItsWay(p, x, d)
    /\ pc[p] = "ended" =>
          \A d \in Docs, x \in sources : Reach(x, d) => Served(p, d)

Calm == \A p \in calm : CalmPod(p)

\* What an undisturbed pod is to visit, has in hand and has seen is within reach.
Sees(p) ==
    /\ gtodo[p] \subseteq active
    /\ \A x \in stodo[p] : x \in sources /\ x[1] \in active
    /\ \A f \in ftodo[p] : Reachable(f[1])
    /\ pc[p] \in DocPc => Reachable(file[p][1])
    /\ pc[p] \notin {"idle", "bump"} =>
          \A d \in Docs : docs[d].seen = cycle[p] => Reachable(d)
    /\ pc[p] = "ended" => \A d \in Docs : Markable(d) => docs[d].seen = cycle[p]

\* No row and no cycle is ahead of the counter.
Alone(p) ==
    /\ \A q \in Pods : q # p => pc[q] = "idle"
    /\ pc[p] # "idle" => cycle[p] = counter
    /\ \A d \in Docs : docs[d].seen <= counter
    /\ p \in calm => Sees(p)

Lone == \A p \in Pods : pods = {p} => Alone(p)

(***************************************************************************)
(* Rows.                                                                   *)
(***************************************************************************)

\* The fields of a row of the docs table.
LEMMA RowFields ==
    ASSUME TypeOK, NEW d \in Docs, Present(d)
    PROVE  docs[d] \in Doc
BY DEF TypeOK, Present, NoDoc

\* A document without a row has been seen in no cycle.
LEMMA NoRowFields ==
    ASSUME TypeOK, NEW d \in Docs, ~Present(d)
    PROVE  docs[d] = NoDoc
BY DEF TypeOK, Present, Doc

\* What SetStatus, UpsertDoc and MarkUnseenStale write is a row.
LEMMA RowMade ==
    ASSUME NEW status \in {"active", "stale", "error"}, NEW g \in Grantees, NEW s \in Sources,
           NEW listed \in Nat, NEW content \in Nat, NEW seen \in Nat
    PROVE  /\ [status |-> status, grantee |-> g, source |-> s, listed |-> listed,
               content |-> content, seen |-> seen] \in Doc
           /\ status # "absent"
BY DEF Doc

\* SetStatus changes the status and the cycle of a row and nothing else.
LEMMA SetStatusRow ==
    ASSUME TypeOK, NEW d \in Docs, Present(d), NEW status \in {"active", "stale", "error"},
           NEW seen \in Nat, SetStatus(d, status, seen)
    PROVE  /\ docs' \in [Docs -> Doc \cup {NoDoc}]
           /\ \A e \in Docs : e # d => docs'[e] = docs[e]
           /\ docs'[d] = [status |-> status, grantee |-> docs[d].grantee,
                          source |-> docs[d].source, listed |-> docs[d].listed,
                          content |-> docs[d].content, seen |-> seen]
           /\ docs'[d].status # "absent"
<1>1. docs \in [Docs -> Doc \cup {NoDoc}]
  BY DEF TypeOK
<1>2. docs[d] \in Doc
  BY RowFields
<1> DEFINE new == [status |-> status, grantee |-> docs[d].grantee,
                   source |-> docs[d].source, listed |-> docs[d].listed,
                   content |-> docs[d].content, seen |-> seen]
<1>3. new \in Doc /\ new.status # "absent"
  BY <1>2, RowMade DEF Doc
<1>4. docs' = [docs EXCEPT ![d] = new]
  BY DEF SetStatus
<1> HIDE DEF new
<1>5. /\ docs' \in [Docs -> Doc \cup {NoDoc}]
      /\ \A e \in Docs : e # d => docs'[e] = docs[e]
      /\ docs'[d] = new
  BY <1>1, <1>3, <1>4
<1>6. docs'[d].status # "absent"
  BY <1>3, <1>5
<1> QED
  BY <1>5, <1>6 DEF new

\* UpsertDoc writes one row, of the pair it came from.
LEMMA UpsertRow ==
    ASSUME Base, NEW p \in Pods, UpsertDoc(p)
    PROVE  LET d == file[p][1] IN
           /\ d \in Docs
           /\ docs' \in [Docs -> Doc \cup {NoDoc}]
           /\ \A e \in Docs : e # d => docs'[e] = docs[e]
           /\ docs'[d] = [status |-> "active", grantee |-> from[p][1],
                          source |-> from[p][2], listed |-> file[p][2],
                          content |-> text[p], seen |-> cycle[p]]
           /\ docs'[d].status # "absent"
<1> DEFINE d == file[p][1]
           new == [status |-> "active", grantee |-> from[p][1], source |-> from[p][2],
                   listed |-> file[p][2], content |-> text[p], seen |-> cycle[p]]
<1>1. file[p] \in Files /\ from[p] \in Pairs /\ text[p] \in Nat /\ cycle[p] \in Nat
  BY DEF Base, TypeOK, InHand, UpsertDoc, DocPc
<1>2. /\ d \in Docs /\ file[p][2] \in Nat
      /\ from[p][1] \in Grantees /\ from[p][2] \in Sources
  BY <1>1 DEF Files, Pairs
<1>3. new \in Doc /\ new.status # "absent"
  BY <1>1, <1>2, RowMade
<1>4. docs \in [Docs -> Doc \cup {NoDoc}] /\ docs' = [docs EXCEPT ![d] = new]
  BY DEF UpsertDoc, Base, TypeOK
<1> HIDE DEF new
<1>5. /\ docs' \in [Docs -> Doc \cup {NoDoc}]
      /\ \A e \in Docs : e # d => docs'[e] = docs[e]
      /\ docs'[d] = new
  BY <1>2, <1>3, <1>4
<1>6. docs'[d].status # "absent"
  BY <1>3, <1>5
<1> QED
  BY <1>2, <1>5, <1>6 DEF new

\* MarkUnseenStale changes the status of rows and nothing else.
LEMMA UnseenRows ==
    ASSUME TypeOK, NEW p \in Pods, MarkUnseenStale(p)
    PROVE  /\ docs' \in [Docs -> Doc \cup {NoDoc}]
           /\ \A d \in Docs :
                 \/ docs'[d] = docs[d] /\ ~(Markable(d) /\ docs[d].seen < cycle[p])
                 \/ /\ docs[d].status = "active" /\ docs[d].seen < cycle[p]
                    /\ docs'[d] = [status |-> "stale", grantee |-> docs[d].grantee,
                                   source |-> docs[d].source, listed |-> docs[d].listed,
                                   content |-> docs[d].content, seen |-> docs[d].seen]
                    /\ docs'[d].status = "stale"
<1> DEFINE marked(d) == [status |-> "stale", grantee |-> docs[d].grantee,
                         source |-> docs[d].source, listed |-> docs[d].listed,
                         content |-> docs[d].content, seen |-> docs[d].seen]
           late(d) == Markable(d) /\ docs[d].seen < cycle[p]
<1>1. docs' = [d \in Docs |-> IF late(d) THEN marked(d) ELSE docs[d]]
  BY DEF MarkUnseenStale
<1>2. \A d \in Docs : docs[d] \in Doc \cup {NoDoc}
  BY DEF TypeOK
<1>3. \A d \in Docs : late(d) => docs[d].status = "active" /\ docs[d].seen < cycle[p]
  BY DEF Markable
<1>4. \A d \in Docs : late(d) => marked(d) \in Doc
  <2> SUFFICES ASSUME NEW d \in Docs, late(d) PROVE marked(d) \in Doc
    OBVIOUS
  <2>1. docs[d] \in Doc
    BY <1>3, RowFields DEF Present
  <2> QED
    BY <2>1, RowMade DEF Doc
<1>5. \A d \in Docs : marked(d).status = "stale"
  OBVIOUS
<1> HIDE DEF marked, late
<1>6. docs' \in [Docs -> Doc \cup {NoDoc}]
  BY <1>1, <1>2, <1>4
<1>7. \A d \in Docs : \/ docs'[d] = docs[d] /\ ~late(d)
                      \/ /\ docs[d].status = "active" /\ docs[d].seen < cycle[p]
                         /\ docs'[d] = marked(d)
                         /\ docs'[d].status = "stale"
  BY <1>1, <1>3, <1>5
<1> QED
  BY <1>6, <1>7 DEF marked, late

(***************************************************************************)
(* Base.                                                                   *)
(***************************************************************************)

\* The document a pod in processDoc has in hand.
LEMMA FileInHand ==
    ASSUME Base, NEW p \in Pods, pc[p] \in DocPc
    PROVE  /\ file[p] = <<file[p][1], file[p][2]>>
           /\ file[p][1] \in Docs /\ file[p][2] \in Nat
           /\ from[p][1] \in Grantees /\ from[p][2] \in Sources
           /\ text[p] \in Nat /\ cycle[p] \in Nat /\ mtime[file[p][1]] \in Nat
           /\ pc[p] \in {"touch", "mark_stale", "mark_error"} => Present(file[p][1])
<1>1. file[p] \in Files /\ from[p] \in Pairs
  BY DEF Base, InHand
<1>2. /\ file[p] = <<file[p][1], file[p][2]>>
      /\ file[p][1] \in Docs /\ file[p][2] \in Nat
      /\ from[p][1] \in Grantees /\ from[p][2] \in Sources
  BY <1>1 DEF Files, Pairs
<1> QED
  BY <1>2 DEF Base, InHand, TypeOK

\* Changes outside the pods.
Outside == (Drive \/ Admin) /\ UNCHANGED <<docs, counter, pc, cycle, walkVars, docVars>> /\ calm' = {}

\* Edits, moves, shares, pauses and grants leave the pods and the tables of the
\* sync alone, and no cycle is undisturbed by them.
LEMMA OutsideStep ==
    ASSUME Drive \/ Admin
    PROVE  Outside
BY DEF Outside, Drive, Admin, Edit, Move, SetReadable, SetGranteeStatus, UpsertSource,
       DeleteSource, walkVars, docVars

\* Everything of a pod stays.
Same(q) ==
    /\ pc'[q] = pc[q] /\ cycle'[q] = cycle[q]
    /\ gtodo'[q] = gtodo[q] /\ stodo'[q] = stodo[q] /\ from'[q] = from[q]
    /\ ftodo'[q] = ftodo[q] /\ file'[q] = file[q] /\ had'[q] = had[q] /\ text'[q] = text[q]

\* A pod's step changes nothing of another pod.
LEMMA OthersSame ==
    ASSUME TypeOK, NEW p \in Pods, Run(p), NEW q \in Pods, q # p
    PROVE  Same(q)
<1> USE DEF TypeOK, Same, Goto, Return, walkVars, docVars
<1>1. CASE ReadCounter(p) \/ WriteCounter(p) \/ ListActiveGrantees(p)
  BY <1>1 DEF ReadCounter, WriteCounter, ListActiveGrantees
<1>2. CASE syncGrantee(p)
  BY <1>2 DEF syncGrantee
<1>3. CASE walkFolder(p)
  BY <1>3 DEF walkFolder
<1>4. CASE GetDocByID(p)
  BY <1>4 DEF GetDocByID
<1>5. CASE ExportMarkdown(p)
  BY <1>5 DEF ExportMarkdown
<1>6. CASE TouchDocSeen(p) \/ MarkDocStale(p) \/ MarkDocError(p) \/ UpsertDoc(p) \/ CallFails(p)
  BY <1>6 DEF TouchDocSeen, MarkDocStale, MarkDocError, UpsertDoc, CallFails
<1>7. CASE MarkUnseenStale(p)
  BY <1>7 DEF MarkUnseenStale
<1>8. CASE Abandon(p)
  BY <1>8 DEF Abandon
<1> QED
  BY <1>1, <1>2, <1>3, <1>4, <1>5, <1>6, <1>7, <1>8 DEF Run, processDoc

\* What processDoc leaves when it returns.
LEMMA Returned ==
    ASSUME TypeOK, NEW p \in Pods, Return(p)
    PROVE  /\ pc' \in [Pods -> DocPc \cup {"idle", "bump", "list", "walk", "ended"}]
           /\ file' \in [Pods -> Files \cup {NoFile}]
           /\ had' \in [Pods -> BOOLEAN]
           /\ text' \in [Pods -> Nat]
           /\ pc'[p] = "walk" /\ file'[p] = NoFile /\ text'[p] = 0
<1>1. had' \in [Pods -> BOOLEAN]
  BY DEF TypeOK, Return
<1> QED
  BY <1>1 DEF TypeOK, Return, Goto

\* A row stays a row.
LEMMA RowsStay ==
    ASSUME Base, Next
    PROVE  /\ docs' \in [Docs -> Doc \cup {NoDoc}]
           /\ \A d \in Docs : Present(d) => Present(d)'
<1>0. TypeOK
  BY DEF Base
<1>1. CASE UNCHANGED docs
  BY <1>1 DEF Base, TypeOK, Present
<1>2. ASSUME NEW p \in Pods, TouchDocSeen(p) \/ MarkDocStale(p) \/ MarkDocError(p)
      PROVE  /\ docs' \in [Docs -> Doc \cup {NoDoc}]
             /\ \A d \in Docs : Present(d) => Present(d)'
  <2> DEFINE d == file[p][1]
  <2>1. pc[p] \in {"touch", "mark_stale", "mark_error"}
    BY <1>2 DEF TouchDocSeen, MarkDocStale, MarkDocError
  <2>2. d \in Docs /\ Present(d) /\ cycle[p] \in Nat
    BY <2>1, FileInHand DEF DocPc
  <2>3. docs[d].seen \in Nat
    BY <1>0, <2>2, RowFields DEF Doc
  <2>4. \E status \in {"active", "stale", "error"}, seen \in Nat : SetStatus(d, status, seen)
    BY <1>2, <2>2, <2>3 DEF TouchDocSeen, MarkDocStale, MarkDocError
  <2> HIDE DEF d
  <2>5. PICK status \in {"active", "stale", "error"}, seen \in Nat : SetStatus(d, status, seen)
    BY <2>4
  <2>6. /\ docs' \in [Docs -> Doc \cup {NoDoc}]
        /\ \A e \in Docs : e # d => docs'[e] = docs[e]
        /\ docs'[d].status # "absent"
    BY <1>0, <2>2, <2>5, SetStatusRow
  <2> QED
    BY <2>6 DEF Present
<1>3. ASSUME NEW p \in Pods, UpsertDoc(p)
      PROVE  /\ docs' \in [Docs -> Doc \cup {NoDoc}]
             /\ \A d \in Docs : Present(d) => Present(d)'
  BY <1>3, UpsertRow DEF Present
<1>4. ASSUME NEW p \in Pods, MarkUnseenStale(p)
      PROVE  /\ docs' \in [Docs -> Doc \cup {NoDoc}]
             /\ \A d \in Docs : Present(d) => Present(d)'
  BY <1>0, <1>4, UnseenRows DEF Present
<1>5. Drive \/ Admin => UNCHANGED docs
  BY OutsideStep DEF Outside
<1>6. \A p \in Pods : Run(p) => \/ UNCHANGED docs
                                \/ TouchDocSeen(p) \/ MarkDocStale(p) \/ MarkDocError(p)
                                \/ UpsertDoc(p)
                                \/ MarkUnseenStale(p)
  BY DEF Run, processDoc, ReadCounter, WriteCounter, ListActiveGrantees, syncGrantee, walkFolder,
         GetDocByID, ExportMarkdown, CallFails, Abandon
<1> QED
  BY <1>1, <1>2, <1>3, <1>4, <1>5, <1>6 DEF Next

\* The Drive and the administration keep their types.
LEMMA OutsideTypes ==
    ASSUME TypeOK, Drive \/ Admin
    PROVE  TypeOK'
<1>1. /\ docs' = docs /\ counter' = counter /\ pc' = pc /\ cycle' = cycle
      /\ gtodo' = gtodo /\ stodo' = stodo /\ from' = from /\ ftodo' = ftodo
      /\ file' = file /\ had' = had /\ text' = text /\ calm' = {}
  BY OutsideStep DEF Outside, walkVars, docVars
<1>2. /\ clock' \in Nat
      /\ mtime' \in [Docs -> Nat]
      /\ place' \in [Docs -> SUBSET Sources]
      /\ readable' \subseteq Docs
      /\ pods' \subseteq Pods
      /\ active' \subseteq Grantees
      /\ sources' \subseteq Grantees \X Sources
      /\ allowed' \subseteq Grantees \X Sources
  <2>1. CASE \E d \in Docs : Edit(d)
    <3>1. PICK d \in Docs : Edit(d)
      BY <2>1
    <3>2. PICK t \in clock + 1 .. MaxTime : clock' = t /\ mtime' = [mtime EXCEPT ![d] = t]
      BY <3>1 DEF Edit
    <3>3. t \in Nat
      BY <3>2, TimeAssumption DEF TypeOK
    <3> QED
      BY <3>1, <3>2, <3>3 DEF TypeOK, Edit, adminVars
  <2>2. CASE \E d \in Docs, S \in SUBSET Sources : Move(d, S)
    BY <2>2 DEF TypeOK, Move, adminVars
  <2>3. CASE \E R \in SUBSET Docs : SetReadable(R)
    BY <2>3 DEF TypeOK, SetReadable, adminVars
  <2>4. CASE \E A \in SUBSET Grantees : SetGranteeStatus(A)
    BY <2>4 DEF TypeOK, SetGranteeStatus, driveVars
  <2>5. CASE \E g \in Grantees, s \in Sources : UpsertSource(g, s) \/ DeleteSource(g, s)
    BY <2>5 DEF TypeOK, UpsertSource, DeleteSource, driveVars
  <2> QED
    BY <2>1, <2>2, <2>3, <2>4, <2>5 DEF Drive, Admin
<1> QED
  BY <1>1, <1>2 DEF TypeOK

\* A cycle keeps its types, whatever fails in it.
LEMMA RunTypes ==
    ASSUME Base, NEW p \in Pods, Run(p)
    PROVE  TypeOK'
<1> DEFINE Pcs == DocPc \cup {"idle", "bump", "list", "walk", "ended"}
<1>0. TypeOK
  BY DEF Base
<1>1. docs' \in [Docs -> Doc \cup {NoDoc}]
  BY RowsStay DEF Next
<1>2. CASE ReadCounter(p)
  BY <1>0, <1>2 DEF ReadCounter, TypeOK, Goto, driveVars, adminVars, walkVars, docVars
<1>3. CASE WriteCounter(p)
  <2>1. counter' \in Nat /\ cycle' \in [Pods -> Nat]
    BY <1>0, <1>3 DEF WriteCounter, TypeOK
  <2> QED
    BY <1>0, <1>3, <2>1 DEF WriteCounter, TypeOK, Goto, driveVars, adminVars, walkVars, docVars
<1>4. CASE ListActiveGrantees(p)
  BY <1>0, <1>4 DEF ListActiveGrantees, TypeOK, Goto, driveVars, adminVars, docVars
<1>5. CASE syncGrantee(p)
  <2>1. /\ gtodo' \in [Pods -> SUBSET Grantees]
        /\ stodo' \in [Pods -> SUBSET (Grantees \X Sources)]
        /\ calm' \subseteq Pods
    BY <1>0, <1>5 DEF syncGrantee, TypeOK
  <2> QED
    BY <1>0, <1>5, <2>1 DEF syncGrantee, TypeOK, driveVars, adminVars, docVars
<1>6. CASE walkFolder(p)
  <2>1. PICK x \in stodo[p] :
          /\ stodo' = [stodo EXCEPT ![p] = @ \ {x}]
          /\ from' = [from EXCEPT ![p] = x]
          /\ \E F \in SUBSET Found(x[2]) : ftodo' = [ftodo EXCEPT ![p] = F]
          /\ calm' = calm \/ calm' = calm \ {p}
    BY <1>6 DEF walkFolder
  <2>2. \A s : Found(s) \subseteq Files
    BY <1>0 DEF Found, Files, TypeOK
  <2>3. /\ stodo' \in [Pods -> SUBSET (Grantees \X Sources)]
        /\ from' \in [Pods -> (Grantees \X Sources) \cup {NoPair}]
        /\ calm' \subseteq Pods
    BY <1>0, <2>1 DEF TypeOK
  <2>4. ftodo' \in [Pods -> SUBSET Files]
    BY <1>0, <2>1, <2>2 DEF TypeOK
  <2> QED
    BY <1>0, <1>6, <2>3, <2>4 DEF walkFolder, TypeOK, driveVars, adminVars, docVars
<1>7. CASE GetDocByID(p)
  <2>1. PICK x \in ftodo[p] :
          /\ ftodo' = [ftodo EXCEPT ![p] = @ \ {x}]
          /\ file' = [file EXCEPT ![p] = x]
          /\ had' = [had EXCEPT ![p] = Present(x[1])]
          /\ pc' = [pc EXCEPT ![p] = IF Unchanged(x[1], x[2]) THEN "touch" ELSE "export"]
    BY <1>7 DEF GetDocByID, Goto
  <2>2. /\ ftodo' \in [Pods -> SUBSET Files]
        /\ file' \in [Pods -> Files \cup {NoFile}]
    BY <1>0, <2>1 DEF TypeOK
  <2>3. pc' \in [Pods -> Pcs]
    BY <1>0, <2>1 DEF TypeOK, DocPc
  <2>4. Present(x[1]) \in BOOLEAN
    BY DEF Present
  <2>5. had' \in [Pods -> BOOLEAN]
    BY <1>0, <2>1, <2>4 DEF TypeOK
  <2> QED
    BY <1>0, <1>7, <2>2, <2>3, <2>5 DEF GetDocByID, TypeOK, driveVars, adminVars
<1>8. CASE ExportMarkdown(p)
  <2>1. pc[p] \in DocPc
    BY <1>8 DEF ExportMarkdown, DocPc
  <2>2. mtime[file[p][1]] \in Nat
    BY <2>1, FileInHand
  <2>3. /\ pc' \in [Pods -> Pcs]
        /\ file' \in [Pods -> Files \cup {NoFile}]
        /\ text' \in [Pods -> Nat]
        /\ calm' \subseteq Pods
    BY <1>0, <1>8, <2>2 DEF ExportMarkdown, Return, Goto, docVars, TypeOK, DocPc
  <2>4. had' \in [Pods -> BOOLEAN]
    BY <1>0, <1>8 DEF ExportMarkdown, Return, docVars, TypeOK
  <2> QED
    BY <1>0, <1>8, <2>3, <2>4 DEF ExportMarkdown, TypeOK, driveVars, adminVars, walkVars
<1>9. CASE TouchDocSeen(p) \/ MarkDocStale(p) \/ MarkDocError(p) \/ UpsertDoc(p) \/ CallFails(p)
  <2>1. Return(p) /\ (calm' = calm \/ calm' = calm \ {p})
    BY <1>9 DEF TouchDocSeen, MarkDocStale, MarkDocError, UpsertDoc, CallFails
  <2>2. UNCHANGED <<driveVars, adminVars, counter, cycle, walkVars>>
    BY <1>9 DEF TouchDocSeen, MarkDocStale, MarkDocError, UpsertDoc, CallFails
  <2> QED
    BY <1>0, <1>1, <2>1, <2>2, Returned DEF TypeOK, driveVars, adminVars, walkVars
<1>10. CASE MarkUnseenStale(p)
  BY <1>0, <1>1, <1>10 DEF MarkUnseenStale, Goto, TypeOK, driveVars, adminVars, walkVars, docVars
<1>11. CASE Abandon(p)
  <2>1. had' \in [Pods -> BOOLEAN]
    BY <1>0, <1>11 DEF Abandon, TypeOK
  <2>2. /\ pc' \in [Pods -> Pcs]
        /\ cycle' \in [Pods -> Nat]
        /\ gtodo' \in [Pods -> SUBSET Grantees]
        /\ stodo' \in [Pods -> SUBSET (Grantees \X Sources)]
        /\ from' \in [Pods -> (Grantees \X Sources) \cup {NoPair}]
        /\ ftodo' \in [Pods -> SUBSET Files]
        /\ file' \in [Pods -> Files \cup {NoFile}]
        /\ text' \in [Pods -> Nat]
        /\ calm' \subseteq Pods
    BY <1>0, <1>11 DEF Abandon, TypeOK
  <2> QED
    BY <1>0, <1>11, <2>1, <2>2 DEF Abandon, TypeOK, driveVars, adminVars
<1> QED
  BY <1>2, <1>3, <1>4, <1>5, <1>6, <1>7, <1>8, <1>9, <1>10, <1>11 DEF Run, processDoc

\* What a pod has in hand stays good while it waits: rows are never removed.
LEMMA SameInHand ==
    ASSUME Base, Next, NEW q \in Pods, Same(q)
    PROVE  InHand(q)'
<1>1. InHand(q)
  BY DEF Base
<1>2. \A d \in Docs : Present(d) => Present(d)'
  BY RowsStay
<1>3. /\ (pc[q] \in Starting => gtodo[q] = {} /\ stodo[q] = {} /\ ftodo[q] = {})'
      /\ (ftodo[q] # {} => from[q] \in Pairs)'
  BY <1>1 DEF InHand, Same, Pairs, Starting
<1>4. ASSUME pc'[q] \in DocPc
      PROVE  /\ (file[q] \in Files)'
             /\ (from[q] \in Pairs)'
             /\ (had[q] => Present(file[q][1]))'
             /\ (pc[q] \in {"touch", "mark_stale", "mark_error"} => Present(file[q][1]))'
  <2>1. pc[q] \in DocPc
    BY <1>4 DEF Same
  <2>2. file'[q] \in Files /\ from'[q] \in Pairs /\ file[q][1] \in Docs
    BY <1>1, <2>1, FileInHand DEF InHand, Same
  <2>3. /\ had[q] => Present(file[q][1])'
        /\ pc[q] \in {"touch", "mark_stale", "mark_error"} => Present(file[q][1])'
    BY <1>1, <1>2, <2>1, <2>2 DEF InHand, Same, Present
  <2> QED
    BY <2>2, <2>3 DEF Same, Pairs, Files, Present
<1> QED
  BY <1>3, <1>4 DEF InHand

\* What a pod has in hand after a step of its own.
LEMMA OwnInHand ==
    ASSUME Base, NEW p \in Pods, Run(p)
    PROVE  InHand(p)'
<1>0. TypeOK /\ InHand(p)
  BY DEF Base
<1>1. CASE ReadCounter(p) \/ WriteCounter(p) \/ ListActiveGrantees(p)
  <2>1. /\ pc'[p] \in {"bump", "list", "walk"} /\ stodo'[p] = {} /\ ftodo'[p] = {}
        /\ pc'[p] # "walk" => gtodo'[p] = {}
    BY <1>0, <1>1 DEF ReadCounter, WriteCounter, ListActiveGrantees, Goto, TypeOK, InHand,
                      Starting, walkVars
  <2> QED
    BY <2>1 DEF InHand, DocPc, Starting
<1>2. CASE syncGrantee(p)
  BY <1>0, <1>2 DEF syncGrantee, InHand, DocPc, Starting
<1>3. CASE walkFolder(p)
  <2>1. PICK x \in stodo[p] : from' = [from EXCEPT ![p] = x]
    BY <1>3 DEF walkFolder
  <2>2. from'[p] \in Pairs /\ pc'[p] = "walk"
    BY <1>0, <1>3, <2>1 DEF TypeOK, Pairs, walkFolder
  <2> QED
    BY <2>2 DEF InHand, DocPc, Starting, Pairs
<1>4. CASE GetDocByID(p)
  <2>1. PICK x \in ftodo[p] :
          /\ ftodo' = [ftodo EXCEPT ![p] = @ \ {x}]
          /\ file' = [file EXCEPT ![p] = x]
          /\ had' = [had EXCEPT ![p] = Present(x[1])]
          /\ pc' = [pc EXCEPT ![p] = IF Unchanged(x[1], x[2]) THEN "touch" ELSE "export"]
    BY <1>4 DEF GetDocByID, Goto
  <2>2. x \in Files /\ from[p] \in Pairs /\ from' = from /\ docs' = docs
    BY <1>0, <1>4, <2>1 DEF TypeOK, InHand, GetDocByID
  <2>3. file'[p] = x /\ ftodo'[p] = ftodo[p] \ {x}
    BY <1>0, <2>1 DEF TypeOK
  <2>4. had'[p] = Present(x[1])
    BY <1>0, <2>1 DEF TypeOK
  <2>5. pc'[p] = "export" \/ (pc'[p] = "touch" /\ Present(x[1]))
    BY <1>0, <2>1 DEF TypeOK, Unchanged
  <2> QED
    BY <2>2, <2>3, <2>4, <2>5 DEF InHand, Pairs, Starting, Present, Files
<1>5. CASE ExportMarkdown(p)
  <2>1. pc[p] \in DocPc /\ from' = from /\ ftodo' = ftodo /\ docs' = docs
    BY <1>5 DEF ExportMarkdown, DocPc, walkVars
  <2>2. CASE Return(p)
    BY <1>0, <2>1, <2>2, Returned DEF InHand, DocPc, Starting, Pairs
  <2>3. CASE UNCHANGED <<file, had>> /\ (Goto(p, "upsert") \/ (had[p] /\ (Goto(p, "mark_error") \/ Goto(p, "mark_stale"))))
    <3>1. /\ pc'[p] \in {"upsert", "mark_error", "mark_stale"}
          /\ pc'[p] # "upsert" => had[p]
      BY <1>0, <2>3 DEF Goto, TypeOK
    <3>2. /\ file[p] \in Files /\ from[p] \in Pairs
          /\ had[p] => Present(file[p][1])
      BY <1>0, <2>1 DEF InHand
    <3>3. /\ file' = file /\ had' = had
      BY <2>3
    <3>4. \A d : Present(d)' <=> Present(d)
      BY <2>1 DEF Present
    <3> QED
      BY <2>1, <3>1, <3>2, <3>3, <3>4 DEF InHand, Starting, Pairs, Files, Present
  <2> QED
    BY <1>5, <2>2, <2>3 DEF ExportMarkdown, docVars
<1>6. CASE TouchDocSeen(p) \/ MarkDocStale(p) \/ MarkDocError(p) \/ UpsertDoc(p) \/ CallFails(p)
  <2>1. Return(p) /\ UNCHANGED walkVars /\ pc[p] \in DocPc
    BY <1>6 DEF TouchDocSeen, MarkDocStale, MarkDocError, UpsertDoc, CallFails, DocPc
  <2> QED
    BY <1>0, <2>1, Returned DEF InHand, DocPc, Starting, Pairs, walkVars
<1>7. CASE MarkUnseenStale(p)
  <2>1. pc'[p] = "ended" /\ gtodo'[p] = {} /\ stodo'[p] = {} /\ ftodo'[p] = {}
    BY <1>0, <1>7 DEF MarkUnseenStale, Walked, Goto, TypeOK, walkVars
  <2> QED
    BY <2>1 DEF InHand, DocPc
<1>8. CASE Abandon(p)
  <2>1. pc'[p] = "idle" /\ gtodo'[p] = {} /\ stodo'[p] = {} /\ ftodo'[p] = {}
    BY <1>0, <1>8 DEF Abandon, TypeOK
  <2> QED
    BY <2>1 DEF InHand, DocPc
<1> QED
  BY <1>1, <1>2, <1>3, <1>4, <1>5, <1>6, <1>7, <1>8 DEF Run, processDoc

\* Every pod after a step from outside the pods.
LEMMA OutsideSame ==
    ASSUME Drive \/ Admin
    PROVE  \A q \in Pods : Same(q)
BY OutsideStep DEF Outside, Same, walkVars, docVars

\* Base is an invariant.
LEMMA BaseStep == Base /\ [Next]_vars => Base'
<1> SUFFICES ASSUME Base, [Next]_vars PROVE Base'
  OBVIOUS
<1>1. CASE Drive \/ Admin
  BY <1>1, OutsideTypes, OutsideSame, SameInHand DEF Base, Next
<1>2. ASSUME NEW p \in Pods, Run(p) PROVE Base'
  <2>1. Next
    BY <1>2 DEF Next
  <2>2. \A q \in Pods : q # p => InHand(q)'
    BY <1>2, <2>1, OthersSame, SameInHand DEF Base
  <2> QED
    BY <1>2, <2>2, RunTypes, OwnInHand DEF Base
<1>3. CASE UNCHANGED vars
  <2>1. TypeOK'
    BY <1>3 DEF Base, TypeOK, vars, driveVars, adminVars, walkVars, docVars
  <2>2. \A q \in Pods : InHand(q)'
    BY <1>3 DEF Base, InHand, Present, Pairs, Files, vars, driveVars, adminVars, walkVars, docVars
  <2> QED
    BY <2>1, <2>2 DEF Base
<1> QED
  BY <1>1, <1>2, <1>3 DEF Next

\* Base holds at the start.
LEMMA BaseInit == Init => Base
<1> SUFFICES ASSUME Init PROVE Base
  OBVIOUS
<1>1. TypeOK
  BY DEF Init, TypeOK, DocPc
<1>2. \A p \in Pods : InHand(p)
  BY DEF Init, InHand, DocPc
<1> QED
  BY <1>1, <1>2 DEF Base

\* Every state the pods, the administrator and Drive can reach has its types: rows,
\* work lists and what a pod has in hand.
THEOREM TypeCorrect == Spec => []TypeOK
<1>1. Base => TypeOK
  BY DEF Base
<1> QED
  BY <1>1, BaseInit, BaseStep, PTL DEF Spec

(***************************************************************************)
(* Only whitelisted sources.                                               *)
(***************************************************************************)

\* The row says the same of where it came from and which version it holds.
SameOrigin(d) ==
    /\ Present(d)' <=> Present(d)
    /\ docs'[d].grantee = docs[d].grantee /\ docs'[d].source = docs[d].source
    /\ docs'[d].listed = docs[d].listed /\ docs'[d].content = docs[d].content

\* Only UpsertDoc changes where a row came from and which version it holds.
LEMMA RowStep ==
    ASSUME Base, NEW p \in Pods, Run(p), NEW d \in Docs
    PROVE  SameOrigin(d) \/ (UpsertDoc(p) /\ d = file[p][1])
<1>0. TypeOK
  BY DEF Base
<1>1. CASE UNCHANGED docs
  BY <1>1 DEF SameOrigin, Present
<1>2. CASE TouchDocSeen(p) \/ MarkDocStale(p) \/ MarkDocError(p)
  <2> DEFINE e == file[p][1]
  <2>1. pc[p] \in {"touch", "mark_stale", "mark_error"}
    BY <1>2 DEF TouchDocSeen, MarkDocStale, MarkDocError
  <2>2. e \in Docs /\ Present(e) /\ cycle[p] \in Nat
    BY <2>1, FileInHand DEF DocPc
  <2>3. docs[e].seen \in Nat
    BY <1>0, <2>2, RowFields DEF Doc
  <2>4. \E status \in {"active", "stale", "error"}, seen \in Nat : SetStatus(e, status, seen)
    BY <1>2, <2>2, <2>3 DEF TouchDocSeen, MarkDocStale, MarkDocError
  <2> HIDE DEF e
  <2>5. PICK status \in {"active", "stale", "error"}, seen \in Nat : SetStatus(e, status, seen)
    BY <2>4
  <2>6. CASE d # e
    <3>1. docs'[d] = docs[d]
      BY <1>0, <2>2, <2>5, <2>6, SetStatusRow
    <3> QED
      BY <3>1 DEF SameOrigin, Present
  <2>7. CASE d = e
    <3>1. /\ docs'[e] = [status |-> status, grantee |-> docs[e].grantee,
                         source |-> docs[e].source, listed |-> docs[e].listed,
                         content |-> docs[e].content, seen |-> seen]
          /\ docs'[e].status # "absent"
      BY <1>0, <2>2, <2>5, SetStatusRow
    <3>2. (Present(d) <=> Present(d)') /\ d = e
      BY <2>2, <2>7, <3>1 DEF Present
    <3>3. /\ docs'[e].grantee = docs[e].grantee /\ docs'[e].source = docs[e].source
          /\ docs'[e].listed = docs[e].listed /\ docs'[e].content = docs[e].content
      BY <3>1
    <3> QED
      BY <2>7, <3>2, <3>3 DEF SameOrigin
  <2> QED
    BY <2>6, <2>7
<1>3. CASE UpsertDoc(p)
  BY <1>3, UpsertRow DEF SameOrigin, Present
<1>4. CASE MarkUnseenStale(p)
  <2>1. CASE docs'[d] = docs[d]
    BY <2>1 DEF SameOrigin, Present
  <2>2. CASE /\ docs[d].status = "active"
             /\ docs'[d] = [status |-> "stale", grantee |-> docs[d].grantee,
                            source |-> docs[d].source, listed |-> docs[d].listed,
                            content |-> docs[d].content, seen |-> docs[d].seen]
             /\ docs'[d].status = "stale"
    <3>1. Present(d) /\ Present(d)'
      BY <2>2 DEF Present
    <3>2. /\ docs'[d].grantee = docs[d].grantee /\ docs'[d].source = docs[d].source
          /\ docs'[d].listed = docs[d].listed /\ docs'[d].content = docs[d].content
      BY <2>2
    <3> QED
      BY <3>1, <3>2 DEF SameOrigin
  <2> QED
    BY <1>0, <1>4, <2>1, <2>2, UnseenRows
<1> QED
  BY <1>1, <1>2, <1>3, <1>4
  DEF Run, processDoc, ReadCounter, WriteCounter, ListActiveGrantees, syncGrantee, walkFolder,
      GetDocByID, ExportMarkdown, CallFails, Abandon

\* A pod has a pair in hand only if it was once authorized.
LEMMA GrantedPods ==
    ASSUME Base, Granted, NEW p \in Pods, Run(p), NEW q \in Pods
    PROVE  /\ (stodo[q] \subseteq allowed)'
           /\ (from[q] \in allowed \cup {NoPair})'
<1>0. TypeOK /\ stodo[q] \subseteq allowed /\ from[q] \in allowed \cup {NoPair}
  BY DEF Base, Granted
<1>1. allowed' = allowed
  BY DEF Run, processDoc, ReadCounter, WriteCounter, ListActiveGrantees, syncGrantee, walkFolder,
         GetDocByID, TouchDocSeen, ExportMarkdown, MarkDocStale, MarkDocError, UpsertDoc,
         CallFails, MarkUnseenStale, Abandon, adminVars
<1>2. CASE q # p
  BY <1>0, <1>1, <1>2, OthersSame DEF Same
<1>3. CASE q = p /\ UNCHANGED <<stodo, from>>
  BY <1>0, <1>1, <1>3
<1>4. CASE q = p /\ syncGrantee(p)
  <2>1. sources \subseteq allowed /\ from' = from
    BY <1>4 DEF Granted, syncGrantee
  <2>2. stodo'[p] \subseteq stodo[p] \cup sources
    BY <1>0, <1>4 DEF syncGrantee, TypeOK
  <2> QED
    BY <1>0, <1>1, <1>4, <2>1, <2>2
<1>5. CASE q = p /\ walkFolder(p)
  <2>1. PICK x \in stodo[p] :
          /\ stodo' = [stodo EXCEPT ![p] = @ \ {x}]
          /\ from' = [from EXCEPT ![p] = x]
    BY <1>5 DEF walkFolder
  <2> QED
    BY <1>0, <1>1, <1>5, <2>1 DEF TypeOK
<1>6. CASE q = p /\ Abandon(p)
  BY <1>0, <1>1, <1>6 DEF Abandon, TypeOK
<1> QED
  BY <1>2, <1>3, <1>4, <1>5, <1>6
  DEF Run, processDoc, ReadCounter, WriteCounter, ListActiveGrantees, GetDocByID, TouchDocSeen,
      ExportMarkdown, MarkDocStale, MarkDocError, UpsertDoc, CallFails, MarkUnseenStale, walkVars

\* A row is written with the pair its document was found under.
LEMMA GrantedRows ==
    ASSUME Base, Granted, NEW p \in Pods, Run(p)
    PROVE  RowsComeFromGrants'
<1>1. allowed' = allowed
  BY DEF Run, processDoc, ReadCounter, WriteCounter, ListActiveGrantees, syncGrantee, walkFolder,
         GetDocByID, TouchDocSeen, ExportMarkdown, MarkDocStale, MarkDocError, UpsertDoc,
         CallFails, MarkUnseenStale, Abandon, adminVars
<1> SUFFICES ASSUME NEW d \in Docs, Present(d)'
             PROVE  <<docs'[d].grantee, docs'[d].source>> \in allowed
  BY <1>1 DEF RowsComeFromGrants
<1>2. CASE SameOrigin(d)
  BY <1>2 DEF SameOrigin, Granted, RowsComeFromGrants
<1>3. CASE UpsertDoc(p) /\ d = file[p][1]
  <2>1. pc[p] \in DocPc
    BY <1>3 DEF UpsertDoc, DocPc
  <2>2. from[p] \in Pairs /\ from[p] \in allowed \cup {NoPair}
    BY <2>1 DEF Base, InHand, Granted
  <2>3. NoPair \notin Pairs
    BY NoneAssumption DEF NoPair, Pairs
  <2>4. from[p] \in allowed /\ from[p] = <<from[p][1], from[p][2]>>
    BY <2>2, <2>3 DEF Pairs
  <2>5. docs'[d] = [status |-> "active", grantee |-> from[p][1], source |-> from[p][2],
                    listed |-> file[p][2], content |-> text[p], seen |-> cycle[p]]
    BY <1>3, UpsertRow
  <2> QED
    BY <2>4, <2>5
<1> QED
  BY <1>2, <1>3, RowStep

\* Granted is an invariant.
LEMMA GrantedStep == Base /\ Granted /\ [Next]_vars => Granted'
<1> SUFFICES ASSUME Base, Granted, [Next]_vars PROVE Granted'
  OBVIOUS
<1>1. CASE Drive \/ Admin
  <2>1. sources' \subseteq allowed' /\ allowed \subseteq allowed'
    BY <1>1 DEF Drive, Admin, Edit, Move, SetReadable, SetGranteeStatus, UpsertSource,
                DeleteSource, adminVars, Granted
  <2>2. docs' = docs /\ stodo' = stodo /\ from' = from
    BY <1>1, OutsideStep DEF Outside, walkVars
  <2> QED
    BY <2>1, <2>2 DEF Granted, RowsComeFromGrants, Present
<1>2. ASSUME NEW p \in Pods, Run(p) PROVE Granted'
  <2>1. sources' = sources /\ allowed' = allowed
    BY <1>2
    DEF Run, processDoc, ReadCounter, WriteCounter, ListActiveGrantees, syncGrantee, walkFolder,
        GetDocByID, TouchDocSeen, ExportMarkdown, MarkDocStale, MarkDocError, UpsertDoc,
        CallFails, MarkUnseenStale, Abandon, adminVars
  <2>2. \A q \in Pods : /\ (stodo[q] \subseteq allowed)'
                        /\ (from[q] \in allowed \cup {NoPair})'
    BY <1>2, GrantedPods
  <2> QED
    BY <1>2, <2>1, <2>2, GrantedRows DEF Granted
<1>3. CASE UNCHANGED vars
  BY <1>3 DEF Granted, RowsComeFromGrants, Present, vars, adminVars, walkVars
<1> QED
  BY <1>1, <1>2, <1>3 DEF Next

\* "Only whitelisted sources are ever fetched": whatever is authorized, revoked and
\* moved while pods work from what they have read, a row names a grantee and a source
\* that stood together in grantee_sources.
THEOREM RowsAreGranted == Spec => []RowsComeFromGrants
<1>1. Init => Granted
  BY DEF Init, Granted, RowsComeFromGrants, Present, NoDoc
<1>2. Granted => RowsComeFromGrants
  BY DEF Granted
<1> QED
  BY <1>1, <1>2, BaseInit, BaseStep, GrantedStep, PTL DEF Spec

(***************************************************************************)
(* Change detection.                                                       *)
(***************************************************************************)

\* Seconds never run ahead of the time they are taken from.
LEMMA SecondsBehind ==
    ASSUME NEW t \in Nat
    PROVE  ToSeconds(t) \in Nat /\ ToSeconds(t) <= t
<1>1. TicksPerSecond \in Nat /\ TicksPerSecond > 0
  BY TimeAssumption
<1>2. t % TicksPerSecond \in 0 .. TicksPerSecond - 1
  BY <1>1
<1>3. t % TicksPerSecond <= t
  BY <1>1
<1> QED
  BY <1>2, <1>3 DEF ToSeconds

\* A row that looks unchanged was listed, and so exported, at the document's last edit.
LEMMA UnchangedIsCurrent ==
    ASSUME TypeOK, NEW d \in Docs, TimelyRow(d), Unchanged(d, mtime[d])
    PROVE  docs[d].content = mtime[d]
<1>1. docs[d] \in Doc
  BY RowFields DEF Unchanged
<1>2. docs[d].listed \in Nat /\ docs[d].content \in Nat /\ mtime[d] \in Nat
  BY <1>1 DEF Doc, TypeOK
<1>3. ToSeconds(docs[d].listed) <= docs[d].listed /\ ToSeconds(docs[d].listed) = mtime[d]
  BY <1>2, SecondsBehind DEF Unchanged
<1>4. docs[d].listed <= docs[d].content /\ docs[d].content <= mtime[d]
  BY DEF TimelyRow, Unchanged
<1> QED
  BY <1>2, <1>3, <1>4

\* Times only rise.
LEMMA TimesRise ==
    ASSUME TypeOK, \A d \in Docs : mtime[d] <= clock, Next
    PROVE  /\ \A d \in Docs : mtime[d] <= mtime'[d] /\ mtime'[d] <= clock'
           /\ \A d \in Docs : mtime[d] \in Nat /\ mtime'[d] \in Nat
<1>1. CASE \E d \in Docs : Edit(d)
  <2>1. PICK d \in Docs : Edit(d)
    BY <1>1
  <2>2. PICK t \in clock + 1 .. MaxTime : clock' = t /\ mtime' = [mtime EXCEPT ![d] = t]
    BY <2>1 DEF Edit
  <2>3. t \in Nat /\ t > clock /\ clock \in Nat
    BY <2>2, TimeAssumption DEF TypeOK
  <2> QED
    BY <2>2, <2>3 DEF TypeOK
<1>2. CASE UNCHANGED <<clock, mtime>>
  BY <1>2 DEF TypeOK
<1> QED
  BY <1>1, <1>2
  DEF Next, Drive, Admin, Move, SetReadable, SetGranteeStatus, UpsertSource, DeleteSource,
      Run, processDoc, ReadCounter, WriteCounter, ListActiveGrantees, syncGrantee, walkFolder,
      GetDocByID, TouchDocSeen, ExportMarkdown, MarkDocStale, MarkDocError, UpsertDoc,
      CallFails, MarkUnseenStale, Abandon, driveVars

\* A pod that waits while time goes on.
LEMMA SameTimely ==
    ASSUME Base, Timely, Next, NEW q \in Pods, Same(q)
    PROVE  TimelyPod(q)'
<1>1. /\ \A d \in Docs : mtime[d] <= mtime'[d]
      /\ \A d \in Docs : mtime[d] \in Nat /\ mtime'[d] \in Nat
  BY TimesRise DEF Base, Timely
<1>2. ASSUME NEW f \in ftodo'[q] PROVE f[2] <= mtime'[f[1]]
  <2>1. f \in ftodo[q] /\ f \in Files
    BY <1>2 DEF Same, Base, TypeOK
  <2>2. f[1] \in Docs /\ f[2] \in Nat /\ f[2] <= mtime[f[1]]
    BY <2>1 DEF Files, Timely, TimelyPod
  <2> QED
    BY <1>1, <2>2
<1>3. ASSUME pc'[q] \in DocPc
      PROVE  /\ file'[q][2] <= mtime'[file'[q][1]]
             /\ pc'[q] = "upsert" => file'[q][2] <= text'[q] /\ text'[q] <= mtime'[file'[q][1]]
  <2>1. pc[q] \in DocPc
    BY <1>3 DEF Same
  <2>2. file[q][1] \in Docs /\ file[q][2] \in Nat /\ text[q] \in Nat
    BY <2>1, FileInHand
  <2>3. TimelyPod(q)
    BY DEF Timely
  <2> QED
    BY <1>1, <2>1, <2>2, <2>3 DEF TimelyPod, Same
<1> QED
  BY <1>2, <1>3 DEF TimelyPod, DocPc

\* A pod lists what Drive says now, and exports what Drive holds now.
LEMMA OwnTimely ==
    ASSUME Base, Timely, NEW p \in Pods, Run(p)
    PROVE  TimelyPod(p)'
<1>0. TypeOK /\ TimelyPod(p)
  BY DEF Base, Timely
<1>1. mtime' = mtime
  BY DEF Run, processDoc, ReadCounter, WriteCounter, ListActiveGrantees, syncGrantee, walkFolder,
         GetDocByID, TouchDocSeen, ExportMarkdown, MarkDocStale, MarkDocError, UpsertDoc,
         CallFails, MarkUnseenStale, Abandon, driveVars
<1>2. CASE pc'[p] \notin DocPc /\ ftodo'[p] \subseteq ftodo[p]
  BY <1>0, <1>1, <1>2 DEF TimelyPod, DocPc
<1>3. CASE walkFolder(p)
  <2>1. PICK x \in stodo[p] : \E F \in SUBSET Found(x[2]) : ftodo' = [ftodo EXCEPT ![p] = F]
    BY <1>3 DEF walkFolder
  <2>2. ftodo'[p] \subseteq Found(x[2])
    BY <1>0, <2>1 DEF TypeOK
  <2>3. \A f \in ftodo'[p] : f[2] <= mtime'[f[1]]
    <3> SUFFICES ASSUME NEW f \in ftodo'[p] PROVE f[2] <= mtime'[f[1]]
      OBVIOUS
    <3>1. PICK d \in Docs : f = <<d, mtime[d]>>
      BY <2>2 DEF Found
    <3> QED
      BY <1>0, <1>1, <3>1 DEF TypeOK
  <2>4. pc'[p] = "walk"
    BY <1>3 DEF walkFolder
  <2> QED
    BY <2>3, <2>4 DEF TimelyPod, DocPc
<1>4. CASE GetDocByID(p)
  <2>1. PICK x \in ftodo[p] :
          /\ ftodo' = [ftodo EXCEPT ![p] = @ \ {x}]
          /\ file' = [file EXCEPT ![p] = x]
          /\ pc' = [pc EXCEPT ![p] = IF Unchanged(x[1], x[2]) THEN "touch" ELSE "export"]
    BY <1>4 DEF GetDocByID, Goto
  <2>2. /\ ftodo'[p] \subseteq ftodo[p] /\ file'[p] = x
        /\ pc'[p] \in {"touch", "export"} /\ x[2] <= mtime[x[1]]
    BY <1>0, <2>1 DEF TypeOK, TimelyPod
  <2> QED
    BY <1>0, <1>1, <2>2 DEF TimelyPod
<1>5. CASE ExportMarkdown(p)
  <2>1. /\ pc[p] \in DocPc /\ ftodo' = ftodo
    BY <1>5 DEF ExportMarkdown, DocPc, walkVars
  <2>2. CASE Return(p)
    BY <1>0, <1>1, <2>1, <2>2, Returned DEF TimelyPod, DocPc
  <2>3. CASE UNCHANGED file /\ (\/ Goto(p, "mark_error")
                                \/ Goto(p, "mark_stale")
                                \/ /\ Goto(p, "upsert")
                                   /\ text' = [text EXCEPT ![p] = mtime[file[p][1]]])
    <3>1. file[p][2] <= mtime[file[p][1]] /\ file' = file /\ mtime[file[p][1]] \in Nat
      BY <1>0, <2>1, <2>3, FileInHand DEF TimelyPod
    <3>2. pc'[p] = "upsert" => text'[p] = mtime[file[p][1]]
      BY <1>0, <2>3 DEF Goto, TypeOK
    <3> QED
      BY <1>0, <1>1, <2>1, <3>1, <3>2 DEF TimelyPod
  <2> QED
    BY <1>5, <2>2, <2>3 DEF ExportMarkdown, docVars
<1>6. CASE TouchDocSeen(p) \/ MarkDocStale(p) \/ MarkDocError(p) \/ UpsertDoc(p) \/ CallFails(p)
  <2>1. Return(p) /\ UNCHANGED walkVars
    BY <1>6 DEF TouchDocSeen, MarkDocStale, MarkDocError, UpsertDoc, CallFails
  <2> QED
    BY <1>0, <1>2, <2>1, Returned DEF DocPc, walkVars
<1>7. CASE syncGrantee(p)
  BY <1>2, <1>7 DEF syncGrantee, DocPc
<1>8. CASE ReadCounter(p) \/ WriteCounter(p) \/ ListActiveGrantees(p) \/ MarkUnseenStale(p)
  <2>1. pc'[p] \in {"bump", "list", "walk", "ended"} /\ ftodo'[p] = ftodo[p]
    BY <1>0, <1>8 DEF ReadCounter, WriteCounter, ListActiveGrantees, MarkUnseenStale, Goto, TypeOK, walkVars
  <2> QED
    BY <1>2, <2>1 DEF DocPc
<1>9. CASE Abandon(p)
  <2>1. pc'[p] = "idle" /\ ftodo'[p] = {}
    BY <1>0, <1>9 DEF Abandon, TypeOK
  <2> QED
    BY <1>2, <2>1 DEF DocPc
<1> QED
  BY <1>3, <1>4, <1>5, <1>6, <1>7, <1>8, <1>9 DEF Run, processDoc

\* Timely is an invariant.
LEMMA TimelyStep == Base /\ Timely /\ [Next]_vars => Timely'
<1> SUFFICES ASSUME Base, Timely, [Next]_vars PROVE Timely'
  OBVIOUS
<1>1. CASE UNCHANGED vars
  BY <1>1 DEF Timely, TimelyRow, TimelyPod, Present, vars, driveVars, walkVars, docVars
<1>2. CASE Next
  <2>1. /\ \A d \in Docs : mtime[d] <= mtime'[d] /\ mtime'[d] <= clock'
        /\ \A d \in Docs : mtime[d] \in Nat /\ mtime'[d] \in Nat
    BY <1>2, TimesRise DEF Base, Timely
  <2>2. \A q \in Pods : TimelyPod(q)'
    <3>1. CASE Drive \/ Admin
      BY <1>2, <3>1, OutsideSame, SameTimely
    <3>2. ASSUME NEW p \in Pods, Run(p) PROVE \A q \in Pods : TimelyPod(q)'
      BY <1>2, <3>2, OwnTimely, OthersSame, SameTimely DEF Base
    <3> QED
      BY <1>2, <3>1, <3>2 DEF Next
  <2>3. \A d \in Docs : TimelyRow(d)'
    <3> SUFFICES ASSUME NEW d \in Docs PROVE TimelyRow(d)'
      OBVIOUS
    <3>1. CASE SameOrigin(d)
      <4> SUFFICES ASSUME Present(d)
                   PROVE  docs'[d].listed <= docs'[d].content /\ docs'[d].content <= mtime'[d]
        BY <3>1 DEF TimelyRow, SameOrigin
      <4>1. docs[d].content \in Nat /\ docs[d].listed <= docs[d].content
            /\ docs[d].content <= mtime[d]
        BY RowFields DEF Base, Doc, Timely, TimelyRow
      <4> QED
        BY <2>1, <3>1, <4>1 DEF SameOrigin
    <3>2. ASSUME NEW p \in Pods, UpsertDoc(p), d = file[p][1] PROVE TimelyRow(d)'
      <4>1. docs'[d].listed = file[p][2] /\ docs'[d].content = text[p] /\ mtime' = mtime
        BY <3>2, UpsertRow DEF UpsertDoc, driveVars
      <4>2. TimelyPod(p) /\ pc[p] = "upsert"
        BY <3>2 DEF Timely, UpsertDoc
      <4> QED
        BY <3>2, <4>1, <4>2 DEF TimelyRow, TimelyPod
    <3>3. CASE Drive \/ Admin
      BY <3>1, <3>3, OutsideStep DEF Outside, SameOrigin, Present
    <3> QED
      BY <1>2, <3>1, <3>2, <3>3, RowStep DEF Next
  <2> QED
    BY <2>1, <2>2, <2>3 DEF Timely
<1> QED
  BY <1>1, <1>2

\* Timely holds at the start.
LEMMA TimelyInit == Init => Timely
BY DEF Init, Timely, TimelyRow, TimelyPod, Present, NoDoc, DocPc

\* Change detection never hides an edit, however edits, listings, exports and upserts
\* of any number of pods interleave and whatever part of a second the table drops: a
\* row that the next look takes for unchanged holds the document's current version.
THEOREM NoEditIsHidden == Spec => []UnchangedMeansCurrent
<1>1. Base /\ Timely => UnchangedMeansCurrent
  BY UnchangedIsCurrent DEF Base, Timely, UnchangedMeansCurrent
<1> QED
  BY <1>1, BaseInit, BaseStep, TimelyInit, TimelyStep, PTL DEF Spec

(***************************************************************************)
(* Undisturbed cycles.                                                     *)
(***************************************************************************)

\* A pod changes neither Drive nor what the administrator keeps.
LEMMA RunLeaves ==
    ASSUME NEW p \in Pods, Run(p)
    PROVE  /\ mtime' = mtime /\ place' = place
           /\ sources' = sources /\ active' = active /\ pods' = pods
BY DEF Run, processDoc, ReadCounter, WriteCounter, ListActiveGrantees, syncGrantee, walkFolder,
       GetDocByID, TouchDocSeen, ExportMarkdown, MarkDocStale, MarkDocError, UpsertDoc,
       CallFails, MarkUnseenStale, Abandon, driveVars, adminVars

\* TouchDocSeen: the row is active and seen in this cycle, its version is the same.
LEMMA TouchedRow ==
    ASSUME Base, NEW p \in Pods, TouchDocSeen(p)
    PROVE  /\ file[p][1] \in Docs
           /\ \A e \in Docs : e # file[p][1] => docs'[e] = docs[e]
           /\ docs'[file[p][1]].status = "active"
           /\ docs'[file[p][1]].content = docs[file[p][1]].content
           /\ docs'[file[p][1]].seen = cycle[p]
<1> DEFINE d == file[p][1]
<1>1. pc[p] \in DocPc /\ pc[p] = "touch" /\ SetStatus(d, "active", cycle[p])
  BY DEF TouchDocSeen, DocPc
<1>2. d \in Docs /\ Present(d) /\ cycle[p] \in Nat
  BY <1>1, FileInHand
<1> HIDE DEF d
<1>3. /\ \A e \in Docs : e # d => docs'[e] = docs[e]
      /\ docs'[d] = [status |-> "active", grantee |-> docs[d].grantee,
                     source |-> docs[d].source, listed |-> docs[d].listed,
                     content |-> docs[d].content, seen |-> cycle[p]]
  BY <1>1, <1>2, SetStatusRow DEF Base
<1>4. /\ docs'[d].status = "active" /\ docs'[d].content = docs[d].content
      /\ docs'[d].seen = cycle[p]
  BY <1>3
<1> QED
  BY <1>2, <1>3, <1>4 DEF d

\* A row is seen in the cycle it was seen in before, or, the one a pod has in hand, in
\* that of the pod.
LEMMA SeenStep ==
    ASSUME Base, NEW p \in Pods, Run(p), NEW d \in Docs
    PROVE  \/ docs'[d].seen = docs[d].seen
           \/ docs'[d].seen = cycle[p] /\ pc[p] \in DocPc /\ d = file[p][1]
<1>0. TypeOK
  BY DEF Base
<1>1. CASE UNCHANGED docs
  BY <1>1
<1>2. CASE TouchDocSeen(p)
  <2>1. pc[p] \in DocPc
    BY <1>2 DEF TouchDocSeen, DocPc
  <2> QED
    BY <1>2, <2>1, TouchedRow
<1>3. CASE MarkDocStale(p) \/ MarkDocError(p)
  <2> DEFINE e == file[p][1]
  <2>1. pc[p] \in {"mark_stale", "mark_error"}
    BY <1>3 DEF MarkDocStale, MarkDocError
  <2>2. e \in Docs /\ Present(e)
    BY <2>1, FileInHand DEF DocPc
  <2>3. docs[e].seen \in Nat
    BY <1>0, <2>2, RowFields DEF Doc
  <2>4. \E status \in {"stale", "error"} : SetStatus(e, status, docs[e].seen)
    BY <1>3 DEF MarkDocStale, MarkDocError
  <2> HIDE DEF e
  <2>5. PICK status \in {"stale", "error"} : SetStatus(e, status, docs[e].seen)
    BY <2>4
  <2>6. /\ \A c \in Docs : c # e => docs'[c] = docs[c]
        /\ docs'[e] = [status |-> status, grantee |-> docs[e].grantee,
                       source |-> docs[e].source, listed |-> docs[e].listed,
                       content |-> docs[e].content, seen |-> docs[e].seen]
    BY <1>0, <2>2, <2>3, <2>5, SetStatusRow
  <2>7. docs'[e].seen = docs[e].seen
    BY <2>6
  <2> QED
    BY <2>6, <2>7
<1>4. CASE UpsertDoc(p)
  <2>1. CASE d # file[p][1]
    <3>1. docs'[d] = docs[d]
      BY <1>4, <2>1, UpsertRow
    <3> QED
      BY <3>1
  <2>2. CASE d = file[p][1]
    <3>1. docs'[d] = [status |-> "active", grantee |-> from[p][1], source |-> from[p][2],
                      listed |-> file[p][2], content |-> text[p], seen |-> cycle[p]]
      BY <1>4, <2>2, UpsertRow
    <3>2. pc[p] \in DocPc
      BY <1>4 DEF UpsertDoc, DocPc
    <3> QED
      BY <2>2, <3>1, <3>2
  <2> QED
    BY <2>1, <2>2
<1>5. CASE MarkUnseenStale(p)
  <2>1. \/ docs'[d] = docs[d]
        \/ docs'[d] = [status |-> "stale", grantee |-> docs[d].grantee,
                       source |-> docs[d].source, listed |-> docs[d].listed,
                       content |-> docs[d].content, seen |-> docs[d].seen]
    BY <1>0, <1>5, UnseenRows
  <2> QED
    BY <2>1
<1> QED
  BY <1>1, <1>2, <1>3, <1>4, <1>5
  DEF Run, processDoc, ReadCounter, WriteCounter, ListActiveGrantees, syncGrantee, walkFolder,
      GetDocByID, ExportMarkdown, CallFails, Abandon

\* Every row's cycle is a number.
LEMMA SeenNat ==
    ASSUME TypeOK, NEW d \in Docs
    PROVE  docs[d].seen \in Nat
<1>1. CASE Present(d)
  BY <1>1, RowFields DEF Doc
<1>2. CASE ~Present(d)
  BY <1>2, NoRowFields DEF NoDoc
<1> QED
  BY <1>1, <1>2

\* After a step of a pod no other pod's cycle is undisturbed.
LEMMA CalmIsAlone ==
    ASSUME Base, Calm, NEW p \in Pods, Run(p), NEW q \in calm'
    PROVE  /\ q = p
           /\ ~ReadCounter(p) => p \in calm /\ CalmPod(p)
           /\ \A r \in Pods : r # p => pc'[r] \in Between
<1>0. TypeOK
  BY DEF Base
<1>1. \A r \in Pods : r # p => pc'[r] = pc[r]
  BY <1>0, OthersSame DEF Same
<1>2. CASE ReadCounter(p)
  <2>1. q = p /\ \A r \in Pods \ {p} : pc[r] \in {"idle", "ended"}
    BY <1>2 DEF ReadCounter
  <2> QED
    BY <1>1, <1>2, <2>1 DEF Between
<1>3. CASE ~ReadCounter(p)
  <2>1. pc[p] \notin Between
    BY <1>3 DEF Run, processDoc, WriteCounter, ListActiveGrantees, syncGrantee, walkFolder,
         GetDocByID, TouchDocSeen, ExportMarkdown, MarkDocStale, MarkDocError, UpsertDoc,
         CallFails, MarkUnseenStale, Abandon, Walked, Between, DocPc
  <2>2. q \in calm
    BY <1>3 DEF Run, processDoc, WriteCounter, ListActiveGrantees, syncGrantee, walkFolder,
         GetDocByID, TouchDocSeen, ExportMarkdown, MarkDocStale, MarkDocError, UpsertDoc,
         CallFails, MarkUnseenStale, Abandon
  <2>3. CalmPod(q)
    BY <2>2 DEF Calm
  <2>4. q = p
    BY <2>1, <2>3 DEF CalmPod
  <2> QED
    BY <1>1, <1>3, <2>2, <2>3, <2>4 DEF CalmPod
<1> QED
  BY <1>2, <1>3

\* The start of a cycle: nothing is listed, in hand or promised yet.
LEMMA CalmStart ==
    ASSUME Base, Calm, NEW p \in Pods, p \in calm',
           ReadCounter(p) \/ WriteCounter(p) \/ ListActiveGrantees(p)
    PROVE  CalmPod(p)'
<1>0. TypeOK /\ InHand(p)
  BY DEF Base
<1>1. Run(p)
  BY DEF Run
<1>2. \A r \in Pods : r # p => pc'[r] \in Between
  BY <1>1, CalmIsAlone
<1>3. ftodo'[p] = {}
  BY <1>0 DEF ReadCounter, WriteCounter, ListActiveGrantees, InHand, Starting, walkVars
<1>4. CASE ReadCounter(p)
  <2>1. pc'[p] = "bump"
    BY <1>0, <1>4 DEF ReadCounter, Goto, TypeOK
  <2> QED
    BY <1>2, <1>3, <2>1 DEF CalmPod, DocPc
<1>5. CASE WriteCounter(p)
  <2>1. pc'[p] = "list"
    BY <1>0, <1>5 DEF WriteCounter, Goto, TypeOK
  <2> QED
    BY <1>2, <1>3, <2>1 DEF CalmPod, DocPc
<1>6. CASE ListActiveGrantees(p)
  <2>1. pc[p] = "list" /\ pc'[p] = "walk" /\ gtodo'[p] = active
    BY <1>0, <1>6 DEF ListActiveGrantees, Goto, TypeOK
  <2>2. cycle' = cycle /\ active' = active
    BY <1>6 DEF ListActiveGrantees, adminVars
  <2>3. \A d \in Docs, x \in sources' : Reach(x, d)' => OnItsWay(p, x, d)'
    BY <2>1, <2>2 DEF Reach, OnItsWay
  <2> QED
    BY <1>2, <1>3, <2>1, <2>3 DEF CalmPod, DocPc
<1> QED
  BY <1>4, <1>5, <1>6

\* syncGrantee: all sources of the grantee are taken up.
LEMMA CalmGrantee ==
    ASSUME Base, Calm, NEW p \in Pods, p \in calm', syncGrantee(p)
    PROVE  CalmPod(p)'
<1>0. TypeOK /\ InHand(p)
  BY DEF Base
<1>1. Run(p) /\ ~ReadCounter(p)
  BY DEF Run, syncGrantee, ReadCounter
<1>2. /\ \A r \in Pods : r # p => pc'[r] \in Between
      /\ CalmPod(p)
  BY <1>1, CalmIsAlone
<1>3. PICK g \in gtodo[p] : /\ gtodo' = [gtodo EXCEPT ![p] = @ \ {g}]
                            /\ stodo' = [stodo EXCEPT ![p] = {x \in sources : x[1] = g}]
  BY DEF syncGrantee
<1>4. gtodo'[p] = gtodo[p] \ {g} /\ stodo'[p] = {x \in sources : x[1] = g}
  BY <1>0, <1>3 DEF TypeOK
<1>5. /\ pc[p] = "walk" /\ stodo[p] = {} /\ ftodo[p] = {}
      /\ pc' = pc /\ ftodo' = ftodo /\ cycle' = cycle /\ docs' = docs
      /\ mtime' = mtime /\ place' = place /\ sources' = sources /\ active' = active
  BY DEF syncGrantee, driveVars, adminVars
<1>6. ASSUME NEW d \in Docs, NEW x \in sources, Reach(x, d) PROVE OnItsWay(p, x, d)'
  <2>1. x[1] \in gtodo[p] \/ Served(p, d)
    BY <1>2, <1>5, <1>6 DEF CalmPod, OnItsWay, DocPc
  <2> QED
    BY <1>4, <1>5, <2>1 DEF OnItsWay, Served
<1>7. \A d \in Docs, x \in sources' : Reach(x, d)' => OnItsWay(p, x, d)'
  BY <1>5, <1>6 DEF Reach
<1> QED
  BY <1>2, <1>5, <1>7 DEF CalmPod, DocPc

\* walkFolder: all documents under the source are listed, as they are now.
LEMMA CalmFolder ==
    ASSUME Base, Calm, NEW p \in Pods, p \in calm', walkFolder(p)
    PROVE  CalmPod(p)'
<1>0. TypeOK /\ InHand(p)
  BY DEF Base
<1>1. Run(p) /\ ~ReadCounter(p)
  BY DEF Run, walkFolder, ReadCounter
<1>2. /\ \A r \in Pods : r # p => pc'[r] \in Between
      /\ CalmPod(p)
  BY <1>1, CalmIsAlone
<1>3. PICK y \in stodo[p] : /\ stodo' = [stodo EXCEPT ![p] = @ \ {y}]
                            /\ ftodo' = [ftodo EXCEPT ![p] = Found(y[2])]
  BY DEF walkFolder
<1>4. stodo'[p] = stodo[p] \ {y} /\ ftodo'[p] = Found(y[2])
  BY <1>0, <1>3 DEF TypeOK
<1>5. /\ pc[p] = "walk" /\ ftodo[p] = {}
      /\ pc' = pc /\ gtodo' = gtodo /\ cycle' = cycle /\ docs' = docs
      /\ mtime' = mtime /\ place' = place /\ sources' = sources /\ active' = active
  BY DEF walkFolder, driveVars, adminVars
<1>6. ASSUME NEW d \in Docs, NEW x \in sources, Reach(x, d) PROVE OnItsWay(p, x, d)'
  <2>1. x[1] \in gtodo[p] \/ x \in stodo[p] \/ Served(p, d)
    BY <1>2, <1>5, <1>6 DEF CalmPod, OnItsWay, DocPc
  <2>2. x = y => <<d, mtime[d]>> \in Found(y[2])
    BY <1>6 DEF Reach, Found
  <2> QED
    BY <1>4, <1>5, <2>1, <2>2 DEF OnItsWay, Served
<1>7. \A d \in Docs, x \in sources' : Reach(x, d)' => OnItsWay(p, x, d)'
  BY <1>5, <1>6 DEF Reach
<1>8. \A f \in ftodo'[p] : f[2] = mtime'[f[1]]
  BY <1>4, <1>5 DEF Found
<1> QED
  BY <1>2, <1>5, <1>7, <1>8 DEF CalmPod, DocPc

\* GetDocByID: the document is taken in hand; if it looks unchanged, it is current.
LEMMA CalmLookup ==
    ASSUME Base, Timely, Calm, NEW p \in Pods, p \in calm', GetDocByID(p)
    PROVE  CalmPod(p)'
<1>0. TypeOK /\ InHand(p)
  BY DEF Base
<1>1. Run(p) /\ ~ReadCounter(p)
  BY DEF Run, processDoc, GetDocByID, ReadCounter
<1>2. /\ \A r \in Pods : r # p => pc'[r] \in Between
      /\ CalmPod(p)
  BY <1>1, CalmIsAlone
<1>3. PICK y \in ftodo[p] :
        /\ ftodo' = [ftodo EXCEPT ![p] = @ \ {y}]
        /\ file' = [file EXCEPT ![p] = y]
        /\ pc' = [pc EXCEPT ![p] = IF Unchanged(y[1], y[2]) THEN "touch" ELSE "export"]
  BY DEF GetDocByID, Goto
<1>4. /\ ftodo'[p] = ftodo[p] \ {y} /\ file'[p] = y
      /\ pc'[p] = IF Unchanged(y[1], y[2]) THEN "touch" ELSE "export"
  BY <1>0, <1>3 DEF TypeOK
<1>5. /\ pc[p] = "walk"
      /\ gtodo' = gtodo /\ stodo' = stodo /\ cycle' = cycle
      /\ docs' = docs /\ mtime' = mtime /\ place' = place /\ sources' = sources
      /\ active' = active
  BY DEF GetDocByID, driveVars, adminVars
<1>6. y[1] \in Docs /\ y[2] = mtime[y[1]]
  <2>1. y \in Files
    BY <1>0 DEF TypeOK
  <2> QED
    BY <1>2, <2>1 DEF CalmPod, Files
<1>7. pc'[p] = "touch" => docs[y[1]].content = mtime[y[1]]
  BY <1>0, <1>4, <1>6, UnchangedIsCurrent DEF Timely
<1>8. ASSUME NEW d \in Docs, NEW x \in sources, Reach(x, d) PROVE OnItsWay(p, x, d)'
  <2>1. x[1] \in gtodo[p] \/ x \in stodo[p] \/ <<d, mtime[d]>> \in ftodo[p] \/ Served(p, d)
    BY <1>2, <1>5, <1>8 DEF CalmPod, OnItsWay, DocPc
  <2>2. pc'[p] \in DocPc
    BY <1>4 DEF DocPc
  <2> QED
    BY <1>4, <1>5, <2>1, <2>2 DEF OnItsWay, Served
<1>9. \A d \in Docs, x \in sources' : Reach(x, d)' => OnItsWay(p, x, d)'
  BY <1>5, <1>8 DEF Reach
<1>10. /\ \A f \in ftodo'[p] : f[2] = mtime'[f[1]]
       /\ file'[p][2] = mtime'[file'[p][1]]
       /\ pc'[p] = "touch" => docs'[file'[p][1]].content = mtime'[file'[p][1]]
  BY <1>2, <1>4, <1>5, <1>6, <1>7 DEF CalmPod
<1>11. pc'[p] \in {"touch", "export"}
  BY <1>4
<1> QED
  BY <1>2, <1>9, <1>10, <1>11 DEF CalmPod

\* ExportMarkdown: what it returns is the listed version.
LEMMA CalmExport ==
    ASSUME Base, Calm, NEW p \in Pods, p \in calm', ExportMarkdown(p)
    PROVE  CalmPod(p)'
<1>0. TypeOK
  BY DEF Base
<1>1. Run(p) /\ ~ReadCounter(p)
  BY DEF Run, processDoc, ExportMarkdown, ReadCounter
<1>2. /\ \A r \in Pods : r # p => pc'[r] \in Between
      /\ CalmPod(p)
  BY <1>1, CalmIsAlone
<1>3. /\ pc[p] = "export" /\ pc'[p] = "upsert" /\ text'[p] = mtime[file[p][1]] /\ file' = file
  BY <1>0 DEF ExportMarkdown, Goto, TypeOK
<1>4. /\ gtodo' = gtodo /\ stodo' = stodo /\ ftodo' = ftodo
      /\ cycle' = cycle
      /\ docs' = docs /\ mtime' = mtime /\ place' = place /\ sources' = sources
      /\ active' = active
  BY DEF ExportMarkdown, driveVars, adminVars, walkVars
<1>5. pc[p] \in DocPc /\ pc'[p] \in DocPc
  BY <1>3 DEF DocPc
<1>6. \A d \in Docs, x \in sources' : Reach(x, d)' => OnItsWay(p, x, d)'
  BY <1>2, <1>3, <1>4, <1>5 DEF CalmPod, Reach, OnItsWay, Served
<1>7. /\ \A f \in ftodo'[p] : f[2] = mtime'[f[1]]
      /\ file'[p][2] = mtime'[file'[p][1]]
      /\ text'[p] = mtime'[file'[p][1]]
  BY <1>2, <1>3, <1>4, <1>5 DEF CalmPod
<1> QED
  BY <1>2, <1>3, <1>6, <1>7 DEF CalmPod

\* TouchDocSeen and UpsertDoc: the document in hand is served.
LEMMA CalmWrite ==
    ASSUME Base, Calm, NEW p \in Pods, p \in calm', TouchDocSeen(p) \/ UpsertDoc(p)
    PROVE  CalmPod(p)'
<1> DEFINE e == file[p][1]
<1>0. TypeOK
  BY DEF Base
<1>1. Run(p) /\ ~ReadCounter(p)
  BY DEF Run, processDoc, TouchDocSeen, UpsertDoc, ReadCounter
<1>2. /\ \A r \in Pods : r # p => pc'[r] \in Between
      /\ CalmPod(p)
  BY <1>1, CalmIsAlone
<1>3. /\ pc[p] \in {"touch", "upsert"} /\ Return(p)
      /\ gtodo' = gtodo /\ stodo' = stodo /\ ftodo' = ftodo
      /\ cycle' = cycle
      /\ mtime' = mtime /\ place' = place /\ sources' = sources /\ active' = active
  BY DEF TouchDocSeen, UpsertDoc, driveVars, adminVars, walkVars
<1>4. pc'[p] = "walk" /\ pc[p] \in DocPc
  BY <1>0, <1>3, Returned DEF DocPc
<1>5. \A d \in Docs : d # e => docs'[d] = docs[d]
  BY TouchedRow, UpsertRow
<1>6. /\ e \in Docs /\ docs'[e].status = "active"
      /\ docs'[e].content = mtime'[e] /\ docs'[e].seen = cycle'[p]
  <2>1. CASE TouchDocSeen(p)
    <3>1. docs[e].content = mtime[e]
      BY <1>2, <2>1 DEF CalmPod, TouchDocSeen
    <3> QED
      BY <1>3, <2>1, <3>1, TouchedRow
  <2>2. CASE UpsertDoc(p)
    <3>1. text[p] = mtime[e]
      BY <1>2, <2>2 DEF CalmPod, UpsertDoc
    <3>2. /\ e \in Docs
          /\ docs'[e] = [status |-> "active", grantee |-> from[p][1], source |-> from[p][2],
                         listed |-> file[p][2], content |-> text[p], seen |-> cycle[p]]
      BY <2>2, UpsertRow
    <3>3. /\ docs'[e].status = "active" /\ docs'[e].seen = cycle'[p]
          /\ docs'[e].content = mtime'[e]
      BY <1>3, <3>1, <3>2
    <3> QED
      BY <3>2, <3>3
  <2> QED
    BY <2>1, <2>2
<1>7. ASSUME NEW d \in Docs, NEW x \in sources, Reach(x, d) PROVE OnItsWay(p, x, d)'
  <2>1. OnItsWay(p, x, d)
    BY <1>2, <1>4, <1>7 DEF CalmPod
  <2>2. CASE d = e
    BY <1>6, <2>2 DEF OnItsWay, Served
  <2>3. CASE d # e
    BY <1>3, <1>5, <2>1, <2>3 DEF OnItsWay, Served
  <2> QED
    BY <2>2, <2>3
<1>8. \A d \in Docs, x \in sources' : Reach(x, d)' => OnItsWay(p, x, d)'
  BY <1>3, <1>7 DEF Reach
<1>9. \A f \in ftodo'[p] : f[2] = mtime'[f[1]]
  BY <1>2, <1>3, <1>4 DEF CalmPod
<1> QED
  BY <1>2, <1>4, <1>8, <1>9 DEF CalmPod, DocPc

\* MarkUnseenStale: everything within reach has been served, and what was seen in this
\* cycle is not marked.
LEMMA CalmEnd ==
    ASSUME Base, Calm, NEW p \in Pods, p \in calm', MarkUnseenStale(p)
    PROVE  CalmPod(p)'
<1>0. TypeOK /\ InHand(p)
  BY DEF Base
<1>1. Run(p) /\ ~ReadCounter(p)
  BY DEF Run, MarkUnseenStale, ReadCounter, Walked
<1>2. /\ \A r \in Pods : r # p => pc'[r] \in Between
      /\ CalmPod(p)
  BY <1>1, CalmIsAlone
<1>3. /\ pc[p] = "walk" /\ gtodo[p] = {} /\ stodo[p] = {} /\ ftodo[p] = {}
      /\ pc'[p] = "ended" /\ ftodo' = ftodo
      /\ cycle' = cycle
      /\ mtime' = mtime /\ place' = place /\ sources' = sources /\ active' = active
  BY <1>0 DEF MarkUnseenStale, Walked, Goto, TypeOK, driveVars, adminVars, walkVars
<1>4. cycle[p] \in Nat
  BY <1>0 DEF TypeOK
<1>5. ASSUME NEW d \in Docs, NEW x \in sources, Reach(x, d) PROVE Served(p, d)'
  <2>1. Served(p, d)
    BY <1>2, <1>3, <1>5 DEF CalmPod, OnItsWay, DocPc
  <2>2. ~(docs[d].seen < cycle[p])
    BY <1>4, <2>1 DEF Served
  <2>3. docs'[d] = docs[d]
    BY <1>0, <2>2, UnseenRows
  <2> QED
    BY <1>3, <2>1, <2>3 DEF Served
<1>6. \A d \in Docs, x \in sources' : Reach(x, d)' => Served(p, d)'
  BY <1>3, <1>5 DEF Reach
<1> QED
  BY <1>2, <1>3, <1>6 DEF CalmPod, DocPc

\* Calm is an invariant.
LEMMA CalmStep == Base /\ Timely /\ Calm /\ [Next]_vars => Calm'
<1> SUFFICES ASSUME Base, Timely, Calm, [Next]_vars PROVE Calm'
  OBVIOUS
<1>1. CASE Drive \/ Admin
  BY <1>1, OutsideStep DEF Outside, Calm
<1>2. ASSUME NEW p \in Pods, Run(p) PROVE Calm'
  <2>1. p \in calm' => CalmPod(p)'
    <3> SUFFICES ASSUME p \in calm' PROVE CalmPod(p)'
      OBVIOUS
    <3>1. CASE MarkDocStale(p) \/ MarkDocError(p)
      <4>1. ~ReadCounter(p) /\ pc[p] \in {"mark_stale", "mark_error"}
        BY <3>1 DEF MarkDocStale, MarkDocError, ReadCounter
      <4> QED
        BY <1>2, <4>1, CalmIsAlone DEF CalmPod
    <3>2. ~CallFails(p) /\ ~Abandon(p)
      BY DEF CallFails, Abandon
    <3> QED
      BY <1>2, <3>1, <3>2, CalmStart, CalmGrantee, CalmFolder, CalmLookup, CalmExport, CalmWrite,
         CalmEnd DEF Run, processDoc
  <2>2. \A q \in calm' : q = p
    BY <1>2, CalmIsAlone
  <2> QED
    BY <2>1, <2>2 DEF Calm
<1>3. CASE UNCHANGED vars
  BY <1>3 DEF Calm, CalmPod, Reach, OnItsWay, Served, vars, driveVars, adminVars, walkVars,
              docVars
<1> QED
  BY <1>1, <1>2, <1>3 DEF Next

\* A cycle that runs alone, without an error and with nothing changing under it, leaves
\* every document within reach active, current and seen, whatever any number of pods
\* did before, however their cycles overlapped and whatever numbers they drew.
THEOREM CalmCycleServes == Spec => []CalmCycleServesDrive
<1>1. Init => Calm
  BY DEF Init, Calm
<1>2. Calm => CalmCycleServesDrive
  BY DEF Calm, CalmPod, CalmCycleServesDrive, Reachable, Reach, Served
<1> QED
  BY <1>1, <1>2, BaseInit, BaseStep, TimelyInit, TimelyStep, CalmStep, PTL DEF Spec

(***************************************************************************)
(* One pod.                                                                *)
(***************************************************************************)

\* In a deployment of one pod no other pod takes a step.
LEMMA OnlyOne ==
    ASSUME NEW p \in Pods, pods = {p}, Alone(p), NEW q \in Pods, Run(q)
    PROVE  q = p
<1>1. q # p => pc[q] = "idle"
  BY DEF Alone
<1>2. pc[q] = "idle" => q \in pods
  BY DEF Run, processDoc, ReadCounter, WriteCounter, ListActiveGrantees, syncGrantee, walkFolder,
         GetDocByID, TouchDocSeen, ExportMarkdown, MarkDocStale, MarkDocError, UpsertDoc,
         CallFails, MarkUnseenStale, Abandon, Walked, DocPc
<1> QED
  BY <1>1, <1>2

\* The counter of a pod that is alone only rises, and with it the number of its cycle.
LEMMA CounterRises ==
    ASSUME Base, NEW p \in Pods, Alone(p), Run(p)
    PROVE  /\ counter \in Nat /\ counter' \in Nat /\ counter <= counter'
           /\ pc'[p] # "idle" => cycle'[p] = counter'
           /\ pc[p] = "bump" /\ pc'[p] # "idle" => counter < counter'
           /\ pc[p] \notin {"idle", "ended", "bump"} /\ pc'[p] # "idle" => cycle'[p] = cycle[p]
<1>0. TypeOK /\ counter \in Nat /\ cycle[p] \in Nat
  BY DEF Base, TypeOK
<1>1. CASE ReadCounter(p)
  BY <1>0, <1>1 DEF ReadCounter, TypeOK
<1>2. CASE WriteCounter(p)
  <2>1. cycle[p] = counter /\ pc[p] = "bump"
    BY <1>2 DEF Alone, WriteCounter
  <2>2. cycle'[p] = cycle[p] + 1 /\ counter' = cycle[p] + 1
    BY <1>0, <1>2 DEF WriteCounter, TypeOK
  <2> QED
    BY <1>0, <2>1, <2>2
<1>3. CASE Abandon(p)
  BY <1>0, <1>3 DEF Abandon, TypeOK
<1>4. CASE UNCHANGED <<counter, cycle>> /\ pc[p] \notin {"idle", "bump"}
  BY <1>0, <1>4 DEF Alone
<1> QED
  BY <1>1, <1>2, <1>3, <1>4
  DEF Run, processDoc, ListActiveGrantees, syncGrantee, walkFolder, GetDocByID, TouchDocSeen,
      ExportMarkdown, MarkDocStale, MarkDocError, UpsertDoc, CallFails, MarkUnseenStale, Walked,
      DocPc

\* No row is ahead of the counter.
LEMMA SeenBehind ==
    ASSUME Base, NEW p \in Pods, Alone(p), Run(p), NEW d \in Docs
    PROVE  docs'[d].seen <= counter'
<1>1. docs[d].seen \in Nat /\ docs[d].seen <= counter
  BY SeenNat DEF Base, Alone
<1>2. docs'[d].seen = docs[d].seen \/ docs'[d].seen = counter
  <2>1. pc[p] \in DocPc => cycle[p] = counter
    BY DEF Alone, DocPc
  <2> QED
    BY <2>1, SeenStep
<1>3. counter \in Nat /\ counter' \in Nat /\ counter <= counter'
  BY CounterRises
<1> QED
  BY <1>1, <1>2, <1>3

\* What is within reach of an undisturbed pod stays so.
LEMMA ReachStays ==
    ASSUME NEW p \in Pods, Run(p)
    PROVE  \A d : Reachable(d)' <=> Reachable(d)
BY RunLeaves DEF Reachable

\* What the pod has seen in its cycle is within reach, after a step.
LEMMA SeenReachable ==
    ASSUME Base, NEW p \in Pods, Alone(p), Run(p), p \in calm, Sees(p),
           pc'[p] \notin {"idle", "bump"}, NEW d \in Docs, docs'[d].seen = cycle'[p]
    PROVE  Reachable(d)'
<1>1. pc[p] \notin {"idle", "ended"}
  <2>1. TypeOK
    BY DEF Base
  <2> QED
    BY <2>1 DEF Run, processDoc, ReadCounter, WriteCounter, ListActiveGrantees, syncGrantee,
         walkFolder, GetDocByID, TouchDocSeen, ExportMarkdown, MarkDocStale, MarkDocError,
         UpsertDoc, CallFails, MarkUnseenStale, Abandon, Walked, DocPc, Goto, TypeOK
<1>2. CASE pc[p] = "bump"
  <2>1. counter \in Nat /\ counter' \in Nat /\ counter < counter' /\ cycle'[p] = counter'
    BY <1>2, CounterRises
  <2>2. docs'[d].seen = docs[d].seen /\ docs[d].seen \in Nat /\ docs[d].seen <= counter
    BY <1>2, SeenStep, SeenNat DEF Base, Alone, DocPc
  <2> QED
    BY <2>1, <2>2
<1>3. CASE pc[p] # "bump"
  <2>1. cycle'[p] = cycle[p]
    BY <1>1, <1>3, CounterRises
  <2>2. CASE docs'[d].seen = docs[d].seen
    BY <1>1, <1>3, <2>1, <2>2, ReachStays DEF Sees
  <2>3. CASE pc[p] \in DocPc /\ d = file[p][1]
    BY <2>3, ReachStays DEF Sees
  <2> QED
    BY <2>2, <2>3, SeenStep
<1> QED
  BY <1>2, <1>3

\* The start of the cycle of a pod that is alone: nothing is seen in it yet.
LEMMA SeesStart ==
    ASSUME Base, NEW p \in Pods, Alone(p), p \in calm',
           ReadCounter(p) \/ WriteCounter(p) \/ ListActiveGrantees(p)
    PROVE  Sees(p)'
<1>0. TypeOK /\ InHand(p) /\ Run(p)
  BY DEF Base, Run
<1>1. /\ pc[p] \in Starting /\ stodo' = stodo /\ ftodo' = ftodo /\ active' = active
      /\ pc'[p] \in {"bump", "list", "walk"}
      /\ gtodo'[p] = gtodo[p] \/ gtodo'[p] = active
  BY <1>0 DEF ReadCounter, WriteCounter, ListActiveGrantees, Goto, TypeOK, Starting, walkVars,
              adminVars
<1>2. gtodo'[p] \subseteq active' /\ stodo'[p] = {} /\ ftodo'[p] = {}
  BY <1>0, <1>1 DEF InHand
<1>3. pc'[p] # "bump" => p \in calm
  BY <1>0 DEF ReadCounter, WriteCounter, ListActiveGrantees, Goto, TypeOK
<1>4. pc'[p] # "bump" => \A d \in Docs : docs'[d].seen = cycle'[p] => Reachable(d)'
  BY <1>0, <1>1, <1>3, SeenReachable DEF Alone
<1> QED
  BY <1>1, <1>2, <1>4 DEF Sees, DocPc

\* The walk of a pod that is alone: the sources of active grantees, and what is found
\* under them.
LEMMA SeesWalk ==
    ASSUME Base, NEW p \in Pods, Sees(p), p \in calm', syncGrantee(p) \/ walkFolder(p)
    PROVE  /\ gtodo'[p] \subseteq active
           /\ \A x \in stodo'[p] : x \in sources /\ x[1] \in active
           /\ \A f \in ftodo'[p] : Reachable(f[1])
           /\ pc'[p] = "walk"
<1>0. TypeOK
  BY DEF Base
<1>1. CASE syncGrantee(p)
  <2>1. PICK g \in gtodo[p] : /\ gtodo' = [gtodo EXCEPT ![p] = @ \ {g}]
                              /\ stodo' = [stodo EXCEPT ![p] = {x \in sources : x[1] = g}]
    BY <1>1 DEF syncGrantee
  <2>2. gtodo'[p] = gtodo[p] \ {g} /\ stodo'[p] = {x \in sources : x[1] = g} /\ g \in active
    BY <1>0, <2>1 DEF TypeOK, Sees
  <2>3. ftodo' = ftodo /\ pc'[p] = "walk"
    BY <1>1 DEF syncGrantee
  <2> QED
    BY <2>2, <2>3 DEF Sees
<1>2. CASE walkFolder(p)
  <2>1. PICK y \in stodo[p] : /\ stodo' = [stodo EXCEPT ![p] = @ \ {y}]
                              /\ ftodo' = [ftodo EXCEPT ![p] = Found(y[2])]
    BY <1>2 DEF walkFolder
  <2>2. stodo'[p] = stodo[p] \ {y} /\ ftodo'[p] = Found(y[2])
    BY <1>0, <2>1 DEF TypeOK
  <2>3. gtodo' = gtodo /\ pc'[p] = "walk"
    BY <1>2 DEF walkFolder
  <2>4. y \in sources /\ y[1] \in active
    BY DEF Sees
  <2>5. \A f \in Found(y[2]) : y[2] \in place[f[1]]
    BY DEF Found
  <2> QED
    BY <2>2, <2>3, <2>4, <2>5 DEF Sees, Reachable
<1> QED
  BY <1>1, <1>2

\* processDoc of a pod that is alone: what it takes in hand is within reach.
LEMMA SeesDoc ==
    ASSUME Base, NEW p \in Pods, Sees(p), processDoc(p)
    PROVE  /\ gtodo'[p] = gtodo[p] /\ stodo'[p] = stodo[p]
           /\ \A f \in ftodo'[p] : Reachable(f[1])
           /\ pc'[p] \in DocPc => Reachable(file'[p][1])
           /\ pc'[p] \in DocPc \cup {"walk"}
<1>0. TypeOK
  BY DEF Base
<1>1. CASE GetDocByID(p)
  <2>1. PICK y \in ftodo[p] :
          /\ ftodo' = [ftodo EXCEPT ![p] = @ \ {y}]
          /\ file' = [file EXCEPT ![p] = y]
          /\ pc' = [pc EXCEPT ![p] = IF Unchanged(y[1], y[2]) THEN "touch" ELSE "export"]
    BY <1>1 DEF GetDocByID, Goto
  <2>2. /\ ftodo'[p] = ftodo[p] \ {y} /\ file'[p] = y
        /\ pc'[p] \in {"touch", "export"}
    BY <1>0, <2>1 DEF TypeOK
  <2>3. gtodo' = gtodo /\ stodo' = stodo
    BY <1>1 DEF GetDocByID
  <2> QED
    BY <2>2, <2>3 DEF Sees, DocPc
<1>2. CASE ExportMarkdown(p)
  <2>1. pc[p] \in DocPc /\ gtodo' = gtodo /\ stodo' = stodo /\ ftodo' = ftodo
    BY <1>2 DEF ExportMarkdown, DocPc, walkVars
  <2>2. CASE Return(p)
    BY <1>0, <2>1, <2>2, Returned DEF Sees, DocPc
  <2>3. CASE file' = file /\ pc'[p] \in DocPc
    BY <2>1, <2>3 DEF Sees
  <2>4. Return(p) \/ (file' = file /\ pc'[p] \in DocPc)
    BY <1>0, <1>2 DEF ExportMarkdown, Goto, docVars, TypeOK, DocPc
  <2> QED
    BY <2>2, <2>3, <2>4
<1>3. CASE TouchDocSeen(p) \/ MarkDocStale(p) \/ MarkDocError(p) \/ UpsertDoc(p) \/ CallFails(p)
  <2>1. Return(p) /\ gtodo' = gtodo /\ stodo' = stodo /\ ftodo' = ftodo
    BY <1>3 DEF TouchDocSeen, MarkDocStale, MarkDocError, UpsertDoc, CallFails, walkVars
  <2> QED
    BY <1>0, <2>1, Returned DEF Sees, DocPc
<1> QED
  BY <1>1, <1>2, <1>3 DEF processDoc

\* MarkUnseenStale of a pod that is alone: no row has a number above its cycle's, so
\* what stays active has been seen in it.
LEMMA SeesEnd ==
    ASSUME Base, NEW p \in Pods, Alone(p), MarkUnseenStale(p), NEW d \in Docs, Markable(d)'
    PROVE  docs'[d].seen = cycle'[p]
<1>0. TypeOK /\ Run(p)
  BY DEF Base, Run
<1>1. /\ pc[p] = "walk" /\ cycle' = cycle /\ cycle[p] = counter /\ cycle[p] \in Nat
      /\ active' = active /\ sources' = sources
  BY <1>0 DEF MarkUnseenStale, Walked, Alone, TypeOK, adminVars
<1>2. docs'[d].status = "active"
  BY DEF Markable
<1>3. docs'[d] = docs[d] /\ ~(Markable(d) /\ docs[d].seen < cycle[p])
  BY <1>0, <1>2, UnseenRows
<1>4. Markable(d)
  BY <1>1, <1>3 DEF Markable
<1>5. docs[d].seen \in Nat /\ docs[d].seen <= counter
  BY <1>0, SeenNat DEF Alone
<1> QED
  BY <1>1, <1>3, <1>4, <1>5

\* An undisturbed pod that is alone goes on seeing only what is within reach.
LEMMA SeesStep ==
    ASSUME Base, NEW p \in Pods, Alone(p), Run(p), p \in calm'
    PROVE  Sees(p)'
<1>0. TypeOK
  BY DEF Base
<1>1. CASE ReadCounter(p) \/ WriteCounter(p) \/ ListActiveGrantees(p)
  BY <1>1, SeesStart
<1>2. CASE ~(ReadCounter(p) \/ WriteCounter(p) \/ ListActiveGrantees(p))
  <2>1. ~Abandon(p)
    BY DEF Abandon
  <2>2. p \in calm /\ Sees(p)
    BY <1>2, <2>1 DEF Run, processDoc, syncGrantee, walkFolder, GetDocByID, TouchDocSeen,
         ExportMarkdown, MarkDocStale, MarkDocError, UpsertDoc, CallFails, MarkUnseenStale, Alone
  <2>3. active' = active /\ sources' = sources /\ \A d : Reachable(d)' <=> Reachable(d)
    BY RunLeaves, ReachStays
  <2>4. pc'[p] \notin {"idle", "bump"} => \A d \in Docs : docs'[d].seen = cycle'[p] => Reachable(d)'
    BY <2>2, SeenReachable
  <2>5. CASE syncGrantee(p) \/ walkFolder(p)
    <3>1. /\ gtodo'[p] \subseteq active'
          /\ \A x \in stodo'[p] : x \in sources' /\ x[1] \in active'
          /\ \A f \in ftodo'[p] : Reachable(f[1])
          /\ pc'[p] = "walk"
      BY <2>2, <2>3, <2>5, SeesWalk
    <3>2. \A f \in ftodo'[p] : Reachable(f[1])'
      BY <2>3, <3>1
    <3> QED
      BY <2>4, <3>1, <3>2 DEF Sees, DocPc
  <2>6. CASE processDoc(p)
    <3>1. /\ gtodo'[p] = gtodo[p] /\ stodo'[p] = stodo[p]
          /\ \A f \in ftodo'[p] : Reachable(f[1])
          /\ pc'[p] \in DocPc => Reachable(file'[p][1])
          /\ pc'[p] \in DocPc \cup {"walk"}
      BY <2>2, <2>6, SeesDoc
    <3>2. /\ \A f \in ftodo'[p] : Reachable(f[1])'
          /\ \A e : e = file'[p][1] /\ pc'[p] \in DocPc => Reachable(e)'
      BY <2>3, <3>1
    <3>3. /\ gtodo'[p] \subseteq active'
          /\ \A x \in stodo'[p] : x \in sources' /\ x[1] \in active'
      BY <2>2, <2>3, <3>1 DEF Sees
    <3> QED
      BY <2>4, <3>1, <3>2, <3>3 DEF Sees, DocPc, Reachable
  <2>7. CASE MarkUnseenStale(p)
    <3>1. /\ gtodo'[p] = {} /\ stodo'[p] = {} /\ ftodo'[p] = {} /\ pc'[p] = "ended"
      BY <1>0, <2>7 DEF MarkUnseenStale, Walked, Goto, TypeOK, walkVars
    <3>2. \A d \in Docs : Markable(d)' => docs'[d].seen = cycle'[p]
      BY <2>7, SeesEnd
    <3> QED
      BY <2>4, <3>1, <3>2 DEF Sees, DocPc
  <2> QED
    BY <1>2, <2>1, <2>5, <2>6, <2>7 DEF Run
<1> QED
  BY <1>1, <1>2

\* Lone is an invariant.
LEMMA LoneStep == Base /\ Lone /\ [Next]_vars => Lone'
<1> SUFFICES ASSUME Base, Lone, [Next]_vars, NEW p \in Pods, pods' = {p} PROVE Alone(p)'
  BY DEF Lone
<1>1. pods' = pods
  BY RunLeaves DEF Next, vars, Drive, Admin, Edit, Move, SetReadable, SetGranteeStatus,
     UpsertSource, DeleteSource, adminVars
<1>2. Alone(p)
  BY <1>1 DEF Lone
<1>3. CASE Drive \/ Admin
  BY <1>2, <1>3, OutsideStep DEF Outside, Alone
<1>4. ASSUME NEW q \in Pods, Run(q) PROVE Alone(p)'
  <2>1. Run(p)
    BY <1>1, <1>2, <1>4, OnlyOne
  <2>2. \A r \in Pods : r # p => pc'[r] = "idle"
    BY <1>2, <2>1, OthersSame DEF Same, Base, Alone
  <2>3. pc'[p] # "idle" => cycle'[p] = counter'
    BY <1>2, <2>1, CounterRises
  <2>4. \A d \in Docs : docs'[d].seen <= counter'
    BY <1>2, <2>1, SeenBehind
  <2>5. p \in calm' => Sees(p)'
    BY <1>2, <2>1, SeesStep
  <2> QED
    BY <2>2, <2>3, <2>4, <2>5 DEF Alone
<1>5. CASE UNCHANGED vars
  BY <1>2, <1>5 DEF Alone, Sees, Reachable, Markable, vars, driveVars, adminVars, walkVars, docVars
<1> QED
  BY <1>3, <1>4, <1>5 DEF Next

\* A deployment of one pod: a cycle that runs without an error and with nothing changing
\* under it marks every row it has not seen, of those MarkUnseenStale looks at, so the
\* rows left active are within reach, whatever failed in the cycles before.
THEOREM OnePodMarks == Spec => []OnePodMarksUnseenStale
<1>1. Init => Lone
  BY DEF Init, Lone, Alone, NoDoc
<1>2. Base /\ Lone => OnePodMarksUnseenStale
  BY DEF Base, TypeOK, Lone, Alone, Sees, OnePodMarksUnseenStale, UnseenAreStale
<1> QED
  BY <1>1, <1>2, BaseInit, BaseStep, LoneStep, PTL DEF Spec
=============================================================================
