------------------------- MODULE AttachmentsProofs --------------------------
(***************************************************************************)
(* Proofs about Attachments, for any number of workers, messages, parts    *)
(* and temporary files.                                                    *)
(***************************************************************************)
EXTENDS Attachments, FiniteSetTheorems, SequenceTheorems, TLAPS

(***************************************************************************)
(* The inductive invariant.                                                *)
(***************************************************************************)
\* What a worker has parsed are the first attachments of its message, all on disk.
Progress(w) ==
    IF pc[w] = "ready"
    THEN parsed[w] = <<>>
    ELSE
        /\ msg[w] \in Messages
        /\ Len(parsed[w]) <= Len(Parts[msg[w]])
        /\ \A n \in 1..Len(parsed[w]) :
              /\ parsed[w][n] = Parts[msg[w]][n]
              /\ file[parsed[w][n]] = "whole"
        /\ pc[w] = "insert" => ~MoreParts(w)

\* A Put under way writes the attachment at hand, and past Copy has written it all.
Writing(w) ==
    tmp[w] # None =>
        /\ MoreParts(w)
        /\ temp[tmp[w]] = [content |-> Content(w),
                           written |-> IF pc[w] = "copy" THEN "partial" ELSE "whole"]

\* No two Puts share a temporary file.
Exclusive ==
    \A v, w \in Workers : tmp[v] # None /\ tmp[v] = tmp[w] => v = w

\* A temporary file has an owner or was left behind.
Owned ==
    \A t \in Temps : temp[t] # NoTemp => t \in leaked \/ \E w \in Workers : tmp[w] = t

IInv ==
    /\ TypeOK
    /\ \A w \in Workers : Progress(w) /\ Writing(w)
    /\ Exclusive
    /\ Owned
    /\ FilesAreWhole
    /\ RowsHaveTheirFiles

(***************************************************************************)
(* Lemmas on the model's operators.                                        *)
(***************************************************************************)
\* The attachment at hand is a content.
LEMMA ContentType ==
    ASSUME TypeOK, NEW w \in Workers, Progress(w), pc[w] # "ready", MoreParts(w)
    PROVE  /\ Content(w) \in Contents
           /\ Content(w) = Parts[msg[w]][Len(parsed[w]) + 1]
           /\ Len(parsed[w]) + 1 \in 1..Len(Parts[msg[w]])
<1>1. msg[w] \in Messages /\ Parts[msg[w]] \in Seq(Contents) /\ parsed[w] \in Seq(Contents)
  BY PartsAssumption DEF Progress, TypeOK
<1>2. Len(parsed[w]) \in Nat /\ Len(Parts[msg[w]]) \in Nat /\ Len(parsed[w]) < Len(Parts[msg[w]])
  BY <1>1 DEF MoreParts
<1>3. Len(parsed[w]) + 1 \in 1..Len(Parts[msg[w]])
  BY <1>2
<1> QED
  BY <1>1, <1>3 DEF Content

\* A worker that does not move keeps its progress while whole files stay.
LEMMA ProgressFramed ==
    ASSUME TypeOK, NEW w \in Workers, Progress(w),
           pc'[w] = pc[w], msg'[w] = msg[w], parsed'[w] = parsed[w],
           \A c \in Contents : file[c] = "whole" => file'[c] = "whole"
    PROVE  Progress(w)'
<1>1. parsed[w] \in Seq(Contents)
  BY DEF TypeOK
<1>2. \A n \in 1..Len(parsed[w]) : parsed[w][n] \in Contents
  BY <1>1
<1> QED
  BY <1>2 DEF Progress, MoreParts

\* A worker that does not move keeps its Put while its temporary file stays.
LEMMA WritingFramed ==
    ASSUME NEW w \in Workers, Writing(w),
           pc'[w] = pc[w], msg'[w] = msg[w], parsed'[w] = parsed[w], tmp'[w] = tmp[w],
           tmp[w] # None => temp'[tmp[w]] = temp[tmp[w]]
    PROVE  Writing(w)'
BY DEF Writing, MoreParts, Content

\* Rows that stay name files that stay.
LEMMA RowsFramed ==
    ASSUME TypeOK, RowsHaveTheirFiles, UNCHANGED rows,
           \A c \in Contents : file[c] = "whole" => file'[c] = "whole"
    PROVE  RowsHaveTheirFiles'
<1> SUFFICES ASSUME NEW m \in Messages, Stored(m), NEW n \in 1..Len(rows[m])
             PROVE  rows[m] = Parts[m] /\ file'[rows[m][n]] = "whole"
  BY DEF RowsHaveTheirFiles, Stored
<1>1. rows[m] = Parts[m] /\ file[rows[m][n]] = "whole"
  BY DEF RowsHaveTheirFiles
<1>2. rows[m] \in Seq(Contents)
  BY <1>1, PartsAssumption
<1> QED
  BY <1>1, <1>2

(***************************************************************************)
(* Preservation, one lemma per action.                                     *)
(***************************************************************************)
\* Nothing is stored and nobody works.
LEMMA InitIInv == Init => IInv
<1> SUFFICES ASSUME Init PROVE IInv
  OBVIOUS
<1> USE DEF Init
<1>1. TypeOK
  BY DEF TypeOK, NoTemp
<1>2. \A w \in Workers : Progress(w) /\ Writing(w)
  BY DEF Progress, Writing
<1>3. Exclusive /\ Owned
  BY DEF Exclusive, Owned
<1>4. FilesAreWhole /\ RowsHaveTheirFiles
  BY DEF FilesAreWhole, RowsHaveTheirFiles, Stored
<1> QED
  BY <1>1, <1>2, <1>3, <1>4 DEF IInv

\* A step of w that keeps the rows, the whole files and the other workers' Puts.
LEMMA StepFramed ==
    ASSUME IInv, NEW w \in Workers, UNCHANGED rows,
           TypeOK', Progress(w)', Writing(w)', Exclusive', Owned', FilesAreWhole',
           \A c \in Contents : file[c] = "whole" => file'[c] = "whole",
           \A v \in Workers \ {w} :
               /\ pc'[v] = pc[v] /\ msg'[v] = msg[v]
               /\ parsed'[v] = parsed[v] /\ tmp'[v] = tmp[v]
               /\ tmp[v] # None => temp'[tmp[v]] = temp[tmp[v]]
    PROVE  IInv'
<1> USE DEF IInv
<1>1. ASSUME NEW v \in Workers PROVE Progress(v)' /\ Writing(v)'
  <2>1. CASE v = w
    BY <2>1
  <2>2. CASE v # w
    BY <2>2, ProgressFramed, WritingFramed
  <2> QED
    BY <2>1, <2>2
<1> QED
  BY <1>1, RowsFramed

\* A step of w outside Put.
LEMMA OutsidePut ==
    ASSUME IInv, NEW w \in Workers, UNCHANGED <<diskVars, rows, tmp, leaked>>,
           TypeOK', Progress(w)', tmp[w] = None,
           \A v \in Workers \ {w} :
               pc'[v] = pc[v] /\ msg'[v] = msg[v] /\ parsed'[v] = parsed[v]
    PROVE  IInv'
<1> USE DEF diskVars
<1>1. Writing(w)'
  BY DEF Writing
<1>2. Exclusive' /\ Owned' /\ FilesAreWhole'
  BY DEF IInv, Exclusive, Owned, FilesAreWhole
<1> QED
  BY <1>1, <1>2, StepFramed

\* Handle.
LEMMA HandleIInv ==
    ASSUME IInv, NEW w \in Workers, NEW m \in Messages, Handle(w, m)
    PROVE  IInv'
<1> USE DEF IInv, Handle, Goto
<1>1. TypeOK' /\ tmp[w] = None
  BY DEF TypeOK, diskVars
<1>2. Parts[m] \in Seq(Contents) /\ parsed'[w] = <<>> /\ msg'[w] = m /\ pc'[w] = "part"
  BY PartsAssumption DEF TypeOK, Progress
<1>3. Progress(w)'
  BY <1>2 DEF Progress
<1> QED
  BY <1>1, <1>3, OutsidePut DEF TypeOK

\* Whatever makes handleMessage return outside Put.
LEMMA ReturnProgress ==
    ASSUME TypeOK, NEW w \in Workers, Return(w)
    PROVE  /\ Progress(w)' /\ Writing(w)'
           /\ pc' \in [Workers -> {"ready", "part", "copy", "stat", "rename", "insert"}]
           /\ msg' \in [Workers -> Messages \cup {None}]
           /\ parsed' \in [Workers -> Seq(Contents)]
           /\ tmp' \in [Workers -> Temps \cup {None}]
           /\ pc'[w] = "ready" /\ tmp'[w] = None
BY DEF TypeOK, Return, Goto, Progress, Writing

\* HandleFails.
LEMMA HandleFailsIInv ==
    ASSUME IInv, NEW w \in Workers, HandleFails(w)
    PROVE  IInv'
<1> USE DEF IInv, HandleFails
<1>1. tmp[w] = None /\ tmp' = tmp
  BY DEF TypeOK, Return
<1>2. TypeOK'
  BY <1>1, ReturnProgress DEF TypeOK, diskVars, Return, Goto
<1> QED
  BY <1>1, <1>2, ReturnProgress, OutsidePut DEF Return, Goto, TypeOK

\* PartsDone.
LEMMA PartsDoneIInv ==
    ASSUME IInv, NEW w \in Workers, PartsDone(w)
    PROVE  IInv'
<1> USE DEF IInv, PartsDone, Goto
<1>1. TypeOK' /\ tmp[w] = None
  BY DEF TypeOK, diskVars, localVars
<1>2. Progress(w)'
  BY DEF Progress, MoreParts, TypeOK, diskVars, localVars
<1> QED
  BY <1>1, <1>2, OutsidePut DEF TypeOK, localVars

\* Two sequences of one length with the same elements are equal: all parts are parsed.
LEMMA AllParsed ==
    ASSUME TypeOK, NEW w \in Workers, Progress(w), pc[w] = "insert"
    PROVE  /\ msg[w] \in Messages
           /\ parsed[w] = Parts[msg[w]]
           /\ \A n \in 1..Len(parsed[w]) : file[parsed[w][n]] = "whole"
<1>1. msg[w] \in Messages /\ Parts[msg[w]] \in Seq(Contents) /\ parsed[w] \in Seq(Contents)
  BY PartsAssumption DEF Progress, TypeOK
<1>2. Len(parsed[w]) = Len(Parts[msg[w]])
  BY <1>1 DEF Progress, MoreParts
<1>3. parsed[w] = Parts[msg[w]]
  BY <1>1, <1>2, SeqEqual DEF Progress
<1> QED
  BY <1>1, <1>3 DEF Progress

\* InsertMessage: the row names what was parsed, or was there before.
LEMMA InsertMessageIInv ==
    ASSUME IInv, NEW w \in Workers, InsertMessage(w)
    PROVE  IInv'
<1> USE DEF IInv, InsertMessage
<1>1. tmp[w] = None /\ tmp' = tmp
  BY DEF TypeOK, Return
<1>2. /\ msg[w] \in Messages
      /\ parsed[w] = Parts[msg[w]]
      /\ \A n \in 1..Len(parsed[w]) : file[parsed[w][n]] = "whole"
  BY AllParsed
<1>3. rows' \in [Messages -> Seq(Contents) \cup {None}]
  BY <1>2 DEF TypeOK
<1>4. TypeOK'
  BY <1>1, <1>3, ReturnProgress DEF TypeOK, diskVars, Return, Goto
<1>5. RowsHaveTheirFiles'
  <2> SUFFICES ASSUME NEW m \in Messages, Stored(m)'
               PROVE  /\ rows'[m] = Parts[m]
                      /\ \A n \in 1..Len(rows'[m]) : file[rows'[m][n]] = "whole"
    BY DEF RowsHaveTheirFiles, diskVars
  <2>1. CASE rows'[m] = rows[m]
    BY <2>1 DEF RowsHaveTheirFiles, Stored
  <2>2. CASE rows'[m] # rows[m]
    BY <1>2, <2>2 DEF TypeOK
  <2> QED
    BY <2>1, <2>2
<1>6. ASSUME NEW v \in Workers PROVE Progress(v)' /\ Writing(v)'
  <2>1. CASE v = w
    BY <2>1, ReturnProgress
  <2>2. CASE v # w
    BY <2>2, ProgressFramed, WritingFramed DEF Return, Goto, TypeOK, diskVars
  <2> QED
    BY <2>1, <2>2
<1>7. Exclusive' /\ Owned' /\ FilesAreWhole'
  BY <1>1 DEF Exclusive, Owned, FilesAreWhole, diskVars
<1> QED
  BY <1>4, <1>5, <1>6, <1>7

(***************************************************************************)
(* Put.                                                                    *)
(***************************************************************************)
\* A Put that gives its temporary file up leaves those of the others.
LEMMA Released ==
    ASSUME IInv, NEW w \in Workers, tmp[w] # None, Remove(w),
           tmp' = [tmp EXCEPT ![w] = None]
    PROVE  /\ Exclusive' /\ Owned'
           /\ temp' \in [Temps -> [content : Contents \cup {None},
                                   written : {"absent", "partial", "whole"}]]
           /\ leaked' \subseteq Temps
           /\ \A v \in Workers \ {w} :
                 /\ tmp'[v] = tmp[v]
                 /\ tmp[v] # None => temp'[tmp[v]] = temp[tmp[v]]
<1> USE DEF IInv, Remove
<1>1. tmp \in [Workers -> Temps \cup {None}] /\ tmp[w] \in Temps
  BY DEF TypeOK
<1>2. Exclusive'
  BY <1>1 DEF Exclusive
<1>3. \A t \in Temps : t # tmp[w] => temp'[t] = temp[t]
  BY <1>1 DEF TypeOK
<1>4. tmp[w] \in leaked' \/ temp'[tmp[w]] = NoTemp
  BY <1>1 DEF TypeOK
<1>5. Owned'
  <2> SUFFICES ASSUME NEW t \in Temps, temp'[t] # NoTemp, t \notin leaked'
               PROVE  \E v \in Workers : tmp'[v] = t
    BY DEF Owned
  <2>1. t # tmp[w]
    BY <1>4
  <2>2. temp[t] # NoTemp /\ t \notin leaked
    BY <1>3, <2>1
  <2>3. PICK v \in Workers : tmp[v] = t
    BY <2>2 DEF Owned
  <2> QED
    BY <1>1, <2>1, <2>3
<1>6. /\ temp' \in [Temps -> [content : Contents \cup {None},
                              written : {"absent", "partial", "whole"}]]
      /\ leaked' \subseteq Temps
  <2>1. NoTemp \in [content : Contents \cup {None}, written : {"absent", "partial", "whole"}]
    BY DEF NoTemp
  <2>2. CASE temp' = [temp EXCEPT ![tmp[w]] = NoTemp] /\ UNCHANGED leaked
    BY <1>1, <2>1, <2>2 DEF TypeOK
  <2>3. CASE leaked' = leaked \cup {tmp[w]} /\ UNCHANGED temp
    BY <1>1, <2>3 DEF TypeOK
  <2> QED
    BY <2>2, <2>3
<1>7. \A v \in Workers \ {w} :
         /\ tmp'[v] = tmp[v]
         /\ tmp[v] # None => temp'[tmp[v]] = temp[tmp[v]]
  BY <1>1, <1>3 DEF Exclusive
<1> QED
  BY <1>2, <1>5, <1>6, <1>7

\* Put returns an error past CreateTemp, and removes its temporary file.
LEMMA PutFailsIInv ==
    ASSUME IInv, NEW w \in Workers, tmp[w] # None, PutFails(w), Remove(w),
           UNCHANGED <<file, rows>>
    PROVE  IInv'
<1> USE DEF IInv, PutFails
<1>1. tmp' = [tmp EXCEPT ![w] = None]
  BY DEF Return
<1>2. TypeOK'
  <2>1. /\ temp' \in [Temps -> [content : Contents \cup {None},
                                written : {"absent", "partial", "whole"}]]
        /\ leaked' \subseteq Temps
    BY <1>1, Released
  <2>2. \A v \in Workers : pc'[v] \in {"copy", "stat", "rename"} <=> tmp'[v] # None
    BY DEF TypeOK, Return, Goto
  <2> QED
    BY <2>1, <2>2 DEF TypeOK, Return, Goto
<1>3. FilesAreWhole'
  BY DEF FilesAreWhole
<1> QED
  BY <1>1, <1>2, <1>3, Released, ReturnProgress, StepFramed DEF Return, Goto, TypeOK

\* PutDone counts a content that is on disk now.
LEMMA PutDoneProgress ==
    ASSUME IInv, NEW w \in Workers, pc[w] # "ready", MoreParts(w), PutDone(w),
           file'[Content(w)] = "whole",
           \A c \in Contents : file[c] = "whole" => file'[c] = "whole"
    PROVE  /\ Progress(w)' /\ Writing(w)'
           /\ pc' \in [Workers -> {"ready", "part", "copy", "stat", "rename", "insert"}]
           /\ msg' \in [Workers -> Messages \cup {None}]
           /\ parsed' \in [Workers -> Seq(Contents)]
           /\ tmp' \in [Workers -> Temps \cup {None}]
           /\ pc'[w] = "part" /\ tmp'[w] = None
<1> USE DEF IInv, PutDone, Goto
<1>1. /\ Content(w) \in Contents
      /\ Content(w) = Parts[msg[w]][Len(parsed[w]) + 1]
      /\ Len(parsed[w]) + 1 \in 1..Len(Parts[msg[w]])
  BY ContentType
<1>2. parsed[w] \in Seq(Contents) /\ parsed'[w] = Append(parsed[w], Content(w))
  BY DEF TypeOK
<1>3. /\ Len(parsed'[w]) = Len(parsed[w]) + 1
      /\ parsed'[w] \in Seq(Contents)
      /\ \A n \in 1..Len(parsed[w]) : parsed'[w][n] = parsed[w][n] /\ parsed[w][n] \in Contents
      /\ parsed'[w][Len(parsed[w]) + 1] = Content(w)
  BY <1>1, <1>2
<1>4. /\ pc' \in [Workers -> {"ready", "part", "copy", "stat", "rename", "insert"}]
      /\ msg' \in [Workers -> Messages \cup {None}]
      /\ parsed' \in [Workers -> Seq(Contents)]
      /\ tmp' \in [Workers -> Temps \cup {None}]
      /\ pc'[w] = "part" /\ tmp'[w] = None
  BY <1>1 DEF TypeOK
<1>5. msg'[w] \in Messages /\ Parts[msg'[w]] \in Seq(Contents) /\ msg'[w] = msg[w]
  BY PartsAssumption DEF Progress
<1>6. ASSUME NEW n \in 1..Len(parsed'[w])
      PROVE  parsed'[w][n] = Parts[msg'[w]][n] /\ file'[parsed'[w][n]] = "whole"
  <2>1. CASE n = Len(parsed[w]) + 1
    BY <1>1, <1>3, <1>5, <2>1
  <2>2. CASE n # Len(parsed[w]) + 1
    <3>1. n \in 1..Len(parsed[w])
      BY <1>2, <1>3, <2>2
    <3> QED
      BY <1>3, <1>5, <3>1 DEF Progress
  <2> QED
    BY <2>1, <2>2
<1>7. Len(parsed'[w]) <= Len(Parts[msg'[w]])
  BY <1>1, <1>3, <1>5
<1>8. Progress(w)'
  BY <1>4, <1>5, <1>6, <1>7 DEF Progress
<1>9. Writing(w)'
  BY <1>4 DEF Writing
<1> QED
  BY <1>4, <1>8, <1>9

\* Put returns the digest of content that is on disk, its temporary file gone.
LEMMA PutDoneIInv ==
    ASSUME IInv, NEW w \in Workers, tmp[w] # None, PutDone(w), Remove(w), UNCHANGED rows,
           file' \in [Contents -> {"absent", "partial", "whole"}],
           file'[Content(w)] = "whole", FilesAreWhole',
           \A c \in Contents : file[c] = "whole" => file'[c] = "whole"
    PROVE  IInv'
<1> USE DEF IInv
<1>1. pc[w] # "ready" /\ MoreParts(w)
  BY DEF TypeOK, Writing
<1>2. tmp' = [tmp EXCEPT ![w] = None]
  BY DEF PutDone
<1>3. TypeOK'
  <2>1. /\ temp' \in [Temps -> [content : Contents \cup {None},
                                written : {"absent", "partial", "whole"}]]
        /\ leaked' \subseteq Temps
    BY <1>2, Released
  <2>2. \A v \in Workers : pc'[v] \in {"copy", "stat", "rename"} <=> tmp'[v] # None
    BY DEF TypeOK, PutDone, Goto
  <2>3. Content(w) \in Contents
    BY <1>1, ContentType
  <2> QED
    BY <2>1, <2>2, <2>3 DEF TypeOK, PutDone, Goto
<1> QED
  BY <1>1, <1>2, <1>3, Released, PutDoneProgress, StepFramed DEF PutDone, Goto, TypeOK

\* CreateTemp: a name that is free is nobody's.
LEMMA CreateTempIInv ==
    ASSUME IInv, NEW w \in Workers, CreateTemp(w)
    PROVE  IInv'
<1> USE DEF IInv
<1>1. pc[w] = "part" /\ MoreParts(w) /\ UNCHANGED <<file, rows, leaked>> /\ tmp[w] = None
  BY DEF CreateTemp, TypeOK
<1>2. CASE PutFails(w) /\ UNCHANGED temp
  <2>1. tmp' = tmp
    BY <1>1, <1>2 DEF PutFails, Return, TypeOK
  <2>2. TypeOK'
    BY <1>1, <1>2, <2>1, ReturnProgress DEF TypeOK, PutFails, Return, Goto
  <2> QED
    BY <1>1, <1>2, <2>1, <2>2, ReturnProgress, OutsidePut
       DEF PutFails, Return, Goto, TypeOK, diskVars
<1>3. ASSUME NEW t \in Temps, temp[t] = NoTemp,
             temp' = [temp EXCEPT ![t] = [content |-> Content(w), written |-> "partial"]],
             tmp' = [tmp EXCEPT ![w] = t], Goto(w, "copy"), UNCHANGED <<msg, parsed>>
      PROVE  IInv'
  <2> USE <1>3 DEF Goto
  <2>1. Content(w) \in Contents
    BY <1>1, ContentType
  <2>2. t # None
    BY NoneAssumption
  <2>3. TypeOK'
    BY <1>1, <2>1, <2>2 DEF TypeOK
  <2>4. ASSUME NEW v \in Workers PROVE tmp[v] # t
    <3>1. SUFFICES ASSUME tmp[v] = t PROVE FALSE
      OBVIOUS
    <3>2. temp[t] = [content |-> Content(v), written |-> IF pc[v] = "copy" THEN "partial" ELSE "whole"]
      BY <2>2, <3>1 DEF Writing
    <3>3. temp[t].written # "absent"
      BY <3>2
    <3> QED
      BY <3>3 DEF NoTemp
  <2>5. Exclusive'
    BY <2>2, <2>4 DEF Exclusive, TypeOK
  <2>6. Owned'
    <3> SUFFICES ASSUME NEW s \in Temps, temp'[s] # NoTemp, s \notin leaked'
                 PROVE  \E v \in Workers : tmp'[v] = s
      BY DEF Owned
    <3>1. CASE s = t
      BY <3>1 DEF TypeOK
    <3>2. CASE s # t
      <4>1. temp[s] # NoTemp /\ s \notin leaked
        BY <1>1, <3>2 DEF TypeOK
      <4>2. PICK v \in Workers : tmp[v] = s
        BY <4>1 DEF Owned
      <4>3. v # w
        BY <1>1, <4>2, NoneAssumption
      <4> QED
        BY <4>2, <4>3 DEF TypeOK
    <3> QED
      BY <3>1, <3>2
  <2>7. Progress(w)'
    BY <1>1 DEF Progress, TypeOK
  <2>8. Writing(w)'
    BY <1>1, <2>2 DEF Writing, MoreParts, Content, TypeOK
  <2>9. FilesAreWhole'
    BY <1>1 DEF FilesAreWhole
  <2> QED
    BY <1>1, <2>2, <2>3, <2>4, <2>5, <2>6, <2>7, <2>8, <2>9, StepFramed DEF TypeOK
<1> QED
  BY <1>2, <1>3 DEF CreateTemp

\* Copy.
LEMMA CopyIInv ==
    ASSUME IInv, NEW w \in Workers, Copy(w)
    PROVE  IInv'
<1> USE DEF IInv
<1>1. pc[w] = "copy" /\ tmp[w] # None /\ tmp[w] \in Temps /\ UNCHANGED <<file, rows>>
  BY DEF Copy, TypeOK
<1>2. CASE PutFails(w) /\ Remove(w)
  BY <1>1, <1>2, PutFailsIInv
<1>3. CASE /\ temp' = [temp EXCEPT ![tmp[w]] = [content |-> Content(w), written |-> "whole"]]
           /\ Goto(w, "stat")
           /\ UNCHANGED <<localVars, leaked>>
  <2> USE <1>1, <1>3 DEF Goto, localVars
  <2>1. temp[tmp[w]] = [content |-> Content(w), written |-> "partial"] /\ MoreParts(w)
    BY DEF Writing
  <2>2. temp' = [temp EXCEPT ![tmp[w]] = [content |-> Content(w), written |-> "whole"]]
    OBVIOUS
  <2>3. Content(w) \in Contents
    BY <2>1, ContentType
  <2>4. TypeOK'
    BY <2>2, <2>3 DEF TypeOK
  <2>5. Exclusive' /\ FilesAreWhole'
    BY DEF Exclusive, FilesAreWhole
  <2>6. Owned'
    BY <2>2 DEF Owned, TypeOK
  <2>7. Progress(w)'
    BY DEF Progress, TypeOK
  <2>8. Writing(w)'
    BY <2>1, <2>2 DEF Writing, MoreParts, Content, TypeOK
  <2>9. \A v \in Workers \ {w} : tmp[v] # None => temp'[tmp[v]] = temp[tmp[v]]
    BY <2>2 DEF Exclusive, TypeOK
  <2> QED
    BY <2>4, <2>5, <2>6, <2>7, <2>8, <2>9, StepFramed DEF TypeOK
<1> QED
  BY <1>2, <1>3 DEF Copy

\* Stat: content that is there is whole, whoever wrote it.
LEMMA StatIInv ==
    ASSUME IInv, NEW w \in Workers, Stat(w)
    PROVE  IInv'
<1> USE DEF IInv
<1>1. /\ pc[w] = "stat" /\ tmp[w] # None /\ UNCHANGED <<file, rows>>
      /\ MoreParts(w) /\ Content(w) \in Contents
  BY ContentType DEF Stat, TypeOK, Writing
<1>2. CASE PutFails(w) /\ Remove(w)
  BY <1>1, <1>2, PutFailsIInv
<1>3. CASE file[Content(w)] # "absent" /\ PutDone(w) /\ Remove(w)
  <2>1. file'[Content(w)] = "whole"
    BY <1>1, <1>3 DEF FilesAreWhole, TypeOK
  <2>2. FilesAreWhole' /\ file' \in [Contents -> {"absent", "partial", "whole"}]
    BY <1>1 DEF FilesAreWhole, TypeOK
  <2> QED
    BY <1>1, <1>3, <2>1, <2>2, PutDoneIInv
<1>4. CASE Goto(w, "rename") /\ UNCHANGED <<temp, localVars, leaked>>
  <2> USE <1>1, <1>4 DEF Goto, localVars
  <2>1. TypeOK'
    BY DEF TypeOK
  <2>2. Exclusive' /\ FilesAreWhole' /\ Owned'
    BY DEF Exclusive, FilesAreWhole, Owned
  <2>3. Progress(w)'
    BY DEF Progress, TypeOK
  <2>4. Writing(w)'
    BY DEF Writing, MoreParts, Content, TypeOK
  <2> QED
    BY <2>1, <2>2, <2>3, <2>4, StepFramed DEF TypeOK
<1> QED
  BY <1>2, <1>3, <1>4 DEF Stat

\* Rename: what is moved has been written to its end.
LEMMA RenameIInv ==
    ASSUME IInv, NEW w \in Workers, Rename(w)
    PROVE  IInv'
<1> USE DEF IInv
<1>1. /\ pc[w] = "rename" /\ tmp[w] # None /\ UNCHANGED rows
      /\ MoreParts(w) /\ Content(w) \in Contents
      /\ temp[tmp[w]].written = "whole"
  <2>1. pc[w] = "rename" /\ tmp[w] # None /\ UNCHANGED rows
    BY DEF Rename, TypeOK
  <2>2. temp[tmp[w]] = [content |-> Content(w), written |-> "whole"] /\ MoreParts(w)
    BY <2>1 DEF Writing
  <2> QED
    BY <2>1, <2>2, ContentType
<1>2. CASE PutFails(w) /\ Remove(w) /\ UNCHANGED file
  BY <1>1, <1>2, PutFailsIInv
<1>3. CASE /\ file' = [file EXCEPT ![Content(w)] = temp[tmp[w]].written]
           /\ temp' = [temp EXCEPT ![tmp[w]] = NoTemp]
           /\ PutDone(w)
           /\ UNCHANGED leaked
  <2>1. file' = [file EXCEPT ![Content(w)] = "whole"]
    BY <1>1, <1>3
  <2>2. /\ file' \in [Contents -> {"absent", "partial", "whole"}]
        /\ file'[Content(w)] = "whole"
        /\ \A c \in Contents : file[c] = "whole" => file'[c] = "whole"
    BY <1>1, <2>1 DEF TypeOK
  <2>3. FilesAreWhole'
    BY <1>1, <2>1 DEF FilesAreWhole, TypeOK
  <2>4. Remove(w)
    BY <1>3 DEF Remove
  <2> QED
    BY <1>1, <1>3, <2>2, <2>3, <2>4, PutDoneIInv
<1> QED
  BY <1>2, <1>3 DEF Rename

\* Crash: what was being written is left behind.
LEMMA CrashIInv ==
    ASSUME IInv, Crash
    PROVE  IInv'
<1> USE DEF IInv, Crash, diskVars
<1>1. TypeOK'
  BY DEF TypeOK
<1>2. \A w \in Workers : Progress(w)' /\ Writing(w)'
  BY DEF Progress, Writing
<1>3. Exclusive'
  BY DEF Exclusive
<1>4. Owned'
  BY NoneAssumption DEF Owned
<1>5. FilesAreWhole'
  BY DEF FilesAreWhole
<1> QED
  BY <1>1, <1>2, <1>3, <1>4, <1>5, RowsFramed

\* Every step preserves the invariant.
LEMMA NextIInv == IInv /\ [Next]_vars => IInv'
<1> SUFFICES ASSUME IInv, [Next]_vars PROVE IInv'
  OBVIOUS
<1>1. CASE UNCHANGED vars
  <2> USE <1>1 DEF vars, diskVars, localVars, IInv
  <2>1. TypeOK' /\ Exclusive' /\ Owned' /\ FilesAreWhole'
    BY DEF TypeOK, Exclusive, Owned, FilesAreWhole
  <2> QED
    BY <2>1, ProgressFramed, WritingFramed, RowsFramed
<1>2. CASE Crash
  BY <1>2, CrashIInv
<1>3. ASSUME NEW w \in Workers, NEW m \in Messages, Handle(w, m) PROVE IInv'
  BY <1>3, HandleIInv
<1>4. ASSUME NEW w \in Workers,
             HandleFails(w) \/ PartsDone(w) \/ Put(w) \/ InsertMessage(w)
      PROVE  IInv'
  BY <1>4, HandleFailsIInv, PartsDoneIInv, CreateTempIInv, CopyIInv, StatIInv, RenameIInv,
     InsertMessageIInv DEF Put
<1> QED
  BY <1>1, <1>2, <1>3, <1>4 DEF Next

(***************************************************************************)
(* The theorems.                                                           *)
(***************************************************************************)
\* The inductive invariant holds in every reachable state.
LEMMA Invariant == Spec => []IInv
BY InitIInv, NextIInv, PTL DEF Spec

\* Every variable keeps its type, and a worker has a temporary file exactly in Put.
THEOREM TypeCorrect == Spec => []TypeOK
<1>1. IInv => TypeOK
  BY DEF IInv
<1> QED
  BY Invariant, <1>1, PTL

\* What stands under a digest is never half-written (Put: Copy and Close come before
\* Rename, and an error of either before it).
THEOREM WholeFiles == Spec => []FilesAreWhole
<1>1. IInv => FilesAreWhole
  BY DEF IInv
<1> QED
  BY Invariant, <1>1, PTL

\* A stored message names all its attachments, in order, and each is on disk
\* (ParseRFC822, InsertMessage).
THEOREM RowsNameFiles == Spec => []RowsHaveTheirFiles
<1>1. IInv => RowsHaveTheirFiles
  BY DEF IInv
<1> QED
  BY Invariant, <1>1, PTL

\* A temporary file belongs to exactly one Put under way, unless the process stopped
\* or os.Remove failed (Put's cleanup on every return).
THEOREM TempsAreOwned == Spec => []NoStrayTemps
<1>1. IInv => NoStrayTemps
  <2> SUFFICES ASSUME IInv, NEW t \in Temps, temp[t] # NoTemp, t \notin leaked
               PROVE  Cardinality({w \in Workers : tmp[w] = t}) = 1
    BY DEF NoStrayTemps
  <2>1. PICK w \in Workers : tmp[w] = t
    BY DEF IInv, Owned
  <2>2. {v \in Workers : tmp[v] = t} = {w}
    BY <2>1, NoneAssumption DEF IInv, Exclusive
  <2> QED
    BY <2>2, FS_Singleton
<1> QED
  BY Invariant, <1>1, PTL

\* No step takes a whole file away or truncates it (Put only ever renames whole
\* files, and nothing removes one).
THEOREM FilesAreKept == Spec => FilesStay
<1>1. IInv /\ [Next]_vars => [\A c \in Contents : file[c] = "whole" => file'[c] = "whole"]_vars
  <2> SUFFICES ASSUME IInv, Next, NEW c \in Contents, file[c] = "whole"
               PROVE  file'[c] = "whole"
    OBVIOUS
  <2>1. ASSUME NEW w \in Workers, Rename(w) PROVE file'[c] = "whole"
    <3>1. pc[w] = "rename" /\ tmp[w] # None
      BY <2>1 DEF Rename, IInv, TypeOK
    <3>2. temp[tmp[w]] = [content |-> Content(w), written |-> "whole"]
      BY <3>1 DEF IInv, Writing
    <3>3. temp[tmp[w]].written = "whole"
      BY <3>2
    <3> QED
      BY <2>1, <3>3 DEF Rename, IInv, TypeOK
  <2>2. CASE UNCHANGED file
    BY <2>2
  <2> QED
    BY <2>1, <2>2 DEF Next, Handle, HandleFails, PartsDone, Put, CreateTemp, Copy, Stat,
       InsertMessage, Crash, diskVars
<1> QED
  BY Invariant, <1>1, PTL DEF Spec, FilesStay
=============================================================================
