---------------------------- MODULE Attachments ----------------------------
(***************************************************************************)
(* The attachment store: ParseRFC822 streams each attachment of a message  *)
(* into a temporary file, which Put renames to the path its SHA-256 names, *)
(* and InsertMessage then writes the rows that name those paths.           *)
(*                                                                         *)
(* Several folder workers of one process share the directory.  Any call    *)
(* can fail, the removal of a temporary file too, and the process can stop *)
(* at any call; what was renamed stays, what was not stays in .tmp.  A     *)
(* content stands for its SHA-256 and for the path made of it.             *)
(*                                                                         *)
(* Left out: threads, grantees and the other child rows (MailIndexer), and *)
(* the loss of written data when the machine itself fails (no fsync).      *)
(***************************************************************************)
EXTENDS Naturals, Sequences, FiniteSets

CONSTANTS
    Workers, Messages, Contents,
    Parts,        \* the attachments of a message, in order
    NoHeaderId,   \* messages whose envelope has no Message-ID
    Temps,        \* names of temporary files: a bound on those that exist at once
    None

ASSUME PartsAssumption == Parts \in [Messages -> Seq(Contents)]
ASSUME NoneAssumption == None \notin Messages \cup Contents \cup Temps \cup Seq(Contents)

VARIABLES
    temp,     \* .tmp: the content and how far it is written, or NoTemp
    file,     \* the CAS layout: "absent", "partial" or "whole", by content
    rows,     \* attachments: the contents a stored message names, None if not stored
    pc,       \* where a worker stands
    msg,      \* the message in handleMessage
    parsed,   \* Parsed.Attachments so far
    tmp,      \* the temporary file of the Put under way
    \* History.
    leaked    \* temporary files left by a stop or a failing os.Remove

diskVars == <<temp, file>>
localVars == <<msg, parsed, tmp>>
vars == <<diskVars, rows, pc, localVars, leaked>>

NoTemp == [content |-> None, written |-> "absent"]

TypeOK ==
    /\ temp \in [Temps -> [content : Contents \cup {None}, written : {"absent", "partial", "whole"}]]
    /\ file \in [Contents -> {"absent", "partial", "whole"}]
    /\ rows \in [Messages -> Seq(Contents) \cup {None}]
    /\ pc \in [Workers -> {"ready", "part", "copy", "stat", "rename", "insert"}]
    /\ msg \in [Workers -> Messages \cup {None}]
    /\ parsed \in [Workers -> Seq(Contents)]
    /\ tmp \in [Workers -> Temps \cup {None}]
    /\ leaked \subseteq Temps
    /\ \A w \in Workers : pc[w] \in {"copy", "stat", "rename"} <=> tmp[w] # None

Init ==
    /\ temp = [t \in Temps |-> NoTemp]
    /\ file = [c \in Contents |-> "absent"]
    /\ rows = [m \in Messages |-> None]
    /\ pc = [w \in Workers |-> "ready"]
    /\ msg = [w \in Workers |-> None]
    /\ parsed = [w \in Workers |-> <<>>]
    /\ tmp = [w \in Workers |-> None]
    /\ leaked = {}

Stored(m) == rows[m] # None
Goto(w, where) == pc' = [pc EXCEPT ![w] = where]

\* handleMessage returns, with or without an error.
Return(w) ==
    /\ Goto(w, "ready")
    /\ msg' = [msg EXCEPT ![w] = None]
    /\ parsed' = [parsed EXCEPT ![w] = <<>>]
    /\ tmp' = [tmp EXCEPT ![w] = None]

\* The attachment at hand.
Content(w) == Parts[msg[w]][Len(parsed[w]) + 1]
MoreParts(w) == Len(parsed[w]) < Len(Parts[msg[w]])

(***************************************************************************)
(* handleMessage and ParseRFC822, around Put.                              *)
(***************************************************************************)
\* A message that is stored is skipped, if its envelope tells.
Handle(w, m) ==
    /\ pc[w] = "ready"
    /\ Stored(m) => m \in NoHeaderId
    /\ msg' = [msg EXCEPT ![w] = m]
    /\ Goto(w, "part")
    /\ UNCHANGED <<diskVars, rows, parsed, tmp, leaked>>

\* The rest of the message cannot be read, a lookup of handleMessage fails.
HandleFails(w) ==
    /\ pc[w] \in {"part", "insert"}
    /\ Return(w)
    /\ UNCHANGED <<diskVars, rows, leaked>>

PartsDone(w) ==
    /\ pc[w] = "part"
    /\ ~MoreParts(w)
    /\ Goto(w, "insert")
    /\ UNCHANGED <<diskVars, rows, localVars, leaked>>

\* Put returns the digest: the next part.
PutDone(w) ==
    /\ parsed' = [parsed EXCEPT ![w] = Append(@, Content(w))]
    /\ tmp' = [tmp EXCEPT ![w] = None]
    /\ Goto(w, "part")
    /\ UNCHANGED msg

\* Mutant: the error of a Put is not looked at.
PutFailsSkipped(w) == PutDone(w)

\* Put returns an error: ParseRFC822 fails, and handleMessage with it.
PutFails(w) == Return(w)

\* INSERT ... ON CONFLICT DO NOTHING, with the attachment rows in one transaction;
\* the worker goes on, or takes the reply for lost.
InsertMessage(w) ==
    /\ pc[w] = "insert"
    /\ rows' = IF Stored(msg[w]) THEN rows ELSE [rows EXCEPT ![msg[w]] = parsed[w]]
    /\ Return(w)
    /\ UNCHANGED <<diskVars, leaked>>

(***************************************************************************)
(* Put.                                                                    *)
(***************************************************************************)
\* os.Remove of the temporary file, whose own error is ignored.
Remove(w) ==
    \/ temp' = [temp EXCEPT ![tmp[w]] = NoTemp] /\ UNCHANGED leaked
    \/ leaked' = leaked \cup {tmp[w]} /\ UNCHANGED temp

\* Mutant: the error of CreateTemp is not looked at.
CreateTempUnchecked(w) ==
    /\ pc[w] = "part"
    /\ MoreParts(w)
    /\ \/ \E t \in Temps :
             /\ temp[t] = NoTemp
             /\ temp' = [temp EXCEPT ![t] = [content |-> Content(w), written |-> "partial"]]
             /\ tmp' = [tmp EXCEPT ![w] = t]
       \/ UNCHANGED <<temp, tmp>>
    /\ Goto(w, "copy")
    /\ UNCHANGED <<msg, parsed, file, rows, leaked>>

\* CreateTemp picks a name that is free.
CreateTemp(w) ==
    /\ pc[w] = "part"
    /\ MoreParts(w)
    /\ \/ \E t \in Temps :
             /\ temp[t] = NoTemp
             /\ temp' = [temp EXCEPT ![t] = [content |-> Content(w), written |-> "partial"]]
             /\ tmp' = [tmp EXCEPT ![w] = t]
             /\ Goto(w, "copy")
             /\ UNCHANGED <<msg, parsed>>
       \/ PutFails(w) /\ UNCHANGED temp
    /\ UNCHANGED <<file, rows, leaked>>

\* Mutant: what has been written when Copy fails is kept.
CopyUnchecked(w) ==
    /\ pc[w] = "copy"
    /\ \/ temp' = [temp EXCEPT ![tmp[w]] = [content |-> Content(w), written |-> "whole"]]
       \/ UNCHANGED temp
    /\ Goto(w, "stat")
    /\ UNCHANGED <<file, rows, localVars, leaked>>

\* io.Copy and Close.
Copy(w) ==
    /\ pc[w] = "copy"
    /\ \/ /\ temp' = [temp EXCEPT ![tmp[w]] = [content |-> Content(w), written |-> "whole"]]
          /\ Goto(w, "stat")
          /\ UNCHANGED <<localVars, leaked>>
       \/ PutFails(w) /\ Remove(w)
    /\ UNCHANGED <<file, rows>>

\* Mutant: the temporary file of content that is there is forgotten.
StatLeaves(w) ==
    /\ pc[w] = "stat"
    /\ \/ /\ file[Content(w)] # "absent"
          /\ PutDone(w)
       \/ /\ file[Content(w)] = "absent"
          /\ Goto(w, "rename")
          /\ UNCHANGED localVars
    /\ UNCHANGED <<temp, file, rows, leaked>>

\* os.Stat of the destination: content that is there is not moved again.
Stat(w) ==
    /\ pc[w] = "stat"
    /\ \/ /\ file[Content(w)] # "absent"
          /\ PutDone(w)
          /\ Remove(w)
       \/ /\ file[Content(w)] = "absent"
          /\ Goto(w, "rename")
          /\ UNCHANGED <<temp, localVars, leaked>>
       \/ PutFails(w) /\ Remove(w)
    /\ UNCHANGED <<file, rows>>

\* Mutant: the destination is created first and filled by a copy.
RenameByCopy(w) ==
    /\ pc[w] = "rename"
    /\ \/ /\ file[Content(w)] # "partial"
          /\ file' = [file EXCEPT ![Content(w)] = "partial"]
          /\ UNCHANGED <<temp, pc, localVars>>
       \/ /\ file[Content(w)] = "partial"
          /\ file' = [file EXCEPT ![Content(w)] = temp[tmp[w]].written]
          /\ temp' = [temp EXCEPT ![tmp[w]] = NoTemp]
          /\ PutDone(w)
    /\ UNCHANGED <<rows, leaked>>

\* MkdirAll and Rename, which replaces the file a second worker has just moved.
Rename(w) ==
    /\ pc[w] = "rename"
    /\ \/ /\ file' = [file EXCEPT ![Content(w)] = temp[tmp[w]].written]
          /\ temp' = [temp EXCEPT ![tmp[w]] = NoTemp]
          /\ PutDone(w)
          /\ UNCHANGED leaked
       \/ PutFails(w) /\ Remove(w) /\ UNCHANGED file
    /\ UNCHANGED rows

Put(w) == CreateTemp(w) \/ Copy(w) \/ Stat(w) \/ Rename(w)

\* The process stops and starts again: New leaves .tmp as it is.
Crash ==
    /\ pc' = [w \in Workers |-> "ready"]
    /\ msg' = [w \in Workers |-> None]
    /\ parsed' = [w \in Workers |-> <<>>]
    /\ tmp' = [w \in Workers |-> None]
    /\ leaked' = leaked \cup {tmp[w] : w \in {v \in Workers : tmp[v] # None}}
    /\ UNCHANGED <<diskVars, rows>>

Next ==
    \/ \E w \in Workers, m \in Messages : Handle(w, m)
    \/ \E w \in Workers : HandleFails(w) \/ PartsDone(w) \/ Put(w) \/ InsertMessage(w)
    \/ Crash

Spec == Init /\ [][Next]_vars

(***************************************************************************)
(* Properties.                                                             *)
(***************************************************************************)

\* A path is never served half-written: what stands under a digest is the whole
\* content, whoever wrote it, however often, and wherever the process stopped.
\* Stat alone decides whether Put moves a file, so a partial one would stay.
FilesAreWhole == \A c \in Contents : file[c] # "partial"

\* The rows of a message are true: a message in the table names all its
\* attachments, in order, and each is on disk.  Its Puts may have been another
\* worker's, and its own attempts before may have failed half-way.
RowsHaveTheirFiles ==
    \A m \in Messages : Stored(m) =>
        /\ rows[m] = Parts[m]
        /\ \A n \in 1..Len(rows[m]) : file[rows[m][n]] = "whole"

\* No Put takes a file away or changes it: list_attachments keeps serving the paths
\* it has served.
FilesStay == [][\A c \in Contents : file[c] = "whole" => file'[c] = "whole"]_vars

\* Every return of Put cleans up: a temporary file belongs to exactly one Put under
\* way, unless the process stopped or os.Remove failed.  Nothing ever removes those.
NoStrayTemps ==
    \A t \in Temps : temp[t] # NoTemp /\ t \notin leaked =>
        Cardinality({w \in Workers : tmp[w] = t}) = 1
=============================================================================
