------------------------------- MODULE OasDocument ------------------------------
(***************************************************************************)
(* The client every handler builds from the OpenAPI document of its        *)
(* definition: BuildClient, and the download it does (filegetter).  The    *)
(* workers of a process serve one kind, so that all of them download one   *)
(* document to one path, and each removes the directory when it is done.   *)
(***************************************************************************)
EXTENDS JqModules

CONSTANT Inodes   \* the files the temporary directory may have had, some unlinked

NoFile == "no file"

(* There is a file that no worker has open.                                *)
ASSUME InodesAssumption ==
  /\ NoFile \notin Inodes
  /\ \A f \in [Workers -> Inodes \cup {NoFile}] : \E i \in Inodes : \A w \in Workers : f[w] # i

VARIABLES
  directory,   \* whether the temporary directory is there
  link,        \* the file the path leads to, or NoFile
  content,     \* which halves of the document each file has
  open,        \* the file each worker writes to, or NoFile
  written,     \* how many halves it has written
  client,      \* what the client of each worker was built from
  disturbed    \* whether another worker was at the document, too

documentVars == <<directory, link, content, open, written, client, disturbed>>

Halves == {1, 2}
DocumentStages == {"download", "create", "copy", "read", "cleanup"}
Parts == {"none", "part", "whole"}

DocumentTypeOK ==
  /\ directory \in BOOLEAN /\ link \in Inodes \cup {NoFile}
  /\ content \in [Inodes -> SUBSET Halves]
  /\ open \in [Workers -> Inodes \cup {NoFile}] /\ written \in [Workers -> 0..2]
  /\ client \in [Workers -> Parts] /\ disturbed \in [Workers -> BOOLEAN]

DocumentInit ==
  /\ directory = FALSE /\ link = NoFile
  /\ content = [i \in Inodes |-> {}]
  /\ open = [w \in Workers |-> NoFile]
  /\ written = [w \in Workers |-> 0]
  /\ client = [w \in Workers |-> "none"]
  /\ disturbed = [w \in Workers |-> FALSE]

(* MkdirAll.                                                               *)
BuildClient(w) ==
  /\ At(w, "directory")
  /\ directory' = TRUE
  /\ disturbed' = [v \in Workers |-> \/ disturbed[v] /\ v # w
                                     \/ v = w /\ \E u \in Workers \ {w} : stage[u] \in DocumentStages
                                     \/ v # w /\ stage[v] \in DocumentStages]
  /\ Goto(w, "download")
  /\ UNCHANGED <<link, content, open, written, client>>

(* The request for the document; nothing limits the time it takes.         *)
Download(w) ==
  /\ At(w, "download")
  /\ \E next \in {"create", "cleanup"} : Goto(w, next)
  /\ UNCHANGED documentVars

(* os.Create: empties the file that is there, or makes one; without the    *)
(* directory it fails.                                                     *)
Create(w) ==
  /\ At(w, "create")
  /\ IF directory
     THEN LET i == IF link = NoFile THEN CHOOSE j \in Inodes : \A v \in Workers : open[v] # j ELSE link
          IN  /\ link' = i /\ content' = [content EXCEPT ![i] = {}]
              /\ open' = [open EXCEPT ![w] = i]
              /\ Goto(w, "copy")
     ELSE Goto(w, "cleanup") /\ UNCHANGED <<link, content, open>>
  /\ UNCHANGED <<directory, written, client, disturbed>>

(* Mutant of Copy: the end of the document is not noticed.                *)
CopyOn(w) ==
  /\ At(w, "copy")
  /\ written' = [written EXCEPT ![w] = @ + 1]
  /\ content' = [content EXCEPT ![open[w]] = @ \cup {written[w] + 1}]
  /\ \E next \in {"copy", "read"} : Goto(w, next)
  /\ UNCHANGED <<directory, link, open, client, disturbed>>

(* io.Copy: each worker writes at its own offset; nothing limits the time  *)
(* the body takes.                                                         *)
Copy(w) ==
  /\ At(w, "copy")
  /\ written' = [written EXCEPT ![w] = @ + 1]
  /\ content' = [content EXCEPT ![open[w]] = @ \cup {written[w] + 1}]
  /\ IF written[w] + 1 = 2 THEN Goto(w, "read") ELSE UNCHANGED <<stage, elapsed>>
  /\ UNCHANGED <<directory, link, open, client, disturbed>>

(* Mutant of CopyFails: what was copied is read.                           *)
CopyFailureIgnored(w) == At(w, "copy") /\ Goto(w, "read") /\ UNCHANGED documentVars

(* The connection breaks: the rest never comes.                            *)
CopyFails(w) == At(w, "copy") /\ Goto(w, "cleanup") /\ UNCHANGED documentVars

(* ReadFile, whose error is ignored, and the model of what was read: the   *)
(* first half of a document may be taken for a document, anything else     *)
(* that is not the whole is not.                                           *)
ReadFile(w) ==
  /\ At(w, "read")
  /\ LET read == IF link = NoFile THEN {} ELSE content[link]
     IN  \E part \in Parts :
           /\ part = "whole" => read = Halves
           /\ part = "part" => read = {1}
           /\ client' = [client EXCEPT ![w] = part]
  /\ Goto(w, "cleanup")
  /\ UNCHANGED <<directory, link, content, open, written, disturbed>>

(* RemoveAll, whichever way BuildClient ends.                              *)
RemoveAll(w) ==
  /\ At(w, "cleanup")
  /\ directory' = FALSE /\ link' = NoFile
  /\ open' = [open EXCEPT ![w] = NoFile]
  /\ written' = [written EXCEPT ![w] = 0]
  /\ content' = [i \in Inodes |-> IF i \in {open'[v] : v \in Workers} THEN content[i] ELSE {}]
  /\ Goto(w, IF client[w] = "none" THEN "failed" ELSE "calling")
  /\ UNCHANGED <<client, disturbed>>

(* The client and what is known of its making go with the handler.         *)
ForgetClient(w) ==
  /\ client' = [client EXCEPT ![w] = "none"]
  /\ disturbed' = [disturbed EXCEPT ![w] = FALSE]
  /\ UNCHANGED <<directory, link, content, open, written>>
=============================================================================
