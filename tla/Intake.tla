------------------------------- MODULE Intake -------------------------------
(***************************************************************************)
(* How documents come into a pile: the folder watcher (watcher.py), which  *)
(* polls a directory, takes in what has stopped growing and queues one run *)
(* for what a poll took in, and the uploads of the REST and MCP surfaces   *)
(* (api/app.py upload_document, mcp/server.py add_document), which take in *)
(* documents beside it.                                                    *)
(*                                                                         *)
(* Covered: files that grow, appear twice under different names or go away *)
(* between a poll's look at their sizes and its reading of them; the look  *)
(* for known content and the insert, with an upload of the same bytes in   *)
(* between and the unique constraint to settle it; an exception, which     *)
(* nothing between poll and the end of the process catches; a watcher      *)
(* killed between any two transactions and started again with no memory.   *)
(*                                                                         *)
(* Abstracted: a file's bytes are a text and how much of it is there; the  *)
(* sha256 of the bytes is the pair.  Runs matter for the documents they    *)
(* name; what becomes of them is module Runs.                              *)
(***************************************************************************)
EXTENDS Naturals, Sequences, FiniteSets

CONSTANTS
  MaxFiles,      \* bound: file names, numbered in the order of iteration
  Texts,         \* what files may contain
  Text,          \* the text of each file
  Full,          \* bound: the size of a file that is whole
  Unsupported,   \* files of which the suffix or the text cannot be used
  Uploaders,     \* clients that upload documents
  Nothing,       \* the absence of content
  SteadyWriters  \* no writer pauses for as long as a poll interval, nor drops
                 \* a file again before a poll has seen it gone

Files == 1 .. MaxFiles

ASSUME FilesAssumption ==
  MaxFiles \in Nat /\ Full \in Nat \ {0} /\ Unsupported \subseteq Files
ASSUME TextAssumption == Text \in [Files -> Texts]
ASSUME NothingAssumption == Nothing \notin [text : Texts, size : 1 .. Full]
ASSUME WritersAssumption == SteadyWriters \in BOOLEAN

VARIABLES
  size,      \* the size of each file, 0 if it is not there
  seen,      \* Watcher._sizes, 0 for a path it does not hold
  phase,     \* where the watcher is: idle, polling, insert, dead
  todo,      \* stable files this poll has still to go through
  held,      \* the content it has looked up and not found
  ingested,  \* WatchResult.ingested
  docs,      \* SourceDocument rows of the pile, by content
  runs,      \* new_document_ids of the runs the watcher queued
  upload,    \* the content each uploader has looked up and not found
  watched,   \* history: documents the watcher took in
  died       \* history: whether the watcher ever died

folderVars == <<size>>
watcherVars == <<seen, phase, todo, held, ingested>>
pileVars == <<docs, runs>>
historyVars == <<watched, died>>
vars == <<folderVars, watcherVars, pileVars, upload, historyVars>>
----------------------------------------------------------------------------
Content == [text : Texts, size : 1 .. Full]
Whole(c) == c.size = Full
ContentOf(f) == [text |-> Text[f], size |-> size[f]]

Init ==
  /\ size = [f \in Files |-> 0]
  /\ seen = [f \in Files |-> 0]
  /\ phase = "idle"
  /\ todo = {}
  /\ held = Nothing
  /\ ingested = {}
  /\ docs = {}
  /\ runs = << >>
  /\ upload = [u \in Uploaders |-> Nothing]
  /\ watched = {}
  /\ died = FALSE
----------------------------------------------------------------------------
(* The folder, which others write to.                                      *)

Drop(f) ==
  /\ size[f] = 0
  /\ SteadyWriters => seen[f] = 0
  /\ size' = [size EXCEPT ![f] = 1]
  /\ UNCHANGED <<watcherVars, pileVars, upload, historyVars>>

Grow(f) ==
  /\ size[f] \in 1 .. Full - 1
  /\ size' = [size EXCEPT ![f] = @ + 1]
  /\ UNCHANGED <<watcherVars, pileVars, upload, historyVars>>

Remove(f) ==
  /\ size[f] > 0
  /\ size' = [size EXCEPT ![f] = 0]
  /\ UNCHANGED <<watcherVars, pileVars, upload, historyVars>>
----------------------------------------------------------------------------
(* poll.                                                                   *)

(* Mutant: a path that was there at the last poll is taken to be stable.   *)
Stable_SeenBefore == {f \in Files : size[f] > 0 /\ seen[f] > 0}

Stable == {f \in Files : size[f] > 0 /\ seen[f] = size[f]}

(* Mutant: the sizes of new paths are not kept.                            *)
Sizes_KnownOnly == [f \in Files |-> IF seen[f] > 0 THEN size[f] ELSE 0]

(* What the poll keeps for the next one.                                   *)
Sizes == size

(* Mutant: one result is kept for all polls.                               *)
Scan_OneResult ==
  /\ phase = "idle"
  /\ SteadyWriters => \A f \in Files : size[f] \in 1 .. Full - 1 => size[f] # seen[f]
  /\ phase' = "polling"
  /\ todo' = Stable
  /\ seen' = Sizes
  /\ UNCHANGED <<folderVars, held, ingested, pileVars, upload, historyVars>>

(* A poll begins (_stable_files).  With SteadyWriters a file in progress   *)
(* has grown since the last one.                                           *)
Scan ==
  /\ phase = "idle"
  /\ SteadyWriters => \A f \in Files : size[f] \in 1 .. Full - 1 => size[f] # seen[f]
  /\ phase' = "polling"
  /\ todo' = Stable
  /\ seen' = Sizes
  /\ ingested' = {}
  /\ UNCHANGED <<folderVars, held, pileVars, upload, historyVars>>

Turn(f) == f \in todo /\ \A g \in todo : f <= g

(* Mutant: a file that has gone reads as an empty one.                     *)
Readable_Gone(f) == f \notin Unsupported

Readable(f) == f \notin Unsupported /\ size[f] > 0

(* extract, and the look for a row with the same bytes: it is a duplicate, *)
(* or it will be inserted.                                                 *)
ReadFile(f) ==
  /\ phase = "polling" /\ Turn(f)
  /\ Readable(f)
  /\ \/ ContentOf(f) \in docs /\ UNCHANGED <<phase, held>>
     \/ ContentOf(f) \notin docs /\ phase' = "insert" /\ held' = ContentOf(f)
  /\ todo' = todo \ {f}
  /\ UNCHANGED <<folderVars, seen, ingested, pileVars, upload, historyVars>>

(* UnsupportedFormatError, to which a file in progress may give rise too.  *)
SkipFile(f) ==
  /\ phase = "polling" /\ Turn(f)
  /\ f \in Unsupported \/ size[f] \in 1 .. Full - 1
  /\ todo' = todo \ {f}
  /\ UNCHANGED <<folderVars, seen, phase, held, ingested, pileVars, upload, historyVars>>

(* The process ends, and with it what it has in memory; an open            *)
(* transaction rolls back.                                                 *)
Dies ==
  /\ phase' = "dead"
  /\ seen' = [f \in Files |-> 0]
  /\ todo' = {}
  /\ held' = Nothing
  /\ ingested' = {}
  /\ died' = TRUE

(* Any other exception: the file has gone, or its parser cannot make sense *)
(* of half a file.                                                         *)
ReadFails(f) ==
  /\ phase = "polling" /\ Turn(f)
  /\ f \notin Unsupported /\ size[f] < Full
  /\ Dies
  /\ UNCHANGED <<folderVars, pileVars, upload, watched>>

(* Mutant: the result holds the last document only.                        *)
InsertRow_Last ==
  /\ phase = "insert"
  /\ held \notin docs
  /\ docs' = docs \cup {held}
  /\ watched' = watched \cup {held}
  /\ ingested' = {held}
  /\ phase' = "polling"
  /\ held' = Nothing
  /\ UNCHANGED <<folderVars, seen, todo, runs, upload, died>>

(* The row is inserted and its transaction commits.                        *)
InsertRow ==
  /\ phase = "insert"
  /\ held \notin docs
  /\ docs' = docs \cup {held}
  /\ watched' = watched \cup {held}
  /\ ingested' = ingested \cup {held}
  /\ phase' = "polling"
  /\ held' = Nothing
  /\ UNCHANGED <<folderVars, seen, todo, runs, upload, died>>

(* uq_document_content_per_pile: an upload was first.                      *)
InsertFails ==
  /\ phase = "insert"
  /\ held \in docs
  /\ Dies
  /\ UNCHANGED <<folderVars, pileVars, upload, watched>>

(* The end of the poll: one run for what it took in.                       *)
EndPoll ==
  /\ phase = "polling" /\ todo = {}
  /\ phase' = "idle"
  /\ runs' = IF ingested = {} THEN runs ELSE Append(runs, ingested)
  /\ UNCHANGED <<folderVars, seen, todo, held, ingested, docs, upload, historyVars>>

(* Somebody kills the watcher; somebody starts it.                         *)
Kill ==
  /\ phase # "dead"
  /\ Dies
  /\ UNCHANGED <<folderVars, pileVars, upload, watched>>

Restart ==
  /\ phase = "dead"
  /\ phase' = "idle"
  /\ UNCHANGED <<folderVars, seen, todo, held, ingested, pileVars, upload, historyVars>>
----------------------------------------------------------------------------
(* upload_document and add_document, of files that are whole: known bytes  *)
(* are answered with the row that is there, others inserted; if somebody   *)
(* was first the request fails.                                            *)
BeginUpload(u) ==
  /\ upload[u] = Nothing
  /\ \E t \in Texts : LET c == [text |-> t, size |-> Full] IN
       c \notin docs /\ upload' = [upload EXCEPT ![u] = c]
  /\ UNCHANGED <<folderVars, watcherVars, pileVars, historyVars>>

FinishUpload(u) ==
  /\ upload[u] # Nothing
  /\ docs' = docs \cup {upload[u]}
  /\ upload' = [upload EXCEPT ![u] = Nothing]
  /\ UNCHANGED <<folderVars, watcherVars, runs, historyVars>>
----------------------------------------------------------------------------
Poll ==
  \/ Scan \/ InsertRow \/ InsertFails \/ EndPoll
  \/ \E f \in Files : ReadFile(f) \/ SkipFile(f) \/ ReadFails(f)

Next ==
  \/ Poll \/ Kill \/ Restart
  \/ \E f \in Files : Drop(f) \/ Grow(f) \/ Remove(f)
  \/ \E u \in Uploaders : BeginUpload(u) \/ FinishUpload(u)

Spec == Init /\ [][Next]_vars

(* watch_forever polls on; steady writers come to an end.                  *)
Fairness ==
  /\ WF_vars(Poll)
  /\ SteadyWriters => \A f \in Files : WF_vars(Grow(f))

FairSpec == Spec /\ Fairness
----------------------------------------------------------------------------
(* Properties.                                                             *)

(* Rows, results and runs hold the bytes of files that are there.          *)
TypeOK ==
  /\ size \in [Files -> 0 .. Full]
  /\ seen \in [Files -> 0 .. Full]
  /\ phase \in {"idle", "polling", "insert", "dead"}
  /\ todo \subseteq Files
  /\ held \in Content \cup {Nothing}
  /\ ingested \subseteq Content
  /\ docs \subseteq Content
  /\ runs \in Seq(SUBSET Content)
  /\ upload \in [Uploaders -> Content \cup {Nothing}]
  /\ watched \subseteq docs
  /\ died \in BOOLEAN

(* If writers do not pause, nor drop a file again unseen, what the pile    *)
(* holds is whole, whenever polls and restarts fall while files are        *)
(* written and taken away (watcher.py:53-64, the sizes of two polls).      *)
WholeFilesOnly == SteadyWriters => \A c \in docs : Whole(c)

(* A document is put before no more than one of the watcher's runs, poll   *)
(* after poll, copy after copy and start after start (watcher.py:14 "This  *)
(* is what makes the watcher idempotent").                                 *)
NamedAtMostOnce ==
  \A i, j \in DOMAIN runs : i # j => runs[i] \cap runs[j] = {}

Named == {c \in Content : \E i \in DOMAIN runs : c \in runs[i]}

(* As long as the watcher has not died, what its polls took in is what its *)
(* runs name.                                                              *)
ArrivalsAreNamed == phase = "idle" /\ ~died => watched = Named

(* A file that is whole and stays comes into the pile, as long as the      *)
(* watcher lives, whatever else is dropped, copied or uploaded.            *)
WholeFilesArrive ==
  \A f \in Files \ Unsupported :
    size[f] = Full ~> \/ [text |-> Text[f], size |-> Full] \in docs
                      \/ size[f] # Full
                      \/ phase = "dead"

(* watcher.py:3: "Each arrival produces a focused update to the            *)
(* deliverable", and watcher.py:8: a poll "survives a restart with no      *)
(* state to rebuild": between polls, every document the watcher took in is *)
(* named by a run.                                                         *)
ArrivalsSurviveRestart == phase = "idle" => watched \subseteq Named
=============================================================================
