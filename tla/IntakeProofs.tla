---------------------------- MODULE IntakeProofs ----------------------------
(***************************************************************************)
(* Theorems about module Intake, for every number of files, uploaders and  *)
(* texts, wherever writers, uploads, exceptions and kills fall between the *)
(* steps of a poll.                                                        *)
(***************************************************************************)
EXTENDS Intake, TLAPS

----------------------------------------------------------------------------
(* Type correctness.                                                       *)

(* A file that can be read has content.                                    *)
LEMMA ReadableContent ==
  ASSUME TypeOK, NEW f \in Files, Readable(f)
  PROVE  ContentOf(f) \in Content /\ ContentOf(f).size = size[f]
<1>1. size[f] \in 1 .. Full
  BY FilesAssumption DEF TypeOK, Readable
<1>2. Text[f] \in Texts
  BY TextAssumption
<1> QED
  BY <1>1, <1>2 DEF ContentOf, Content

(* Between its look and its insert the watcher has content in hand.        *)
Holding == phase = "insert" => held \in Content

Typed == TypeOK /\ Holding

(* The initial folder, watcher and pile have their shapes.                 *)
LEMMA TypeInit == Init => Typed
<1> SUFFICES ASSUME Init PROVE Typed
  OBVIOUS
<1>1. 0 \in 0 .. Full
  BY FilesAssumption
<1>2. size \in [Files -> 0 .. Full] /\ seen \in [Files -> 0 .. Full]
  BY <1>1 DEF Init
<1>3. upload \in [Uploaders -> Content \cup {Nothing}]
  BY DEF Init
<1>4. runs \in Seq(SUBSET Content)
  BY DEF Init
<1> QED
  BY <1>2, <1>3, <1>4 DEF Init, Typed, TypeOK, Holding

(* Every step of a poll, of a writer, of an upload, a kill and a restart   *)
(* keeps them in shape.                                                    *)
LEMMA TypeStep == Typed /\ [Next]_vars => Typed'
<1> SUFFICES ASSUME Typed, [Next]_vars PROVE Typed'
  OBVIOUS
<1> USE DEF folderVars, watcherVars, pileVars, historyVars, Typed, Holding
<1>1. ASSUME Scan PROVE Typed'
  BY <1>1 DEF TypeOK, Scan, Stable, Sizes
<1>2. ASSUME NEW f \in Files, ReadFile(f) PROVE Typed'
  <2>1. ContentOf(f) \in Content
    BY <1>2, ReadableContent DEF ReadFile
  <2> QED
    BY <1>2, <2>1 DEF TypeOK, ReadFile
<1>3. ASSUME NEW f \in Files, SkipFile(f) PROVE Typed'
  BY <1>3 DEF TypeOK, SkipFile
<1>4. ASSUME Dies, UNCHANGED <<folderVars, pileVars, upload, watched>> PROVE Typed'
  <2>1. seen' \in [Files -> 0 .. Full]
    BY <1>4, FilesAssumption DEF Dies
  <2> QED
    BY <1>4, <2>1 DEF TypeOK, Dies
<1>5. ASSUME InsertRow PROVE Typed'
  BY <1>5 DEF TypeOK, InsertRow
<1>6. ASSUME EndPoll PROVE Typed'
  BY <1>6 DEF TypeOK, EndPoll
<1>7. ASSUME Restart PROVE Typed'
  BY <1>7 DEF TypeOK, Restart
<1>8. ASSUME NEW f \in Files, Drop(f) \/ Grow(f) \/ Remove(f) PROVE Typed'
  <2>1. size' \in [Files -> 0 .. Full]
    BY <1>8, FilesAssumption DEF TypeOK, Drop, Grow, Remove
  <2> QED
    BY <1>8, <2>1 DEF TypeOK, Drop, Grow, Remove
<1>9. ASSUME NEW u \in Uploaders, BeginUpload(u) PROVE Typed'
  <2>1. \A t \in Texts : [text |-> t, size |-> Full] \in Content
    BY FilesAssumption DEF Content
  <2> QED
    BY <1>9, <2>1 DEF TypeOK, BeginUpload
<1>10. ASSUME NEW u \in Uploaders, FinishUpload(u) PROVE Typed'
  BY <1>10 DEF TypeOK, FinishUpload
<1>11. CASE UNCHANGED vars
  BY <1>11 DEF TypeOK, vars
<1> QED
  BY <1>1, <1>2, <1>3, <1>4, <1>5, <1>6, <1>7, <1>8, <1>9, <1>10, <1>11
     DEF Next, Poll, Kill, ReadFails, InsertFails

(* Every reachable state is typed.                                         *)
LEMMA AlwaysTyped == Spec => []Typed
  BY TypeInit, TypeStep, PTL DEF Spec

(* Folder, watcher and pile keep their shape for any number of files,      *)
(* texts and uploaders (watcher.py, models.py SourceDocument and Run).     *)
THEOREM TypeCorrect == Spec => []TypeOK
<1>1. Typed => TypeOK
  BY DEF Typed
<1> QED
  BY <1>1, AlwaysTyped, PTL
----------------------------------------------------------------------------
(* Whole files.                                                            *)

(* With steady writers, a file a poll has still to read was whole at its   *)
(* scan, is whole or gone, and cannot be there again before another scan;  *)
(* what is in hand, at an uploader or in the pile is whole.                *)
Steady ==
  SteadyWriters =>
    /\ \A f \in todo : seen[f] > 0 /\ size[f] \in {0, Full}
    /\ phase = "insert" => Whole(held)
    /\ \A u \in Uploaders : upload[u] # Nothing => Whole(upload[u])
    /\ \A c \in docs : Whole(c)

(* At the start no file is in hand.                                        *)
LEMMA SteadyInit == Init => Steady
  BY DEF Init, Steady

(* A scan takes up whole files only; only files that are not taken up grow *)
(* or come back.                                                           *)
LEMMA SteadyStep == Typed /\ Steady /\ [Next]_vars => Steady'
<1> SUFFICES ASSUME Typed, Steady, SteadyWriters, [Next]_vars PROVE Steady'
  BY DEF Steady
<1> USE DEF folderVars, watcherVars, pileVars, historyVars
<1>1. ASSUME Scan PROVE Steady'
  <2>1. ASSUME NEW f \in Stable PROVE size[f] > 0 /\ size[f] = Full
    <3>1. f \in Files /\ size[f] > 0 /\ seen[f] = size[f]
      BY DEF Stable
    <3>2. size[f] \notin 1 .. Full - 1 /\ size[f] \in 0 .. Full
      BY <1>1, <3>1 DEF Scan, Typed, TypeOK
    <3> QED
      BY <3>1, <3>2, FilesAssumption
  <2> QED
    BY <1>1, <2>1 DEF Steady, Scan, Sizes
<1>2. ASSUME NEW f \in Files, ReadFile(f) PROVE Steady'
  <2>1. ContentOf(f) \in Content /\ ContentOf(f).size = size[f] /\ size[f] > 0
    BY <1>2, ReadableContent DEF ReadFile, Typed, Readable
  <2>2. size[f] = Full
    BY <1>2, <2>1 DEF Steady, ReadFile, Turn
  <2> QED
    BY <1>2, <2>1, <2>2 DEF Steady, ReadFile, Whole
<1>3. ASSUME NEW f \in Files, SkipFile(f) PROVE Steady'
  BY <1>3 DEF Steady, SkipFile
<1>4. ASSUME Dies, UNCHANGED <<folderVars, pileVars, upload, watched>> PROVE Steady'
  BY <1>4 DEF Steady, Dies
<1>5. ASSUME InsertRow PROVE Steady'
  BY <1>5 DEF Steady, InsertRow
<1>6. ASSUME EndPoll PROVE Steady'
  BY <1>6 DEF Steady, EndPoll
<1>7. ASSUME Restart PROVE Steady'
  BY <1>7 DEF Steady, Restart
<1>8. ASSUME NEW f \in Files, Drop(f) PROVE Steady'
  <2>1. f \notin todo
    BY <1>8 DEF Drop, Steady
  <2>2. \A g \in todo : size'[g] = size[g]
    BY <1>8, <2>1 DEF Drop, Typed, TypeOK
  <2> QED
    BY <1>8, <2>2 DEF Steady, Drop
<1>9. ASSUME NEW f \in Files, Grow(f) PROVE Steady'
  <2>1. size[f] \notin {0, Full}
    BY <1>9, FilesAssumption DEF Grow
  <2>2. \A g \in todo : size'[g] = size[g]
    BY <1>9, <2>1 DEF Grow, Steady, Typed, TypeOK
  <2> QED
    BY <1>9, <2>2 DEF Steady, Grow
<1>10. ASSUME NEW f \in Files, Remove(f) PROVE Steady'
  <2>1. \A g \in todo : size'[g] \in {0, size[g]}
    BY <1>10 DEF Remove, Typed, TypeOK
  <2> QED
    BY <1>10, <2>1 DEF Steady, Remove
<1>11. ASSUME NEW u \in Uploaders, BeginUpload(u) PROVE Steady'
  <2>1. PICK t \in Texts : upload' = [upload EXCEPT ![u] = [text |-> t, size |-> Full]]
    BY <1>11 DEF BeginUpload
  <2>2. \A w \in Uploaders : upload'[w] # Nothing => Whole(upload'[w])
    BY <2>1 DEF Steady, Typed, TypeOK, Whole
  <2> QED
    BY <1>11, <2>2 DEF Steady, BeginUpload
<1>12. ASSUME NEW u \in Uploaders, FinishUpload(u) PROVE Steady'
  <2>1. \A w \in Uploaders : upload'[w] # Nothing => upload'[w] = upload[w]
    BY <1>12 DEF FinishUpload, Typed, TypeOK
  <2> QED
    BY <1>12, <2>1 DEF Steady, FinishUpload
<1>13. CASE UNCHANGED vars
  BY <1>13 DEF Steady, vars
<1> QED
  BY <1>1, <1>2, <1>3, <1>4, <1>5, <1>6, <1>7, <1>8, <1>9, <1>10, <1>11, <1>12, <1>13
     DEF Next, Poll, Kill, ReadFails, InsertFails

(* The pile holds whole files only if writers neither pause for a poll nor *)
(* use a name again unseen (Watcher._stable_files).                        *)
THEOREM WholeOnly == Spec => []WholeFilesOnly
<1>1. Steady => WholeFilesOnly
  BY DEF Steady, WholeFilesOnly
<1> QED
  BY <1>1, AlwaysTyped, SteadyInit, SteadyStep, PTL DEF Spec
----------------------------------------------------------------------------
(* Runs and what they name.                                                *)

(* Runs name what the watcher took in, no two the same document; what a    *)
(* poll under way has taken in is named by none yet.                       *)
Filed ==
  /\ NamedAtMostOnce
  /\ ingested \subseteq watched
  /\ \A i \in DOMAIN runs : runs[i] \subseteq watched
  /\ phase # "idle" => \A i \in DOMAIN runs : runs[i] \cap ingested = {}

(* At the start no run names anything.                                     *)
LEMMA FiledInit == Init => Filed
  BY DEF Init, Filed, NamedAtMostOnce

(* A document enters a result only when its row is new; a result enters    *)
(* a run only at the end of its poll.                                      *)
LEMMA FiledStep == Typed /\ Filed /\ [Next]_vars => Filed'
<1> SUFFICES ASSUME Typed, Filed, [Next]_vars PROVE Filed'
  OBVIOUS
<1> USE DEF folderVars, watcherVars, pileVars, historyVars, Filed, NamedAtMostOnce
<1>1. ASSUME Scan PROVE Filed'
  BY <1>1 DEF Scan
<1>2. ASSUME NEW f \in Files, ReadFile(f) \/ SkipFile(f) PROVE Filed'
  BY <1>2 DEF ReadFile, SkipFile
<1>3. ASSUME Dies, UNCHANGED <<folderVars, pileVars, upload, watched>> PROVE Filed'
  BY <1>3 DEF Dies
<1>4. ASSUME InsertRow PROVE Filed'
  <2>1. held \notin watched
    BY <1>4 DEF InsertRow, Typed, TypeOK
  <2> QED
    BY <1>4, <2>1 DEF InsertRow
<1>5. ASSUME EndPoll PROVE Filed'
  <2>1. CASE ingested = {}
    BY <1>5, <2>1 DEF EndPoll
  <2>2. CASE ingested # {}
    <3>1. runs' = Append(runs, ingested) /\ runs \in Seq(SUBSET Content)
      BY <1>5, <2>2 DEF EndPoll, Typed, TypeOK
    <3>2. \A i \in DOMAIN runs' :
            \/ i \in DOMAIN runs /\ runs'[i] = runs[i]
            \/ i = Len(runs) + 1 /\ runs'[i] = ingested
      BY <3>1
    <3>3. \A i \in DOMAIN runs : runs[i] \cap ingested = {}
      BY <1>5 DEF EndPoll
    <3> QED
      BY <1>5, <3>2, <3>3 DEF EndPoll
  <2> QED
    BY <2>1, <2>2
<1>6. ASSUME Restart PROVE Filed'
  BY <1>6 DEF Restart
<1>7. ASSUME NEW f \in Files, Drop(f) \/ Grow(f) \/ Remove(f) PROVE Filed'
  BY <1>7 DEF Drop, Grow, Remove
<1>8. ASSUME NEW u \in Uploaders, BeginUpload(u) \/ FinishUpload(u) PROVE Filed'
  BY <1>8 DEF BeginUpload, FinishUpload
<1>9. CASE UNCHANGED vars
  BY <1>9 DEF vars
<1> QED
  BY <1>1, <1>2, <1>3, <1>4, <1>5, <1>6, <1>7, <1>8, <1>9
     DEF Next, Poll, Kill, ReadFails, InsertFails

(* No document is put before two runs of the watcher, whatever is copied,  *)
(* uploaded or killed (watcher.py:14).                                     *)
THEOREM NamedOnce == Spec => []NamedAtMostOnce
<1>1. Filed => NamedAtMostOnce
  BY DEF Filed
<1> QED
  BY <1>1, AlwaysTyped, FiledInit, FiledStep, PTL DEF Spec

(* A watcher that has not died has put what it took in before a run, but   *)
(* for the result of the poll under way.                                   *)
Reported ==
  /\ phase = "dead" => died
  /\ ~died => /\ \A c \in watched : c \in ingested \/ \E i \in DOMAIN runs : c \in runs[i]
              /\ phase = "idle" => \A c \in ingested : \E i \in DOMAIN runs : c \in runs[i]

(* At the start nothing has been taken in.                                 *)
LEMMA ReportedInit == Init => Reported
  BY DEF Init, Reported

(* What is taken in stays the poll's own until its run names it.           *)
LEMMA ReportedStep == Typed /\ Reported /\ [Next]_vars => Reported'
<1> SUFFICES ASSUME Typed, Reported, [Next]_vars PROVE Reported'
  OBVIOUS
<1> USE DEF folderVars, watcherVars, pileVars, historyVars, Reported
<1>1. ASSUME Scan PROVE Reported'
  BY <1>1 DEF Scan
<1>2. ASSUME NEW f \in Files, ReadFile(f) \/ SkipFile(f) PROVE Reported'
  BY <1>2 DEF ReadFile, SkipFile
<1>3. ASSUME Dies PROVE Reported'
  BY <1>3 DEF Dies
<1>4. ASSUME InsertRow PROVE Reported'
  BY <1>4 DEF InsertRow
<1>5. ASSUME EndPoll PROVE Reported'
  <2>1. CASE ingested = {}
    BY <1>5, <2>1 DEF EndPoll
  <2>2. CASE ingested # {}
    <3>1. runs' = Append(runs, ingested) /\ runs \in Seq(SUBSET Content)
      BY <1>5, <2>2 DEF EndPoll, Typed, TypeOK
    <3>2. /\ \A i \in DOMAIN runs : i \in DOMAIN runs' /\ runs'[i] = runs[i]
          /\ Len(runs) + 1 \in DOMAIN runs' /\ runs'[Len(runs) + 1] = ingested
      BY <3>1
    <3> QED
      BY <1>5, <3>2 DEF EndPoll
  <2> QED
    BY <2>1, <2>2
<1>6. ASSUME Restart PROVE Reported'
  BY <1>6 DEF Restart
<1>7. ASSUME NEW f \in Files, Drop(f) \/ Grow(f) \/ Remove(f) PROVE Reported'
  BY <1>7 DEF Drop, Grow, Remove
<1>8. ASSUME NEW u \in Uploaders, BeginUpload(u) \/ FinishUpload(u) PROVE Reported'
  BY <1>8 DEF BeginUpload, FinishUpload
<1>9. CASE UNCHANGED vars
  BY <1>9 DEF vars
<1> QED
  BY <1>1, <1>2, <1>3, <1>4, <1>5, <1>6, <1>7, <1>8, <1>9
     DEF Next, Poll, Kill, ReadFails, InsertFails

(* Between its polls, what a watcher that has not died took in is what its *)
(* runs name (Watcher.poll).                                               *)
THEOREM ArrivalsNamed == Spec => []ArrivalsAreNamed
<1>1. Typed /\ Filed /\ Reported => ArrivalsAreNamed
  <2> SUFFICES ASSUME Typed, Filed, Reported, phase = "idle", ~died
               PROVE  watched = Named
    BY DEF ArrivalsAreNamed
  <2>1. watched \subseteq Content
    BY DEF Typed, TypeOK
  <2>2. \A c \in watched : \E i \in DOMAIN runs : c \in runs[i]
    BY DEF Reported
  <2>3. \A i \in DOMAIN runs : runs[i] \subseteq watched
    BY DEF Filed
  <2> QED
    BY <2>1, <2>2, <2>3 DEF Named
<1> QED
  BY <1>1, AlwaysTyped, FiledInit, FiledStep, ReportedInit, ReportedStep, PTL DEF Spec
=============================================================================
