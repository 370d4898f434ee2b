------------------------------ MODULE Workspace ------------------------------
(***************************************************************************)
(* Who puts a closed file of the workspace into the index, and takes it    *)
(* out: the scans (indexWorkspace), the walk of a folder that was added    *)
(* (indexRoot), the changes that the client watched                        *)
(* (applyWatchedFileChanges), and a resolver that finds a file missing     *)
(* (EnsureIndexed).  Each reads a file and files later what it read; only  *)
(* the connection they come through puts some of them in order.            *)
(*                                                                         *)
(* The session watches files and has no workspacePaths of its own: what it *)
(* scans is what the editor has open.  The time is the number of changes   *)
(* of the disk so far.  A reading is what was there and when; an entry of  *)
(* the index is a reading.                                                 *)
(***************************************************************************)
EXTENDS ReadLoop, Integers, FiniteSets

CONSTANTS
  Files,           \* components
  Folders,         \* workspace folders
  FolderOf,        \* [Files -> Folders]
  Edited,          \* files that programs write and delete
  Scans, Batches,  \* goroutines of indexWorkspace and of applyWatchedFileChanges
  Room,            \* how many readings of a scan wait to be filed: 8 + 64
  Settings,        \* what the collector may be set to when the process starts
  MaxChanges, MaxRequests   \* bounds on what the disk and the client do

ASSUME WorkspaceAssumption ==
  /\ FolderOf \in [Files -> Folders]
  /\ Room \in Nat \ {0} /\ MaxChanges \in Nat /\ MaxRequests \in Nat
  /\ Settings \subseteq Nat \cup {-1}
  /\ Calls = {"register", "edit"}
  /\ IsFiniteSet(Scans) /\ Scans # {} /\ Batches # {}

VARIABLES
  disk,       \* [Files -> when it was written, or Gone]
  time,
  unseen,     \* [Files -> when it last changed with nobody watching, or was left
              \*           out by a walk that was cut short]
  watcher,    \* "none", "starting", "asked" or "watching": registerFileWatchers
  news,       \* what the client watched and did not report, [file, kind, at]
  opened,     \* the folders that the client has open
  requests,   \* how many requests the client made
  index,      \* [Files -> reading]
  newest,     \* [Files -> when the newest reading was made that was filed]
  roots,      \* Server.workspaceRoots
  scan,       \* [Scans -> [pc, todo, read]]
  batch,      \* [Batches -> [pc, todo, read]]
  walk,       \* indexRoot, which its handler runs: as a batch
  demand,     \* readings of EnsureIndexed that are to be filed
  gc          \* [percent, prev, running, own]: indexingGCState; own is what it was

world == <<disk, time, unseen, news, opened, requests>>
filed == <<index, newest>>
vars == <<world, watcher, filed, roots, scan, batch, walk, demand, gc, readLoop>>

-----------------------------------------------------------------------------
Gone == 0
Off == [pc |-> "off", todo |-> {}, read |-> {}]
Starting(S) == [Off EXCEPT !.pc = "start", !.todo = S]

\* A goroutine is started, with S to do; which one makes no difference.
Idle(table) == {k \in DOMAIN table : table[k] = Off}
Go(table, S) == [table EXCEPT ![CHOOSE k \in Idle(table) : TRUE] = Starting(S)]

Initialized == [kind |-> "initialized"]
Reindex     == [kind |-> "reindex"]
Format      == [kind |-> "format"]

\* What is at f now.
Reading(f) == [file |-> f, text |-> disk[f], at |-> time]
Exists(r) == r.text # Gone

\* What was read is filed over whatever is there: applyIndexResult, or
\* Index.RemoveFile if there was nothing.
File(r) ==
  /\ index' = [index EXCEPT ![r.file] = r]
  /\ newest' = [newest EXCEPT ![r.file] = IF @ < r.at THEN r.at ELSE @]

In(folders) == {f \in Files : FolderOf[f] \in folders}

\* What a walk of the folders finds,
Found(folders) == {f \in In(folders) : disk[f] # Gone}

\* and what it leaves out when it ends at a file that is gone.
LeaveOut(S) == unseen' = [f \in Files |-> IF f \in S THEN time ELSE unseen[f]]

IndexingPercent == 50

\* indexingGC, and the function it returns.
EnterScan ==
  IF gc.running = 0
  THEN gc' = [gc EXCEPT !.running = 1, !.prev = gc.percent,
                        !.percent = IF gc.percent < IndexingPercent THEN gc.percent
                                    ELSE IndexingPercent]
  ELSE gc' = [gc EXCEPT !.running = gc.running + 1]

\* Mutant of LeaveScan: every scan restores what the first one replaced.
LeaveScanEach == gc' = [gc EXCEPT !.running = gc.running - 1, !.percent = gc.prev]

LeaveScan ==
  gc' = [gc EXCEPT !.running = gc.running - 1,
                   !.percent = IF gc.running = 1 THEN gc.prev ELSE gc.percent]

\* initialize was handled, which starts the first scan, and initialized follows.
Init ==
  /\ ReadLoopInit /\ inbox = <<Initialized>>
  /\ disk \in {d \in [Files -> {Gone, 1}] : \A f \in Files \ Edited : d[f] = 1}
  /\ time = 1 /\ unseen = [f \in Files |-> 0]
  /\ watcher = "none" /\ news = {} /\ requests = 0
  /\ opened \in SUBSET Folders /\ roots = opened
  /\ index = [f \in Files |-> [file |-> f, text |-> Gone, at |-> 0]]
  /\ newest = [f \in Files |-> 0]
  /\ scan = Go([s \in Scans |-> Off], {})
  /\ batch = [b \in Batches |-> Off] /\ walk = Off /\ demand = {}
  /\ \E p \in Settings : gc = [percent |-> p, prev |-> p, running |-> 0, own |-> p]

-----------------------------------------------------------------------------
(* The disk and the client.                                                *)

\* A program writes or deletes a file.  The client watches the folders it has
\* open, once it was asked to, and reports the last of what happened to a file.
Change(f) ==
  /\ f \in Edited /\ time <= MaxChanges /\ time' = time + 1
  /\ \E text \in {Gone, time + 1} \ {disk[f]} :
       /\ disk' = [disk EXCEPT ![f] = text]
       /\ IF watcher = "watching" /\ FolderOf[f] \in opened
          THEN /\ news' = {e \in news : e.file # f} \cup
                            {[file |-> f, deleted |-> text = Gone, at |-> time + 1]}
               /\ UNCHANGED unseen
          ELSE unseen' = [unseen EXCEPT ![f] = time + 1] /\ UNCHANGED news
  /\ UNCHANGED <<opened, requests, watcher, filed, roots, scan, batch, walk, demand, gc, readLoop>>

Report ==
  /\ news # {} /\ news' = {} /\ Arrives([kind |-> "watched", events |-> news])
  /\ UNCHANGED <<disk, time, unseen, opened, requests, watcher, filed, roots, scan, batch,
                 walk, demand, gc>>

\* A command, or a folder that is opened or closed.
Request(m) ==
  /\ requests < MaxRequests /\ requests' = requests + 1 /\ Arrives(m)
  /\ UNCHANGED <<disk, time, unseen, news, watcher, filed, roots, scan, batch, walk, demand, gc>>

Commands ==
  /\ \/ Request(Reindex)
     \/ /\ Format \notin apart \cup {serving} \cup {inbox[i] : i \in DOMAIN inbox}
        /\ Request(Format)
  /\ UNCHANGED opened

OpenFolder(d) ==
  /\ opened' = IF d \in opened THEN opened \ {d} ELSE opened \cup {d}
  /\ Request([kind |-> "folder", folder |-> d, added |-> d \notin opened])

\* The client answers, and starts to watch if that was asked.
Answers(c) ==
  /\ Answer(c)
  /\ watcher' = IF c = "register" THEN "watching" ELSE watcher
  /\ UNCHANGED <<world, filed, roots, scan, batch, walk, demand, gc>>

-----------------------------------------------------------------------------
(* The handlers.                                                           *)

Reads ==
  /\ Read \/ ReadReply
  /\ UNCHANGED <<world, watcher, filed, roots, scan, batch, walk, demand, gc>>

\* handleInitialized: a goroutine registers the watchers,
HandleInitialized ==
  /\ serving = Initialized /\ Return /\ watcher' = "starting"
  /\ UNCHANGED <<world, filed, roots, scan, batch, walk, demand, gc>>

\* registerFileWatchers.
Register ==
  /\ watcher = "starting" /\ CallAlone("register") /\ watcher' = "asked"
  /\ UNCHANGED <<world, filed, roots, scan, batch, walk, demand, gc>>

\* cmdReindex and cmdRestartDaemon, as far as the index.
HandleReindex ==
  /\ serving = Reindex /\ Return
  /\ Idle(scan) # {} /\ scan' = Go(scan, {})
  /\ UNCHANGED <<world, watcher, filed, roots, batch, walk, demand, gc>>

\* cmdFormat, which has not asked yet, asks the client to apply the edit, or
\* returns if there is none.
HandleFormat ==
  /\ serving = Format /\ Format \notin apart
  /\ CallFrom(Format, "edit") \/ Return
  /\ UNCHANGED <<world, watcher, filed, roots, scan, batch, walk, demand, gc>>

ReturnFormat ==
  /\ ReturnApart(Format) /\ call["edit"] = "none"
  /\ UNCHANGED <<world, watcher, filed, roots, scan, batch, walk, demand, gc>>

\* handleDidChangeWatchedFiles.
HandleWatched ==
  /\ serving.kind = "watched" /\ Return
  /\ Idle(batch) # {} /\ batch' = Go(batch, serving.events)
  /\ UNCHANGED <<world, watcher, filed, roots, scan, walk, demand, gc>>

\* handleDidChangeWorkspaceFolders: RemoveFilesUnder for a folder that was
\* closed, and the walk of one that was opened.
CloseFolder ==
  /\ serving.kind = "folder" /\ ~serving.added /\ Return
  /\ LET under == In({serving.folder}) IN
       /\ index' = [f \in Files |-> IF f \in under THEN [file |-> f, text |-> Gone, at |-> time]
                                    ELSE index[f]]
       /\ newest' = [f \in Files |-> IF f \in under THEN time ELSE newest[f]]
  /\ roots' = roots \ {serving.folder}
  /\ UNCHANGED <<world, watcher, scan, batch, walk, demand, gc>>

BeginWalk ==
  /\ serving.kind = "folder" /\ serving.added /\ walk = Off
  /\ roots' = roots \cup {serving.folder} /\ EnterScan
  /\ walk' = [Off EXCEPT !.pc = "work", !.todo = Found({serving.folder})]
  /\ UNCHANGED <<world, watcher, filed, scan, batch, demand, readLoop>>

ReadInWalk ==
  /\ walk.read = {}
  /\ \E f \in walk.todo :
       walk' = [walk EXCEPT !.todo = walk.todo \ {f},
                            !.read = {r \in {Reading(f)} : Exists(r)}]
  /\ UNCHANGED <<world, watcher, filed, roots, scan, batch, demand, gc, readLoop>>

\* A file that was listed and is gone when it is looked at ends the whole walk.
CutWalk ==
  /\ walk.read = {} /\ \E f \in walk.todo : disk[f] = Gone
  /\ LeaveOut(walk.todo) /\ walk' = [walk EXCEPT !.todo = {}]
  /\ UNCHANGED <<disk, time, news, opened, requests, watcher, filed, roots, scan, batch, demand,
                 gc, readLoop>>

FileInWalk ==
  /\ \E r \in walk.read : File(r)
  /\ walk' = [walk EXCEPT !.read = {}]
  /\ UNCHANGED <<world, watcher, roots, scan, batch, demand, gc, readLoop>>

EndWalk ==
  /\ walk.pc = "work" /\ walk.todo = {} /\ walk.read = {}
  /\ walk' = Off /\ LeaveScan /\ Return
  /\ UNCHANGED <<world, watcher, filed, roots, scan, batch, demand>>

-----------------------------------------------------------------------------
(* indexWorkspace: workers read the files that were found, one consumer     *)
(* files the results.                                                       *)

BeginScan(s) ==
  /\ scan[s].pc = "start" /\ EnterScan
  /\ scan' = [scan EXCEPT ![s] = [Off EXCEPT !.pc = "list", !.todo = Found(roots)]]
  /\ UNCHANGED <<world, watcher, filed, roots, batch, walk, demand, readLoop>>

\* collectCFCFiles, which looks at every name that it listed: what comes after
\* one that is gone is not collected.
Collect(s) ==
  /\ scan[s].pc = "list"
  /\ LET there == scan[s].todo \cap Found(Folders) IN
       \E some \in IF there = scan[s].todo THEN {there} ELSE SUBSET there :
         /\ scan' = [scan EXCEPT ![s].pc = "work", ![s].todo = some]
         /\ LeaveOut(there \ some)
  /\ UNCHANGED <<disk, time, news, opened, requests, watcher, filed, roots, batch, walk, demand, gc,
                 readLoop>>

ReadInScan(s) ==
  /\ scan[s].pc = "work" /\ Cardinality(scan[s].read) < Room
  /\ \E f \in scan[s].todo :
       scan' = [scan EXCEPT ![s].todo = @ \ {f},
                            ![s].read = @ \cup {r \in {Reading(f)} : Exists(r)}]
  /\ UNCHANGED <<world, watcher, filed, roots, batch, walk, demand, gc, readLoop>>

FileInScan(s) ==
  /\ \E r \in scan[s].read : File(r) /\ scan' = [scan EXCEPT ![s].read = @ \ {r}]
  /\ UNCHANGED <<world, watcher, roots, batch, walk, demand, gc, readLoop>>

EndScan(s) ==
  /\ scan[s].pc = "work" /\ scan[s].todo = {} /\ scan[s].read = {}
  /\ scan' = [scan EXCEPT ![s] = Off] /\ LeaveScan
  /\ UNCHANGED <<world, watcher, filed, roots, batch, walk, demand, readLoop>>

-----------------------------------------------------------------------------
(* applyWatchedFileChange, for one file after the other.                    *)

\* A deletion is believed, whether or not the file is open.
Delete(b) ==
  /\ batch[b].read = {}
  /\ \E e \in batch[b].todo :
       /\ e.deleted /\ File([file |-> e.file, text |-> Gone, at |-> e.at])
       /\ batch' = [batch EXCEPT ![b].todo = @ \ {e}]
  /\ UNCHANGED <<world, watcher, roots, scan, walk, demand, gc, readLoop>>

\* Mutant of ReadInBatch: a file that the index holds is not read again.
ReadInBatchMissing(b) ==
  /\ batch[b].read = {}
  /\ \E e \in batch[b].todo :
       /\ ~e.deleted
       /\ batch' = [batch EXCEPT ![b].todo = @ \ {e},
                      ![b].read = IF Exists(index[e.file]) THEN {} ELSE {Reading(e.file)}]
  /\ UNCHANGED <<world, watcher, filed, roots, scan, walk, demand, gc, readLoop>>

\* Another change is read from the disk, where the file may be gone by now.
ReadInBatch(b) ==
  /\ batch[b].read = {}
  /\ \E e \in batch[b].todo :
       /\ ~e.deleted
       /\ batch' = [batch EXCEPT ![b].todo = @ \ {e},
                      ![b].read = {Reading(e.file)}]
  /\ UNCHANGED <<world, watcher, filed, roots, scan, walk, demand, gc, readLoop>>

FileInBatch(b) ==
  /\ \E r \in batch[b].read : File(r)
  /\ batch' = [batch EXCEPT ![b].read = {}]
  /\ UNCHANGED <<world, watcher, roots, scan, walk, demand, gc, readLoop>>

EndBatch(b) ==
  /\ batch[b].pc = "start" /\ batch[b].todo = {} /\ batch[b].read = {}
  /\ batch' = [batch EXCEPT ![b] = Off]
  /\ UNCHANGED <<world, watcher, filed, roots, scan, walk, demand, gc, readLoop>>

-----------------------------------------------------------------------------
(* EnsureIndexed, for a file that a question leads to.                      *)

ReadOnDemand(f) ==
  /\ demand = {} /\ ~Exists(index[f]) /\ Exists(Reading(f)) /\ demand' = {Reading(f)}
  /\ UNCHANGED <<world, watcher, filed, roots, scan, batch, walk, gc, readLoop>>

FileOnDemand ==
  /\ \E r \in demand : File(r)
  /\ demand' = {}
  /\ UNCHANGED <<world, watcher, roots, scan, batch, walk, gc, readLoop>>

-----------------------------------------------------------------------------
Scanning(s) == BeginScan(s) \/ Collect(s) \/ ReadInScan(s) \/ FileInScan(s) \/ EndScan(s)
Applying(b) == Delete(b) \/ ReadInBatch(b) \/ FileInBatch(b) \/ EndBatch(b)
Handling == \/ HandleInitialized \/ HandleReindex \/ HandleFormat \/ HandleWatched
            \/ CloseFolder \/ BeginWalk \/ ReadInWalk \/ CutWalk \/ FileInWalk \/ EndWalk

\* What the server does, and the client when it was asked.
Work ==
  \/ \E c \in Calls : Answers(c)
  \/ Reads \/ Handling \/ Register \/ ReturnFormat \/ FileOnDemand
  \/ \E s \in Scans : Scanning(s)
  \/ \E b \in Batches : Applying(b)

Next ==
  \/ \E f \in Files : Change(f) \/ ReadOnDemand(f)
  \/ Report \/ Commands \/ \E d \in Folders : OpenFolder(d)
  \/ Work

Spec == Init /\ [][Next]_vars

-----------------------------------------------------------------------------
(* Properties.                                                             *)

\* Nothing is on its way to the index.
Settled ==
  /\ news = {} /\ inbox = <<>> /\ serving = Nobody /\ walk = Off /\ demand = {}
  /\ \A s \in Scans : scan[s] = Off
  /\ \A b \in Batches : batch[b] = Off

\* When all is settled, a closed file of an open folder is in the index as it
\* is on the disk, unless an older reading was filed over a newer one, or the
\* file was changed when nobody watched, or left out, and not read since: no
\* other order of scans, walks, reports and lookups loses a file or keeps one
\* that is gone.
OnlyOvertakenLags ==
  Settled => \A f \in In(roots) : \/ index[f].text = disk[f]
                                  \/ index[f].at < newest[f]
                                  \/ index[f].at < unseen[f]

\* How many scans and walks run.
Running == Cardinality({s \in Scans : scan[s].pc \in {"list", "work"}})
             + IF walk.pc = "work" THEN 1 ELSE 0

\* The collector's setting is the process's own whenever no scan runs, and
\* indexing's, or a lower one of its own, while one does, however they overlap.
CollectorRestored ==
  gc.percent = IF Running = 0 \/ gc.own < IndexingPercent THEN gc.own ELSE IndexingPercent

\* Somebody is owed something: a message is not handled, a request of the server
\* not answered, a goroutine not at its end.
Busy ==
  \/ inbox # <<>> \/ serving # Nobody \/ apart # {} \/ walk # Off \/ demand # {}
  \/ \E c \in Calls : call[c] # "none"
  \/ \E s \in Scans : scan[s] # Off
  \/ \E b \in Batches : batch[b] # Off

\* The handler on the reading goroutine has a next step.
HandlerMoves ==
  \/ serving = Initialized
  \/ serving = Reindex /\ Idle(scan) # {}
  \/ serving = Format /\ Format \notin apart
  \/ serving.kind = "watched" /\ Idle(batch) # {}
  \/ serving.kind = "folder" /\ (serving.added => walk = Off)

\* A worker has something to read and room for it, or something to file, or is done.
WorkerMoves(w, room) ==
  (w.todo # {} /\ Cardinality(w.read) < room) \/ w.read # {} \/ w.todo = {}

\* Someone can take a step of Work: the guards of its actions, which beyond them
\* only say what changes.
CanMove ==
  \/ \E c \in Calls : call[c] = "asked"
  \/ serving = Nobody /\ inbox # <<>>
  \/ HandlerMoves
  \/ Format \in apart /\ call["edit"] = "none"
  \/ watcher = "starting" /\ call["register"] = "none"
  \/ demand # {}
  \/ walk.pc = "work" /\ WorkerMoves(walk, 1)
  \/ \E s \in Scans : \/ scan[s].pc \in {"start", "list"}
                      \/ scan[s].pc = "work" /\ WorkerMoves(scan[s], Room)
  \/ \E b \in Batches : batch[b].pc = "start" /\ WorkerMoves(batch[b], 1)

\* As long as a message is not handled, a request not answered or a goroutine not
\* at its end, someone can move: no handler waits for what only its own goroutine
\* can read, no worker for a place that nobody frees.
NeverStuck == Busy => CanMove
==============================================================================
