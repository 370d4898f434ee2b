------------------------------- MODULE CodeMap -------------------------------
(***************************************************************************)
(* `clif graph --db`: the whole-project code map.                          *)
(*                                                                         *)
(* Build reads every component into the resolver's index and takes a       *)
(* fingerprint of what it read; then Workers goroutines scan the files and *)
(* one collector merges what they send.  A scan first asks the file_cache  *)
(* table for a row under (fingerprint, content hash); scans that parse     *)
(* buffer a row, and the buffer is written in batches.  buildGraph flushes *)
(* the buffer, saves the map in one transaction and prunes the rows of     *)
(* other fingerprints.  The files may change, and the process may be       *)
(* killed, at any moment; what the database holds survives.                *)
(*                                                                         *)
(* A file's text is a value; Funcs, Calls, Refs and Incls say what a parse *)
(* finds in it.  A hash is modelled as the text it is the hash of, and the *)
(* fingerprint as the texts of the components that were indexed: SHA-256   *)
(* is taken to have no collisions.  A node's details (line, access, entry  *)
(* and utility marks) are modelled by what decides them: the text and the  *)
(* command's flags for the node of a scanned file, the file that refers to *)
(* it for a placeholder.  Edge counts, statistics, routes and the edges of *)
(* calls that stay a guess or leave the workspace are left out; a key that *)
(* two workers buffer counts once towards a full buffer.                   *)
(***************************************************************************)
EXTENDS Naturals, Sequences, FiniteSets

CONSTANTS
  Files,        \* the paths a directory walk may find
  Cfcs,         \* those that are components; the others are pages
  Outside,      \* components the resolver finds outside the scanned tree
  Volatile,     \* files that are created and deleted while the system runs
  Text,         \* what a file may hold
  TextsOf,      \* [Files -> SUBSET Text]: what each file may hold
  Funcs,        \* [Text -> set of function names]: what a text declares
  Calls,        \* [Text -> set of [by, to, fn]]: its calls, by Top or a function
  Refs,         \* [Text -> set of [by, to, kind]]: what it extends and instantiates
  Incls,        \* [Text -> SUBSET Files]: the pages it includes
  Flags,        \* settings of --entry, --utility, --unresolved, --builtins
  Workers,
  NoFile, Top,
  FlushAt,      \* cacheFlushAt
  Room,         \* capacity of the results channel per worker, 2 in Build
  MaxEdits, MaxBuilds, MaxFailures   \* bounds of the model

ASSUME CodeMapAssumption ==
  /\ Cfcs \subseteq Files /\ Volatile \subseteq Files
  /\ NoFile \notin Text
  /\ TextsOf \in [Files -> SUBSET Text]
  /\ \A t \in Text : \A r \in Refs[t] : r.to \in Cfcs \cup Outside
  /\ FlushAt \in Nat \ {0} /\ Room \in Nat \ {0}
  /\ IsFiniteSet(Files) /\ IsFiniteSet(Workers) /\ Workers # {}

VARIABLES
  disk,      \* [Files -> Text or NoFile]: the working tree
  pc,        \* where buildGraph is
  flags,     \* the flags of this command
  listed,    \* opts.Files: the files the walk found
  unread,    \* components indexPass has not read yet
  env,       \* what it read: the resolver's index and the fingerprint
  todo,      \* files not handed to a worker yet
  worker,    \* [Workers -> record]: the goroutines that scan
  results,   \* the channel of FileGraphs, of capacity Room * Workers
  coll,      \* the collector: nodes, which of them are provisional, edges
  pending,   \* Cache.pending: rows not written yet
  rows,      \* the file_cache table
  map,       \* what Build returned
  stored,    \* the nodes and edges tables
  scanned,   \* [Files -> FileGraph]: what a parse of the text that was read gives
  merged,    \* the files whose graph the collector has
  edits, builds, failures            \* counters for the bounds

vars == <<disk, pc, flags, listed, unread, env, todo, worker, results, coll,
          pending, rows, map, stored, scanned, merged, edits, builds, failures>>
buildVars == <<listed, unread, env, todo, worker, results, coll, scanned, merged>>
bounds == <<edits, builds, failures>>

-----------------------------------------------------------------------------
(* What one file contributes.                                              *)

EmptyGraph == [own |-> <<>>, prov |-> <<>>, edges |-> {}]
NodeOf(f, by) == IF by = Top THEN <<f>> ELSE <<f, by>>

\* FileGraph of file f holding text t, resolved against index e, while the
\* files in `there` exist, under flags fl.  A call is an edge if the index has
\* the function; a component or a page that is found gets a placeholder.
ScanFile(f, t, e, there, fl) ==
  LET found == {c \in Calls[t] : c.to \in Cfcs /\ e[c.to] # NoFile /\ c.fn \in Funcs[e[c.to]]}
      refs  == {r \in Refs[t] : r.to \in Outside \cup there}
      incls == Incls[t] \cap there
  IN [own   |-> [id \in {<<f>>} \cup {<<f, fn>> : fn \in Funcs[t]} |-> <<t, fl>>],
      prov  |-> [id \in {<<r.to>> : r \in refs} \cup {<<g>> : g \in incls} |-> <<f>>],
      edges |-> {<<<<f>>, <<f, fn>>, "contains">> : fn \in Funcs[t]}
           \cup {<<NodeOf(f, r.by), <<r.to>>, r.kind>> : r \in refs}
           \cup {<<<<f>>, <<g>>, "includes">> : g \in incls}
           \cup {k \in {<<NodeOf(f, c.by), <<c.to, c.fn>>, "calls">> : c \in found} :
                   k[1] # k[2]}]

\* Mutant of Merge: a placeholder displaces what is there.
MergeLast(c, g) ==
  [nodes |-> [id \in DOMAIN c.nodes \cup DOMAIN g.own \cup DOMAIN g.prov |->
                IF id \in DOMAIN g.prov THEN g.prov[id]
                ELSE IF id \in DOMAIN g.own THEN g.own[id] ELSE c.nodes[id]],
   provisional |-> (c.provisional \ DOMAIN g.own) \cup DOMAIN g.prov,
   edges |-> c.edges \cup g.edges]

\* collector.merge: the node of the file that declares it replaces a
\* placeholder and is not replaced by one.
Merge(c, g) ==
  LET own   == DOMAIN g.own
      fresh == DOMAIN g.prov \ ((DOMAIN c.nodes \ c.provisional) \cup own)
  IN [nodes |-> [id \in DOMAIN c.nodes \cup own \cup fresh |->
                   IF id \in own THEN g.own[id]
                   ELSE IF id \in fresh THEN g.prov[id] ELSE c.nodes[id]],
      provisional |-> (c.provisional \ own) \cup fresh,
      edges |-> c.edges \cup g.edges]

NewCollector == [nodes |-> <<>>, provisional |-> {}, edges |-> {}]

\* collector.finish: edges to nodes nobody declared or named are dropped.
Finished(c) ==
  [nodes |-> c.nodes,
   edges |-> {k \in c.edges : k[1] \in DOMAIN c.nodes /\ k[2] \in DOMAIN c.nodes}]

NoMap == [nodes |-> <<>>, edges |-> {}]

\* Mutant of Row: the key is the content's hash alone.
RowOfText(e, t, g) == [env |-> [c \in Cfcs |-> NoFile], text |-> t, graph |-> g]

\* What Cache.Save keys by the fingerprint and the hash.
Row(e, t, g) == [env |-> e, text |-> t, graph |-> g]

\* INSERT OR REPLACE of a batch
Written(table, batch) ==
  {r \in table : \A b \in batch : <<b.env, b.text>> # <<r.env, r.text>>} \cup batch

Idle == [at |-> "idle", file |-> NoFile, text |-> NoFile, graph |-> EmptyGraph, batch |-> {}]

-----------------------------------------------------------------------------
Init ==
  /\ disk \in [Files -> Text \cup {NoFile}]
  /\ \A f \in Files : disk[f] \in TextsOf[f] \cup (IF f \in Volatile THEN {NoFile} ELSE {})
  /\ pc = "none" /\ flags \in Flags
  /\ listed = {} /\ unread = {} /\ env = [c \in Cfcs |-> NoFile] /\ todo = {}
  /\ worker = [w \in Workers |-> Idle] /\ results = <<>>
  /\ coll = NewCollector /\ pending = {} /\ rows = {}
  /\ map = NoMap /\ stored = NoMap
  /\ scanned = [f \in Files |-> EmptyGraph] /\ merged = {}
  /\ edits = 0 /\ builds = 0 /\ failures = 0

\* Somebody saves, creates or deletes a file.
Edit(f) ==
  /\ edits < MaxEdits /\ edits' = edits + 1
  /\ \E t \in TextsOf[f] \cup (IF f \in Volatile THEN {NoFile} ELSE {}) :
       disk' = [disk EXCEPT ![f] = t]
  /\ UNCHANGED <<pc, flags, buildVars, pending, rows, map, stored, builds, failures>>

\* The command is run: the files are listed, the database is opened.
Start(fl) ==
  /\ pc = "none" /\ builds < MaxBuilds /\ builds' = builds + 1
  /\ pc' = "index" /\ flags' = fl
  /\ listed' = {f \in Files : disk[f] # NoFile}
  /\ unread' = listed' \cap Cfcs
  /\ env' = [c \in Cfcs |-> NoFile]
  /\ todo' = listed'
  /\ worker' = [w \in Workers |-> Idle] /\ results' = <<>> /\ coll' = NewCollector
  /\ scanned' = [f \in Files |-> EmptyGraph] /\ merged' = {}
  /\ map' = NoMap /\ pending' = {}
  /\ UNCHANGED <<disk, rows, stored, edits, failures>>

\* indexPass reads the next component; one that cannot be read is skipped.
IndexOne(c) ==
  /\ pc = "index" /\ c \in unread
  /\ unread' = unread \ {c}
  /\ env' = [env EXCEPT ![c] = disk[c]]
  /\ UNCHANGED <<disk, pc, flags, listed, todo, worker, results, coll, scanned, merged,
                 pending, rows, map, stored, bounds>>

Indexed ==
  /\ pc = "index" /\ unread = {}
  /\ pc' = "scan"
  /\ UNCHANGED <<disk, flags, buildVars, pending, rows, map, stored, bounds>>

-----------------------------------------------------------------------------
(* A worker, and the collector.                                            *)

\* Mutant of TakeJob: a file that cannot be read is scanned all the same.
TakeJobAnyway(w, f) ==
  /\ pc = "scan" /\ worker[w].at = "idle" /\ f \in todo
  /\ todo' = todo \ {f}
  /\ worker' = [worker EXCEPT ![w] =
       [Idle EXCEPT !.at = "load", !.file = f, !.text = disk[f]]]
  /\ UNCHANGED <<disk, pc, flags, listed, unread, env, results, coll, scanned, merged,
                 pending, rows, map, stored, bounds>>

\* It takes a job and reads the file; one that is gone contributes nothing.
TakeJob(w, f) ==
  /\ pc = "scan" /\ worker[w].at = "idle" /\ f \in todo
  /\ todo' = todo \ {f}
  /\ worker' = [worker EXCEPT ![w] =
       [Idle EXCEPT !.at = IF disk[f] = NoFile THEN "send" ELSE "load",
                    !.file = f, !.text = disk[f]]]
  /\ UNCHANGED <<disk, pc, flags, listed, unread, env, results, coll, scanned, merged,
                 pending, rows, map, stored, bounds>>

RowsFor(w) == {r \in rows : r.env = env /\ r.text = worker[w].text}

\* Cache.Load finds a row: the scan returns its graph.
LoadHit(w) ==
  /\ worker[w].at = "load"
  /\ \E r \in RowsFor(w) :
       worker' = [worker EXCEPT ![w] = [@ EXCEPT !.at = "send", !.graph = r.graph]]
  /\ scanned' = [scanned EXCEPT ![worker[w].file] =
       ScanFile(worker[w].file, worker[w].text, env, {g \in Files : disk[g] # NoFile}, flags)]
  /\ UNCHANGED <<disk, pc, flags, listed, unread, env, todo, results, coll, merged,
                 pending, rows, map, stored, bounds>>

\* It finds none, or one it cannot read or decode: the file is parsed and the
\* row buffered, and the worker that fills the buffer takes it away to write it.
Parse(w) ==
  LET g    == ScanFile(worker[w].file, worker[w].text, env,
                       {h \in Files : disk[h] # NoFile}, flags)
      full == Written(pending, {Row(env, worker[w].text, g)})
  IN
  /\ worker[w].at = "load"
  /\ \/ RowsFor(w) = {} /\ UNCHANGED failures
     \/ RowsFor(w) # {} /\ failures < MaxFailures /\ failures' = failures + 1
  /\ scanned' = [scanned EXCEPT ![worker[w].file] = g]
  /\ \/ /\ Cardinality(full) < FlushAt
        /\ worker' = [worker EXCEPT ![w] = [@ EXCEPT !.at = "send", !.graph = g]]
        /\ pending' = full
     \/ /\ Cardinality(full) >= FlushAt
        /\ worker' = [worker EXCEPT ![w] = [@ EXCEPT !.at = "write", !.graph = g, !.batch = full]]
        /\ pending' = {}
  /\ UNCHANGED <<disk, pc, flags, listed, unread, env, todo, results, coll, merged,
                 rows, map, stored, edits, builds>>

\* The batch is committed, or it fails as a whole and is gone: scanFile
\* ignores the error.
WriteBatch(w) ==
  /\ worker[w].at = "write"
  /\ worker' = [worker EXCEPT ![w] = [@ EXCEPT !.at = "send", !.batch = {}]]
  /\ \/ rows' = Written(rows, worker[w].batch) /\ UNCHANGED failures
     \/ failures < MaxFailures /\ failures' = failures + 1 /\ UNCHANGED rows
  /\ UNCHANGED <<disk, pc, flags, listed, unread, env, todo, results, coll, scanned, merged,
                 pending, map, stored, edits, builds>>

\* results <- the graph: waits while the channel is full.
Send(w) ==
  /\ worker[w].at = "send"
  /\ Len(results) < Room * Cardinality(Workers)
  /\ results' = Append(results, [file |-> worker[w].file, graph |-> worker[w].graph])
  /\ worker' = [worker EXCEPT ![w] = Idle]
  /\ UNCHANGED <<disk, pc, flags, listed, unread, env, todo, coll, scanned, merged,
                 pending, rows, map, stored, bounds>>

\* Mutant of Collect: the collector starts when the workers are done.
CollectAfter ==
  /\ pc = "scan" /\ results # <<>> /\ todo = {}
  /\ \A w \in Workers : worker[w].at = "idle"
  /\ coll' = Merge(coll, Head(results).graph)
  /\ merged' = merged \cup {Head(results).file}
  /\ results' = Tail(results)
  /\ UNCHANGED <<disk, pc, flags, listed, unread, env, todo, worker, scanned,
                 pending, rows, map, stored, bounds>>

\* The collector takes a graph from the channel as soon as there is one.
Collect ==
  /\ pc = "scan" /\ results # <<>>
  /\ coll' = Merge(coll, Head(results).graph)
  /\ merged' = merged \cup {Head(results).file}
  /\ results' = Tail(results)
  /\ UNCHANGED <<disk, pc, flags, listed, unread, env, todo, worker, scanned,
                 pending, rows, map, stored, bounds>>

\* The channel is closed once the workers are gone, and drained.
Finish ==
  /\ pc = "scan" /\ todo = {} /\ results = <<>>
  /\ \A w \in Workers : worker[w].at = "idle"
  /\ map' = Finished(coll)
  /\ pc' = "flush"
  /\ UNCHANGED <<disk, flags, buildVars, pending, rows, stored, bounds>>

-----------------------------------------------------------------------------
(* buildGraph after Build.                                                 *)

\* Mutant of FlushCache: what is still buffered is not written.
FlushCacheNot ==
  /\ pc = "flush" /\ pc' = "save" /\ pending' = {}
  /\ UNCHANGED <<disk, flags, buildVars, rows, map, stored, bounds>>

\* Cache.Flush; an error is a warning.
FlushCache ==
  /\ pc = "flush" /\ pc' = "save" /\ pending' = {}
  /\ \/ rows' = Written(rows, pending) /\ UNCHANGED failures
     \/ /\ pending # {} /\ failures < MaxFailures
        /\ failures' = failures + 1 /\ UNCHANGED rows
  /\ UNCHANGED <<disk, flags, buildVars, map, stored, edits, builds>>

\* Store.Save replaces the whole map or, failing, changes nothing and ends
\* the command.
SaveMap ==
  /\ pc = "save"
  /\ \/ stored' = map /\ pc' = "prune" /\ UNCHANGED failures
     \/ /\ failures < MaxFailures /\ failures' = failures + 1
        /\ pc' = "none" /\ UNCHANGED stored
  /\ UNCHANGED <<disk, flags, buildVars, pending, rows, map, edits, builds>>

\* PruneCache keeps the rows of this fingerprint; an error is a warning.
Prune ==
  /\ pc = "prune" /\ pc' = "none"
  /\ \/ rows' = {r \in rows : r.env = env} /\ UNCHANGED failures
     \/ failures < MaxFailures /\ failures' = failures + 1 /\ UNCHANGED rows
  /\ UNCHANGED <<disk, flags, buildVars, pending, map, stored, edits, builds>>

\* The command is killed: only the files and the database remain.
Crash ==
  /\ pc # "none" /\ failures < MaxFailures /\ failures' = failures + 1
  /\ pc' = "none"
  /\ listed' = {} /\ unread' = {} /\ env' = [c \in Cfcs |-> NoFile] /\ todo' = {}
  /\ worker' = [w \in Workers |-> Idle] /\ results' = <<>> /\ coll' = NewCollector
  /\ scanned' = [f \in Files |-> EmptyGraph] /\ merged' = {}
  /\ pending' = {} /\ map' = NoMap
  /\ UNCHANGED <<disk, flags, rows, stored, edits, builds>>

WorkerStep(w) == (\E f \in Files : TakeJob(w, f)) \/ LoadHit(w) \/ Parse(w) \/ WriteBatch(w) \/ Send(w)
CommandStep == (\E c \in Cfcs : IndexOne(c)) \/ Indexed \/ Collect \/ Finish
                 \/ FlushCache \/ SaveMap \/ Prune

Next ==
  \/ \E f \in Files : Edit(f)
  \/ \E fl \in Flags : Start(fl)
  \/ \E w \in Workers : WorkerStep(w)
  \/ CommandStep
  \/ Crash

Spec == Init /\ [][Next]_vars

\* The goroutines of a command that runs are scheduled; nobody has to edit a
\* file, run a command or kill it.
FairSpec ==
  /\ Spec
  /\ WF_vars(CommandStep)
  /\ \A w \in Workers : WF_vars(WorkerStep(w))

-----------------------------------------------------------------------------
(* Properties.                                                             *)

\* The fingerprint and the hash decide what a parse gives: no text is held by
\* two files, no file that comes and goes is included or named, and every
\* command is run with the same flags.  The key in the code assumes it.
KeyDecides ==
  /\ \A f, g \in Files : f # g => TextsOf[f] \cap TextsOf[g] = {}
  /\ \A t \in Text : (Incls[t] \cup {r.to : r \in Refs[t]}) \cap Volatile = {}
  /\ \A a, b \in Flags : a = b

Ids == {<<f>> : f \in Files \cup Outside}
         \cup {<<f, fn>> : f \in Files, fn \in UNION {Funcs[t] : t \in Text}}
Batches == UNION {worker[w].batch : w \in Workers}

\* Type invariant: where each variable stays, and where a goroutine can be
\* while the command is at each of its stages.
TypeOK ==
  /\ disk \in [Files -> Text \cup {NoFile}]
  /\ pc \in {"none", "index", "scan", "flush", "save", "prune"}
  /\ flags \in Flags
  /\ env \in [Cfcs -> Text \cup {NoFile}]
  /\ unread \subseteq Cfcs /\ todo \subseteq listed /\ merged \subseteq listed /\ listed \subseteq Files
  /\ DOMAIN worker = Workers /\ DOMAIN scanned = Files
  /\ \A w \in Workers :
       /\ worker[w].at \in {"idle", "load", "write", "send"}
       /\ worker[w].at # "idle" => worker[w].file \in listed
       /\ worker[w].at = "load" => worker[w].text \in Text
  /\ coll.provisional \subseteq DOMAIN coll.nodes /\ DOMAIN coll.nodes \subseteq Ids
  /\ Len(results) <= Room * Cardinality(Workers)

\* A row is what parsing gives any file that can hold its text, against the
\* components its fingerprint was taken of: in the table, in the buffer or in
\* a batch on its way, whatever failed or was killed in between (the comment
\* on Cache, build.go).
RowsAreScans ==
  \A r \in rows \cup pending \cup Batches : \A f \in Files :
    r.text \in TextsOf[f] => r.graph = ScanFile(f, r.text, r.env, Files \ Volatile, flags)

\* What Build returns is decided by the texts the scans read, not by the order
\* in which workers finish, by what the cache serves or by what an earlier
\* command left: exactly the files' nodes, with the owner's details, and the
\* edges whose ends exist (collector.merge and finish, build.go).
MapIsTheFiles ==
  pc \in {"flush", "save", "prune"} =>
    LET ids == UNION {DOMAIN scanned[f].own \cup DOMAIN scanned[f].prov : f \in listed}
    IN /\ DOMAIN map.nodes = ids
       /\ \A f \in listed : \A id \in DOMAIN scanned[f].own : map.nodes[id] = scanned[f].own[id]
       /\ map.edges = {k \in UNION {scanned[f].edges : f \in listed} : k[1] \in ids /\ k[2] \in ids}

\* With nothing edited, failed or killed, the build after the first parses
\* nothing: every row that was buffered reached the table and outlived the
\* prune (Cache, build.go: "so a rebuild can
\* skip re-parsing it").
RebuildIsCached ==
  builds >= 2 /\ edits = 0 /\ failures = 0
    => pending = {} /\ \A w \in Workers : worker[w].at # "write"

\* A command that was started ends: no worker waits for the collector while
\* the collector waits for the workers.
BuildEnds == pc = "index" ~> pc = "none"

\* The goroutines at one place of their loop, and how far buildGraph has to go.
At(a) == {w \in Workers : worker[w].at = a}
StagesLeft == [index |-> 5, scan |-> 4, flush |-> 3, save |-> 2, prune |-> 1, none |-> 0][pc]

\* The steps that are left of a command at most: each file is taken, loaded, parsed,
\* written, sent and merged, each component read before.
StepsLeft ==
  Cardinality(unread) + 5 * Cardinality(todo) + 4 * Cardinality(At("load"))
    + 3 * Cardinality(At("write")) + 2 * Cardinality(At("send")) + Len(results) + StagesLeft

\* The guards of WorkerStep and CommandStep.
WorkerGoesOn(w) ==
  \/ worker[w].at = "idle" /\ pc = "scan" /\ todo # {}
  \/ worker[w].at \in {"load", "write"}
  \/ worker[w].at = "send" /\ Len(results) < Room * Cardinality(Workers)
CommandGoesOn ==
  \/ pc \in {"index", "flush", "save", "prune"}
  \/ pc = "scan" /\ results # <<>>
  \/ pc = "scan" /\ todo = {} /\ results = <<>> /\ \A w \in Workers : worker[w].at = "idle"

\* A command has fewer steps left after each step but those of an editor.
WindsDown ==
  pc # "none" => \/ StepsLeft' < StepsLeft
                 \/ StepsLeft' = StepsLeft /\ \E f \in Files : Edit(f)

================================================================================
