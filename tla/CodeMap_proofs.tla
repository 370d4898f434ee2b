--------------------------- MODULE CodeMap_proofs ---------------------------
(***************************************************************************)
(* What holds of `clif graph --db` for any files, texts, workers and batch *)
(* size, however the scans interleave, whatever is edited, fails or is     *)
(* killed: the rows of the cache are scans, and, if the cache's key really *)
(* decides what a scan gives, so is the map; and, whatever the key, a      *)
(* rebuild of files nobody touched parses nothing; and a command that runs *)
(* has fewer steps left after each of them, and can take one.  Then what   *)
(* holds of the views of any map that is built.                            *)
(*                                                                         *)
(* The argument: a file that was listed is in one place at a time, waiting,*)
(* with one worker, in the channel or merged (Once); the graph it carries  *)
(* there is its scan (Carried); and the collector holds the graphs of what *)
(* is merged, whatever the order (Collected).  For the rebuild, a listed   *)
(* file of the first build is still to scan or has its row in the buffer,  *)
(* in a worker's batch or in the table (OnItsWay), and the flush brings    *)
(* them all into the table (Cached).  For the views, every map that is     *)
(* shown has the marks its own nodes and edges give it (ShownIsMarked).    *)
(***************************************************************************)
EXTENDS CodeMap, CodeMapViews, FiniteSetTheorems, SequenceTheorems,
        WellFoundedInduction, TLAPS

Env == [Cfcs -> Text \cup {NoFile}]
GraphSet == {EmptyGraph} \cup
  {ScanFile(f, t, e, there, fl) :
     f \in Files, t \in Text, e \in Env, there \in SUBSET Files, fl \in Flags}
RowSet == [env : Env, text : Text, graph : GraphSet]
Msg == [file : Files, graph : GraphSet]
WorkerSet == [at : {"idle", "load", "write", "send"}, file : Files \cup {NoFile},
              text : Text \cup {NoFile}, graph : GraphSet, batch : SUBSET RowSet]

Typed ==
  /\ disk \in [Files -> Text \cup {NoFile}]
  /\ pc \in {"none", "index", "scan", "flush", "save", "prune"}
  /\ flags \in Flags
  /\ listed \in SUBSET Files /\ unread \in SUBSET Cfcs /\ todo \in SUBSET Files
  /\ merged \in SUBSET Files
  /\ env \in Env
  /\ worker \in [Workers -> WorkerSet]
  /\ results \in Seq(Msg)
  /\ pending \in SUBSET RowSet /\ rows \in SUBSET RowSet
  /\ scanned \in [Files -> GraphSet]

\* The texts on the disk are the files' own, and only volatile files are absent.
DiskOK ==
  \A f \in Files : disk[f] \in TextsOf[f] \/ (f \in Volatile /\ disk[f] = NoFile)

Loading ==
  \A w \in Workers : worker[w].at = "load" =>
    worker[w].file \in Files /\ worker[w].text \in TextsOf[worker[w].file]

Busy(w) == worker[w].at # "idle"

\* Workers and channel are empty outside the scan.
Stage ==
  /\ pc # "scan" => results = <<>> /\ \A w \in Workers : ~Busy(w)
  /\ pc \in {"flush", "save", "prune"} => todo = {}

\* A listed file is in exactly one place.
Once ==
  /\ todo \subseteq listed /\ merged \subseteq listed /\ todo \cap merged = {}
  /\ \A w \in Workers : Busy(w) => worker[w].file \in listed \ (todo \cup merged)
  /\ \A v, w \in Workers : Busy(v) /\ Busy(w) /\ v # w => worker[v].file # worker[w].file
  /\ \A i \in 1..Len(results) :
       /\ results[i].file \in listed \ (todo \cup merged)
       /\ \A w \in Workers : Busy(w) => worker[w].file # results[i].file
       /\ \A j \in 1..Len(results) : i # j => results[i].file # results[j].file
  /\ \A f \in listed :
       \/ f \in todo \/ f \in merged
       \/ \E w \in Workers : Busy(w) /\ worker[w].file = f
       \/ \E i \in 1..Len(results) : results[i].file = f

\* Whoever holds a file's graph holds its scan.
Carried ==
  /\ \A f \in todo : scanned[f] = EmptyGraph
  /\ \A w \in Workers : worker[w].at \in {"write", "send"} =>
       worker[w].graph = scanned[worker[w].file]
  /\ \A i \in 1..Len(results) : results[i].graph = scanned[results[i].file]
  /\ \A f \in Files : \A id \in DOMAIN scanned[f].own : id[1] = f

\* Collector c holds the graphs s[f] of the files in M.
CollectedOf(c, M, s) ==
  /\ DOMAIN c.nodes = UNION {DOMAIN s[f].own \cup DOMAIN s[f].prov : f \in M}
  /\ c.provisional \subseteq DOMAIN c.nodes
  /\ DOMAIN c.nodes \ c.provisional = UNION {DOMAIN s[f].own : f \in M}
  /\ \A f \in M : \A id \in DOMAIN s[f].own : c.nodes[id] = s[f].own[id]
  /\ c.edges = UNION {s[f].edges : f \in M}

Collected == CollectedOf(coll, merged, scanned)
Mapped == pc \in {"flush", "save", "prune"} => merged = listed /\ map = Finished(coll)

Kept == RowsAreScans /\ DiskOK /\ Loading
Moved == Stage /\ Once
IInv == Typed /\ Kept /\ Moved /\ Carried /\ Collected /\ Mapped

-----------------------------------------------------------------------------
(* Facts about the operators.                                              *)

\* The empty graph and an empty collector have nothing in them.
LEMMA EmptyIsEmpty ==
  /\ DOMAIN EmptyGraph.own = {} /\ DOMAIN EmptyGraph.prov = {} /\ EmptyGraph.edges = {}
  /\ DOMAIN NewCollector.nodes = {} /\ NewCollector.provisional = {} /\ NewCollector.edges = {}
BY DEF EmptyGraph, NewCollector

\* A graph's own nodes are of the file that was scanned.
LEMMA OwnIsOwn ==
  ASSUME NEW f, NEW t, NEW e, NEW there, NEW fl, NEW id \in DOMAIN ScanFile(f, t, e, there, fl).own
  PROVE  id[1] = f
BY DEF ScanFile

\* Every scan, and the lack of one, is in GraphSet.
LEMMA ScanInGraphSet ==
  ASSUME NEW f \in Files, NEW t \in Text, NEW e \in Env, NEW there \in SUBSET Files, NEW fl \in Flags
  PROVE  ScanFile(f, t, e, there, fl) \in GraphSet
BY DEF GraphSet

LEMMA EmptyInGraphSet == EmptyGraph \in GraphSet
BY DEF GraphSet

LEMMA IdleIsWorker == Idle \in WorkerSet /\ Idle.at = "idle"
BY EmptyInGraphSet DEF Idle, WorkerSet

\* A batch changes only what it holds.
LEMMA WrittenWithin ==
  ASSUME NEW table, NEW batch PROVE Written(table, batch) \subseteq table \cup batch
BY DEF Written

\* A page's text decides what is included if no included page comes and goes.
LEMMA ThereDoesNotMatter ==
  ASSUME KeyDecides, Typed, DiskOK, NEW f \in Files, NEW t \in Text, NEW e, NEW fl
  PROVE  ScanFile(f, t, e, {g \in Files : disk[g] # NoFile}, fl)
           = ScanFile(f, t, e, Files \ Volatile, fl)
<1> DEFINE there == {g \in Files : disk[g] # NoFile}
<1>1. \A g \in Files : g \notin Volatile => disk[g] # NoFile
  BY CodeMapAssumption DEF DiskOK
<1>2. Incls[t] \cap there = Incls[t] \cap (Files \ Volatile)
  BY <1>1 DEF KeyDecides
<1>3. {r \in Refs[t] : r.to \in Outside \cup there}
        = {r \in Refs[t] : r.to \in Outside \cup (Files \ Volatile)}
  BY <1>1 DEF KeyDecides
<1> QED
  BY <1>2, <1>3 DEF ScanFile

\* Merging the graph of one more file, in whatever order they come.
LEMMA MergeCollects ==
  ASSUME NEW c, NEW M, NEW s, NEW f, f \notin M,
         CollectedOf(c, M, s),
         \A g \in M \cup {f} : \A id \in DOMAIN s[g].own : id[1] = g
  PROVE  CollectedOf(Merge(c, s[f]), M \cup {f}, s)
<1> DEFINE own == DOMAIN s[f].own
           fresh == DOMAIN s[f].prov \ ((DOMAIN c.nodes \ c.provisional) \cup own)
           d == Merge(c, s[f])
<1>1. /\ DOMAIN d.nodes = DOMAIN c.nodes \cup own \cup fresh
      /\ d.provisional = (c.provisional \ own) \cup fresh
      /\ d.edges = c.edges \cup s[f].edges
      /\ \A id \in DOMAIN d.nodes : id \in own => d.nodes[id] = s[f].own[id]
      /\ \A id \in DOMAIN d.nodes : id \notin own /\ id \notin fresh => d.nodes[id] = c.nodes[id]
  BY DEF Merge
<1> HIDE DEF d
<1>2. DOMAIN c.nodes \ c.provisional = UNION {DOMAIN s[g].own : g \in M}
  BY DEF CollectedOf
<1>3. DOMAIN d.nodes = UNION {DOMAIN s[g].own \cup DOMAIN s[g].prov : g \in M \cup {f}}
  <2>1. DOMAIN c.nodes \cup own \cup fresh = DOMAIN c.nodes \cup own \cup DOMAIN s[f].prov
    OBVIOUS
  <2>2. DOMAIN c.nodes = UNION {DOMAIN s[g].own \cup DOMAIN s[g].prov : g \in M}
    BY DEF CollectedOf
  <2> QED BY <1>1, <2>1, <2>2
<1>4. d.provisional \subseteq DOMAIN d.nodes
  BY <1>1 DEF CollectedOf
<1>5. DOMAIN d.nodes \ d.provisional = UNION {DOMAIN s[g].own : g \in M \cup {f}}
  <2>1. DOMAIN d.nodes \ d.provisional = (DOMAIN c.nodes \ c.provisional) \cup own
    BY <1>1
  <2> QED BY <1>2, <2>1
<1>6. \A g \in M \cup {f} : \A id \in DOMAIN s[g].own : d.nodes[id] = s[g].own[id]
  <2> SUFFICES ASSUME NEW g \in M \cup {f}, NEW id \in DOMAIN s[g].own
               PROVE  d.nodes[id] = s[g].own[id]
    OBVIOUS
  <2>1. CASE g = f
    BY <1>1, <2>1
  <2>2. CASE g \in M
    <3>1. id \notin own
      BY <2>2
    <3>2. id \in DOMAIN c.nodes /\ id \notin c.provisional
      BY <1>2, <2>2
    <3>3. id \notin fresh
      BY <3>2
    <3> QED BY <1>1, <2>2, <3>1, <3>2, <3>3 DEF CollectedOf
  <2> QED BY <2>1, <2>2
<1>7. d.edges = UNION {s[g].edges : g \in M \cup {f}}
  BY <1>1 DEF CollectedOf
<1> QED
  BY <1>3, <1>4, <1>5, <1>6, <1>7 DEF CollectedOf, d

-----------------------------------------------------------------------------
(* The steps.                                                              *)

\* Every action keeps the variables in their sets.
LEMMA TypedStep ==
  ASSUME Typed, Loading, Once, [Next]_vars PROVE Typed'
<1> USE DEF Typed, bounds, buildVars
<1>1. ASSUME NEW f \in Files, Edit(f) PROVE Typed'
  BY <1>1, CodeMapAssumption DEF Edit
<1>2. ASSUME NEW fl \in Flags, Start(fl) PROVE Typed'
  BY <1>2, IdleIsWorker, EmptyInGraphSet DEF Start, Env
<1>3. ASSUME NEW w \in Workers, NEW f \in Files, TakeJob(w, f) PROVE Typed'
  <2>1. [Idle EXCEPT !.at = IF disk[f] = NoFile THEN "send" ELSE "load",
                      !.file = f, !.text = disk[f]] \in WorkerSet
    BY IdleIsWorker DEF WorkerSet
  <2>2. worker' \in [Workers -> WorkerSet]
    BY <1>3, <2>1 DEF TakeJob
  <2> QED BY <1>3, <2>2 DEF TakeJob
<1>4. ASSUME NEW w \in Workers, LoadHit(w) PROVE Typed'
  <2>1. worker[w].file \in Files /\ worker[w].text \in Text
    BY <1>4, CodeMapAssumption DEF LoadHit, Loading
  <2> DEFINE there == {g \in Files : disk[g] # NoFile}
  <2>2. ScanFile(worker[w].file, worker[w].text, env, there, flags) \in GraphSet
    BY <2>1, ScanInGraphSet
  <2>3. scanned' \in [Files -> GraphSet]
    BY <1>4, <2>1, <2>2 DEF LoadHit
  <2>4. \A r \in RowsFor(w) : r.graph \in GraphSet
    BY DEF RowsFor, RowSet
  <2>5. worker' \in [Workers -> WorkerSet]
    <3>1. PICK r \in RowsFor(w) :
            worker' = [worker EXCEPT ![w] = [@ EXCEPT !.at = "send", !.graph = r.graph]]
      BY <1>4 DEF LoadHit
    <3>2. [worker[w] EXCEPT !.at = "send", !.graph = r.graph] \in WorkerSet
      BY <2>4 DEF WorkerSet
    <3> QED BY <3>1, <3>2
  <2> QED BY <1>4, <2>3, <2>5 DEF LoadHit
<1>5. ASSUME NEW w \in Workers, Parse(w) PROVE Typed'
  <2> DEFINE there == {h \in Files : disk[h] # NoFile}
             g == ScanFile(worker[w].file, worker[w].text, env, there, flags)
             full == Written(pending, {Row(env, worker[w].text, g)})
  <2>1. worker[w].file \in Files /\ worker[w].text \in Text
    BY <1>5, CodeMapAssumption DEF Parse, Loading
  <2>2. g \in GraphSet
    BY <2>1, ScanInGraphSet
  <2>3. scanned' \in [Files -> GraphSet]
    BY <1>5, <2>1, <2>2 DEF Parse
  <2>4. Row(env, worker[w].text, g) \in RowSet
    BY <2>1, <2>2 DEF Row, RowSet
  <2>5. full \in SUBSET RowSet
    BY <2>4, WrittenWithin
  <2> HIDE DEF g, full
  <2>6. pending' \in SUBSET RowSet
    BY <1>5, <2>5 DEF Parse, g, full
  <2>7. worker' = [worker EXCEPT ![w] = [@ EXCEPT !.at = "send", !.graph = g]]
          \/ worker' = [worker EXCEPT ![w] = [@ EXCEPT !.at = "write", !.graph = g, !.batch = full]]
    BY <1>5 DEF Parse, g, full
  <2>8. worker' \in [Workers -> WorkerSet]
    <3>1. [worker[w] EXCEPT !.at = "send", !.graph = g] \in WorkerSet
      BY <2>2 DEF WorkerSet
    <3>2. [worker[w] EXCEPT !.at = "write", !.graph = g, !.batch = full] \in WorkerSet
      BY <2>2, <2>5 DEF WorkerSet
    <3> QED BY <2>7, <3>1, <3>2
  <2> QED BY <1>5, <2>3, <2>6, <2>8 DEF Parse
<1>6. ASSUME NEW w \in Workers, WriteBatch(w) PROVE Typed'
  <2>1. worker[w].batch \in SUBSET RowSet
    BY DEF WorkerSet
  <2>2. rows' \in SUBSET RowSet
    BY <1>6, <2>1, WrittenWithin DEF WriteBatch
  <2>3. worker' \in [Workers -> WorkerSet]
    BY <1>6 DEF WriteBatch, WorkerSet
  <2> QED BY <1>6, <2>2, <2>3 DEF WriteBatch
<1>7. ASSUME NEW w \in Workers, Send(w) PROVE Typed'
  <2>1. worker[w].file \in Files
    BY <1>7 DEF Send, Once, Busy
  <2>2. [file |-> worker[w].file, graph |-> worker[w].graph] \in Msg
    BY <2>1 DEF WorkerSet, Msg
  <2> QED BY <1>7, <2>2, IdleIsWorker DEF Send
<1>8. ASSUME NEW k \in Cfcs, IndexOne(k) PROVE Typed'
  BY <1>8, CodeMapAssumption DEF IndexOne, Env
<1>9. CASE Indexed
  BY <1>9 DEF Indexed
<1>10. CASE Collect
  <2>1. Head(results) \in Msg /\ Tail(results) \in Seq(Msg)
    BY <1>10 DEF Collect
  <2> QED BY <1>10, <2>1 DEF Collect, Msg
<1>11. CASE Finish
  BY <1>11 DEF Finish
<1>12. CASE FlushCache
  BY <1>12, WrittenWithin DEF FlushCache
<1>13. CASE SaveMap
  BY <1>13 DEF SaveMap
<1>14. CASE Prune
  BY <1>14 DEF Prune
<1>15. CASE Crash
  BY <1>15, IdleIsWorker, EmptyInGraphSet DEF Crash, Env
<1>16. CASE UNCHANGED vars
  BY <1>16 DEF vars
<1> QED
  BY <1>1, <1>2, <1>3, <1>4, <1>5, <1>6, <1>7, <1>8, <1>9, <1>10, <1>11, <1>12, <1>13, <1>14, <1>15, <1>16 DEF Next, WorkerStep, CommandStep

\* The disk changes only by an edit.
LEMMA DiskStep ==
  ASSUME Typed, DiskOK, [Next]_vars PROVE DiskOK'
<1>1. ASSUME NEW f \in Files, Edit(f) PROVE DiskOK'
  BY <1>1 DEF Edit, DiskOK, Typed
<1>2. CASE disk' = disk
  BY <1>2 DEF DiskOK
<1> QED
  BY <1>1, <1>2 DEF Next, WorkerStep, CommandStep, vars, Start, TakeJob, LoadHit, Parse,
     WriteBatch, Send, IndexOne, Indexed, Collect, Finish, FlushCache, SaveMap, Prune, Crash

\* A worker that is to scan has read one of the file's texts.
LEMMA LoadingStep ==
  ASSUME Typed, DiskOK, Loading, [Next]_vars PROVE Loading'
<1> USE DEF Loading, Typed, WorkerSet
<1>1. ASSUME NEW w \in Workers, NEW f \in Files, TakeJob(w, f) PROVE Loading'
  BY <1>1, IdleIsWorker DEF TakeJob, DiskOK
<1>2. ASSUME NEW fl \in Flags, Start(fl) PROVE Loading'
  BY <1>2, IdleIsWorker DEF Start
<1>3. CASE Crash
  BY <1>3, IdleIsWorker DEF Crash
<1>4. ASSUME NEW w \in Workers, LoadHit(w) PROVE Loading'
  BY <1>4 DEF LoadHit
<1>5. ASSUME NEW w \in Workers, Parse(w) PROVE Loading'
  BY <1>5 DEF Parse
<1>6. ASSUME NEW w \in Workers, WriteBatch(w) PROVE Loading'
  BY <1>6 DEF WriteBatch
<1>7. ASSUME NEW w \in Workers, Send(w) PROVE Loading'
  BY <1>7, IdleIsWorker DEF Send
<1>8. CASE worker' = worker
  BY <1>8
<1> QED
  BY <1>1, <1>2, <1>3, <1>4, <1>5, <1>6, <1>7, <1>8 DEF Next, WorkerStep, CommandStep, vars,
     Edit, IndexOne, Indexed, Collect, Finish, FlushCache, SaveMap, Prune, buildVars

\* A row is good for command flags fl.
RowOK(r, fl) == \A f \in Files :
  r.text \in TextsOf[f] => r.graph = ScanFile(f, r.text, r.env, Files \ Volatile, fl)
AllRows == rows \cup pending \cup Batches

\* No step makes a row but from the scan that was just done.
LEMMA RowsStep ==
  ASSUME KeyDecides, Typed, DiskOK, Loading, RowsAreScans, [Next]_vars PROVE RowsAreScans'
<1> USE DEF Typed
<1>1. flags' = flags
  <2>1. flags' \in Flags
    BY DEF Next, WorkerStep, CommandStep, vars, Edit, Start, TakeJob, LoadHit, Parse,
     WriteBatch, Send, IndexOne, Indexed, Collect, Finish, FlushCache, SaveMap, Prune, Crash
  <2> QED BY <2>1 DEF KeyDecides
<1>2. SUFFICES ASSUME NEW r, r \in AllRows', r \notin AllRows PROVE RowOK(r, flags)
  BY <1>1, <1>2 DEF RowsAreScans, RowOK, AllRows
<1> USE DEF AllRows, Batches
<1>3. Idle.batch = {} /\ \A w \in Workers : worker[w] \in WorkerSet
  BY DEF Idle
<1>4. CASE worker' = worker /\ rows' \subseteq rows /\ pending' \subseteq pending
  BY <1>2, <1>4
<1>5. ASSUME NEW fl \in Flags, Start(fl) PROVE FALSE
  BY <1>2, <1>3, <1>5 DEF Start
<1>6. CASE Crash
  BY <1>2, <1>3, <1>6 DEF Crash
<1>7. ASSUME NEW w \in Workers, NEW f \in Files, TakeJob(w, f) PROVE FALSE
  <2>1. worker' = [worker EXCEPT ![w] = worker'[w]] /\ worker'[w].batch = {}
    BY <1>3, <1>7 DEF TakeJob, Idle
  <2> QED BY <1>2, <1>7, <2>1 DEF TakeJob
<1>8. ASSUME NEW w \in Workers, Send(w) PROVE FALSE
  BY <1>2, <1>3, <1>8 DEF Send
<1>9. ASSUME NEW w \in Workers, LoadHit(w) PROVE FALSE
  <2>1. worker' = [worker EXCEPT ![w] = worker'[w]] /\ worker'[w].batch = worker[w].batch
    BY <1>3, <1>9 DEF LoadHit, WorkerSet
  <2> QED BY <1>2, <1>9, <2>1 DEF LoadHit
<1>10. ASSUME NEW w \in Workers, WriteBatch(w) PROVE FALSE
  <2>1. worker' = [worker EXCEPT ![w] = worker'[w]] /\ worker'[w].batch = {}
    BY <1>3, <1>10 DEF WriteBatch, WorkerSet
  <2>2. rows' \subseteq rows \cup worker[w].batch
    BY <1>10, WrittenWithin DEF WriteBatch
  <2> QED BY <1>2, <1>10, <2>1, <2>2 DEF WriteBatch
<1>11. CASE FlushCache
  <2>1. rows' \subseteq rows \cup pending
    BY <1>11, WrittenWithin DEF FlushCache
  <2> QED BY <1>2, <1>11, <2>1 DEF FlushCache, buildVars
<1>12. ASSUME NEW w \in Workers, Parse(w) PROVE RowOK(r, flags)
  <2> DEFINE file == worker[w].file
             text == worker[w].text
             g == ScanFile(file, text, env, {h \in Files : disk[h] # NoFile}, flags)
             full == Written(pending, {Row(env, text, g)})
  <2>1. full \subseteq pending \cup {Row(env, text, g)}
    BY WrittenWithin
  <2> HIDE DEF g, full
  <2>2. rows' = rows /\ (pending' = full \/ pending' = {})
    BY <1>12 DEF Parse, g, full
  <2>3. \/ worker' = [worker EXCEPT ![w] = [@ EXCEPT !.at = "send", !.graph = g]]
        \/ worker' = [worker EXCEPT ![w] = [@ EXCEPT !.at = "write", !.graph = g, !.batch = full]]
    BY <1>12 DEF Parse, g, full
  <2>4. worker' = [worker EXCEPT ![w] = worker'[w]]
        /\ (worker'[w].batch = worker[w].batch \/ worker'[w].batch = full)
    <3> worker[w] \in WorkerSet
      BY <1>3
    <3>1. [worker[w] EXCEPT !.at = "send", !.graph = g].batch = worker[w].batch
      BY DEF WorkerSet
    <3>2. [worker[w] EXCEPT !.at = "write", !.graph = g, !.batch = full].batch = full
      BY DEF WorkerSet
    <3> QED BY <2>3, <3>1, <3>2
  <2>5. r = Row(env, text, g)
    <3>1. r \in full \/ r \in Batches'
      BY <1>2, <2>2
    <3>2. ASSUME NEW v \in Workers, r \in worker'[v].batch PROVE r \in full
      <4>1. worker[v].batch \subseteq Batches
        OBVIOUS
      <4>2. worker'[v].batch = worker[v].batch \/ worker'[v].batch = full
        BY <2>4
      <4> QED BY <1>2, <3>2, <4>1, <4>2
    <3> QED BY <1>2, <2>1, <3>1, <3>2
  <2>6. file \in Files /\ text \in TextsOf[file] /\ text \in Text
    BY <1>12, CodeMapAssumption DEF Parse, Loading
  <2>7. g = ScanFile(file, text, env, Files \ Volatile, flags)
    BY <2>6, ThereDoesNotMatter DEF g
  <2>8. \A f \in Files : text \in TextsOf[f] => f = file
    BY <2>6 DEF KeyDecides
  <2> QED BY <2>5, <2>6, <2>7, <2>8 DEF RowOK, Row
<1> QED
  BY <1>2, <1>4, <1>5, <1>6, <1>7, <1>8, <1>9, <1>10, <1>11, <1>12
  DEF Next, WorkerStep, CommandStep, vars, Edit, IndexOne, Indexed, Collect, Finish,
      SaveMap, Prune, buildVars

\* A worker that is busy is scanning: outside the scan none is.
LEMMA StageStep ==
  ASSUME Typed, Stage, Once, [Next]_vars PROVE Stage'
<1> USE DEF Stage, Busy, Typed
<1>1. ASSUME NEW fl \in Flags, Start(fl) PROVE Stage'
  BY <1>1, IdleIsWorker DEF Start
<1>2. CASE Crash
  BY <1>2, IdleIsWorker DEF Crash
<1>3. ASSUME NEW w \in Workers, NEW f \in Files, TakeJob(w, f) PROVE Stage'
  BY <1>3 DEF TakeJob
<1>4. ASSUME NEW w \in Workers, LoadHit(w) PROVE Stage'
  BY <1>4 DEF LoadHit
<1>5. ASSUME NEW w \in Workers, Parse(w) PROVE Stage'
  BY <1>5 DEF Parse
<1>6. ASSUME NEW w \in Workers, WriteBatch(w) PROVE Stage'
  BY <1>6 DEF WriteBatch
<1>7. ASSUME NEW w \in Workers, Send(w) PROVE Stage'
  BY <1>7 DEF Send
<1>8. CASE Collect
  BY <1>8 DEF Collect
<1>9. CASE Finish
  BY <1>9 DEF Finish, buildVars
<1>10. CASE UNCHANGED <<worker, results, todo>> /\ (pc' = pc \/ Indexed \/ FlushCache \/ SaveMap \/ Prune)
  BY <1>10 DEF Indexed, FlushCache, SaveMap, Prune
<1> QED
  BY <1>1, <1>2, <1>3, <1>4, <1>5, <1>6, <1>7, <1>8, <1>9, <1>10
  DEF Next, WorkerStep, CommandStep, vars, buildVars, Edit, IndexOne, Indexed,
      FlushCache, SaveMap, Prune

\* A worker that goes on with its file.
LEMMA OnceGoesOn ==
  ASSUME Typed, Once, NEW w \in Workers, NEW x, Busy(w), x.at # "idle",
         x.file = worker[w].file, worker' = [worker EXCEPT ![w] = x],
         UNCHANGED <<listed, todo, merged, results>>
  PROVE  Once'
<1>1. \A v \in Workers : (Busy(v)' <=> Busy(v)) /\ (Busy(v) => worker'[v].file = worker[v].file)
  BY DEF Busy, Typed
<1> QED BY <1>1 DEF Once, Busy

\* A listed file stays in exactly one place.
LEMMA OnceStep ==
  ASSUME Typed, Stage, Once, [Next]_vars PROVE Once'
<1> USE DEF Typed
<1>1. ASSUME NEW fl \in Flags, Start(fl) PROVE Once'
  BY <1>1, IdleIsWorker DEF Start, Once, Busy
<1>2. CASE Crash
  BY <1>2, IdleIsWorker DEF Crash, Once, Busy
<1>3. ASSUME NEW w \in Workers, NEW f \in Files, TakeJob(w, f) PROVE Once'
  <2>1. worker' = [worker EXCEPT ![w] = worker'[w]]
        /\ worker'[w].at # "idle" /\ worker'[w].file = f
    BY <1>3 DEF TakeJob, Idle
  <2>2. /\ f \in todo /\ todo' = todo \ {f} /\ ~Busy(w)
        /\ UNCHANGED <<listed, merged, results>>
    BY <1>3 DEF TakeJob, Busy
  <2>3. \A v \in Workers : v # w => worker'[v] = worker[v]
    BY <2>1
  <2> HIDE DEF Typed
  <2> USE <2>1, <2>2, <2>3 DEF Once, Busy
  <2>4. todo' \subseteq listed' /\ merged' \subseteq listed' /\ todo' \cap merged' = {}
    OBVIOUS
  <2>5. \A v \in Workers : Busy(v)' => worker'[v].file \in listed' \ (todo' \cup merged')
    OBVIOUS
  <2>6. \A u, v \in Workers : Busy(u)' /\ Busy(v)' /\ u # v => worker'[u].file # worker'[v].file
    OBVIOUS
  <2>7. \A i \in 1..Len(results) :
       /\ results[i].file \in listed' \ (todo' \cup merged')
       /\ \A v \in Workers : Busy(v)' => worker'[v].file # results[i].file
       /\ \A j \in 1..Len(results) : i # j => results[i].file # results[j].file
    OBVIOUS
  <2>8. \A g \in listed :
       \/ g \in todo' \/ g \in merged
       \/ \E v \in Workers : Busy(v)' /\ worker'[v].file = g
       \/ \E i \in 1..Len(results) : results[i].file = g
    OBVIOUS
  <2> QED BY <2>4, <2>5, <2>6, <2>7, <2>8
<1>4. ASSUME NEW w \in Workers, LoadHit(w) PROVE Once'
  <2>1. PICK r \in RowsFor(w) :
            worker' = [worker EXCEPT ![w] = [@ EXCEPT !.at = "send", !.graph = r.graph]]
    BY <1>4 DEF LoadHit
  <2>2. [worker[w] EXCEPT !.at = "send", !.graph = r.graph].at # "idle"
        /\ [worker[w] EXCEPT !.at = "send", !.graph = r.graph].file = worker[w].file
    BY DEF WorkerSet
  <2> QED BY <1>4, <2>1, <2>2, OnceGoesOn DEF LoadHit, Busy
<1>5. ASSUME NEW w \in Workers, Parse(w) PROVE Once'
  <2>1. PICK g, b : \/ worker' = [worker EXCEPT ![w] = [@ EXCEPT !.at = "send", !.graph = g]]
                   \/ worker' = [worker EXCEPT ![w] = [@ EXCEPT !.at = "write", !.graph = g, !.batch = b]]
    BY <1>5 DEF Parse
  <2>2. [worker[w] EXCEPT !.at = "send", !.graph = g].at # "idle"
        /\ [worker[w] EXCEPT !.at = "send", !.graph = g].file = worker[w].file
    BY DEF WorkerSet
  <2>3. [worker[w] EXCEPT !.at = "write", !.graph = g, !.batch = b].at # "idle"
        /\ [worker[w] EXCEPT !.at = "write", !.graph = g, !.batch = b].file = worker[w].file
    BY DEF WorkerSet
  <2>4. Busy(w) /\ UNCHANGED <<listed, todo, merged, results>>
    BY <1>5 DEF Parse, Busy
  <2> QED BY <2>1, <2>2, <2>3, <2>4, OnceGoesOn
<1>6. ASSUME NEW w \in Workers, WriteBatch(w) PROVE Once'
  <2>1. [worker[w] EXCEPT !.at = "send", !.batch = {}].at # "idle"
        /\ [worker[w] EXCEPT !.at = "send", !.batch = {}].file = worker[w].file
    BY DEF WorkerSet
  <2> QED BY <1>6, <2>1, OnceGoesOn DEF WriteBatch, Busy
<1>7. ASSUME NEW w \in Workers, Send(w) PROVE Once'
  <2> DEFINE n == Len(results)
  <2>1. /\ n \in Nat /\ Len(results') = n + 1 /\ results'[n + 1].file = worker[w].file
        /\ \A i \in 1..n : results'[i] = results[i]
    BY <1>7 DEF Send
  <2>2. worker' = [worker EXCEPT ![w] = Idle] /\ Busy(w)
        /\ UNCHANGED <<listed, todo, merged>>
    BY <1>7 DEF Send, Busy
  <2>3. ~Busy(w)' /\ \A v \in Workers : v # w => worker'[v] = worker[v]
    BY <2>2, IdleIsWorker DEF Busy
  <2>4. \A i \in 1..(n + 1) : i \in 1..n \/ i = n + 1
    BY <2>1
  <2>5. 1..n \subseteq 1..(n + 1) /\ n + 1 \in 1..(n + 1) /\ n + 1 \notin 1..n
    BY <2>1
  <2> HIDE DEF Typed, n
  <2> USE DEF Once
  <2>6. \A v \in Workers : Busy(v)' => v # w /\ Busy(v) /\ worker'[v] = worker[v]
    BY <2>3 DEF Busy
  <2>7. \A i \in 1..(n + 1) :
       /\ results'[i].file \in listed \ (todo \cup merged)
       /\ \A v \in Workers : Busy(v)' => worker'[v].file # results'[i].file
       /\ \A j \in 1..(n + 1) : i # j => results'[i].file # results'[j].file
    <3> SUFFICES ASSUME NEW i \in 1..(n + 1) PROVE
       /\ results'[i].file \in listed \ (todo \cup merged)
       /\ \A v \in Workers : Busy(v)' => worker'[v].file # results'[i].file
       /\ \A j \in 1..(n + 1) : i # j => results'[i].file # results'[j].file
      OBVIOUS
    <3>1. CASE i \in 1..n
      BY <2>1, <2>2, <2>4, <2>6, <3>1 DEF n
    <3>2. CASE i = n + 1
      BY <2>1, <2>2, <2>4, <2>6, <3>2 DEF n
    <3> QED BY <2>4, <3>1, <3>2
  <2>8. ASSUME NEW g \in listed PROVE
       \/ g \in todo \/ g \in merged
       \/ \E v \in Workers : Busy(v)' /\ worker'[v].file = g
       \/ \E i \in 1..(n + 1) : results'[i].file = g
    <3>1. CASE g \in todo \/ g \in merged
      BY <3>1
    <3>2. ASSUME NEW v \in Workers, Busy(v), worker[v].file = g PROVE
            \/ \E u \in Workers : Busy(u)' /\ worker'[u].file = g
            \/ \E i \in 1..(n + 1) : results'[i].file = g
      BY <2>1, <2>3, <2>5, <3>2 DEF Busy
    <3>3. ASSUME NEW i \in 1..n, results[i].file = g PROVE \E j \in 1..(n + 1) : results'[j].file = g
      BY <2>1, <2>5, <3>3
    <3> QED BY <3>1, <3>2, <3>3 DEF n
  <2>9. \A u, v \in Workers : Busy(u)' /\ Busy(v)' /\ u # v => worker'[u].file # worker'[v].file
    BY <2>6
  <2>10. \A v \in Workers : Busy(v)' => worker'[v].file \in listed \ (todo \cup merged)
    BY <2>6
  <2> QED BY <2>1, <2>2, <2>7, <2>8, <2>9, <2>10
<1>8. CASE Collect
  <2> DEFINE n == Len(results)
  <2>1. /\ n \in Nat \ {0} /\ Head(results) = results[1]
        /\ Len(results') = n - 1 /\ \A i \in 1..(n - 1) : results'[i] = results[i + 1]
    BY <1>8 DEF Collect
  <2>2. /\ merged' = merged \cup {results[1].file}
        /\ UNCHANGED <<listed, todo, worker>>
    BY <1>8, <2>1 DEF Collect
  <2>3. \A i \in 1..(n - 1) : i + 1 \in 1..n /\ i + 1 # 1
    BY <2>1
  <2>4. \A i, j \in 1..(n - 1) : i # j => i + 1 # j + 1
    BY <2>1
  <2>5. \A i \in 1..n : i = 1 \/ (i - 1 \in 1..(n - 1) /\ (i - 1) + 1 = i)
    BY <2>1
  <2>6. 1 \in 1..n
    BY <2>1
  <2>7. \A v \in Workers : Busy(v)' <=> Busy(v)
    BY <2>2 DEF Busy
  <2> HIDE DEF Typed, n
  <2> USE DEF Once
  <2>8. results[1].file \in listed \ (todo \cup merged)
        /\ \A v \in Workers : Busy(v) => worker[v].file # results[1].file
    BY <2>6 DEF n
  <2>9. ASSUME NEW i \in 1..(n - 1) PROVE
       /\ results'[i].file \in listed \ (todo \cup merged')
       /\ \A v \in Workers : Busy(v) => worker[v].file # results'[i].file
       /\ \A j \in 1..(n - 1) : i # j => results'[i].file # results'[j].file
    <3> DEFINE k == i + 1
    <3>1. k \in 1..n /\ k # 1 /\ results'[i] = results[k]
      BY <2>1, <2>3
    <3>2. /\ results[k].file \in listed \ (todo \cup merged)
          /\ \A v \in Workers : Busy(v) => worker[v].file # results[k].file
          /\ \A j \in 1..n : k # j => results[k].file # results[j].file
      BY <3>1 DEF n
    <3>3. \A j \in 1..(n - 1) : i # j =>
            /\ results'[j] = results[j + 1] /\ j + 1 \in 1..n /\ k # j + 1
      BY <2>1, <2>3, <2>4
    <3> HIDE DEF k
    <3>4. results[k].file # results[1].file
      BY <2>6, <3>1, <3>2
    <3> QED BY <2>2, <3>1, <3>2, <3>3, <3>4
  <2>10. ASSUME NEW g \in listed PROVE
       \/ g \in todo \/ g \in merged'
       \/ \E v \in Workers : Busy(v) /\ worker[v].file = g
       \/ \E i \in 1..(n - 1) : results'[i].file = g
    <3>1. ASSUME NEW i \in 1..n, results[i].file = g PROVE
            g \in merged' \/ \E j \in 1..(n - 1) : results'[j].file = g
      <4>1. CASE i = 1
        BY <2>2, <3>1, <4>1
      <4>2. CASE i # 1
        <5>1. i - 1 \in 1..(n - 1) /\ results'[i - 1] = results[i]
          BY <2>1, <2>5, <4>2
        <5> QED BY <3>1, <5>1
      <4> QED BY <4>1, <4>2
    <3> QED BY <2>2, <3>1 DEF n
  <2> QED BY <2>1, <2>2, <2>7, <2>8, <2>9, <2>10
<1>9. CASE UNCHANGED <<listed, todo, merged, worker, results>>
  BY <1>9 DEF Once, Busy
<1> QED
  BY <1>1, <1>2, <1>3, <1>4, <1>5, <1>6, <1>7, <1>8, <1>9
  DEF Next, WorkerStep, CommandStep, vars, buildVars, Edit, IndexOne, Indexed, Finish,
      FlushCache, SaveMap, Prune

\* A graph that is scanned anew is nobody else's.
LEMMA CarriedScan ==
  ASSUME Typed, Once, Carried, NEW w \in Workers, Busy(w), NEW g, NEW x,
         x.graph = g, x.file = worker[w].file, x.at # "idle",
         \A id \in DOMAIN g.own : id[1] = worker[w].file,
         worker' = [worker EXCEPT ![w] = x],
         scanned' = [scanned EXCEPT ![worker[w].file] = g],
         UNCHANGED <<todo, results>>
  PROVE  Carried'
<1> DEFINE f == worker[w].file
<1>1. f \in Files /\ f \notin todo
  BY DEF Once, Typed
<1>2. scanned'[f] = g /\ \A h \in Files : h # f => scanned'[h] = scanned[h]
  BY <1>1 DEF Typed
<1>3. worker'[w] = x /\ \A v \in Workers : v # w => worker'[v] = worker[v]
  BY DEF Typed
<1>4. todo \subseteq Files /\ \A v \in Workers : Busy(v) => worker[v].file \in Files
  BY DEF Once, Typed
<1>5. \A v \in Workers : Busy(v) /\ v # w => worker[v].file # f
  BY DEF Once
<1>6. \A i \in 1..Len(results) : results[i].file \in Files /\ results[i].file # f
  BY DEF Once, Typed
<1> HIDE DEF f
<1>7. \A h \in todo : scanned'[h] = EmptyGraph
  BY <1>1, <1>2, <1>4 DEF Carried
<1>8. ASSUME NEW v \in Workers, worker'[v].at \in {"write", "send"}
      PROVE  worker'[v].graph = scanned'[worker'[v].file]
  BY <1>2, <1>3, <1>4, <1>5, <1>8 DEF Carried, Busy, f
<1>9. \A i \in 1..Len(results) : results[i].graph = scanned'[results[i].file]
  BY <1>2, <1>6 DEF Carried
<1>10. \A h \in Files : \A id \in DOMAIN scanned'[h].own : id[1] = h
  BY <1>2 DEF Carried, f
<1> QED BY <1>7, <1>8, <1>9, <1>10 DEF Carried

\* Whoever holds a graph goes on holding that file's scan; a hit in the cache
\* is what a parse would have given.
LEMMA CarriedStep ==
  ASSUME KeyDecides, Typed, Kept, Moved, Carried, [Next]_vars PROVE Carried'
<1> USE DEF Typed, Kept, Moved
<1>1. ASSUME NEW fl \in Flags, Start(fl) PROVE Carried'
  BY <1>1, IdleIsWorker, EmptyIsEmpty DEF Start, Carried
<1>2. CASE Crash
  BY <1>2, IdleIsWorker, EmptyIsEmpty DEF Crash, Carried
<1>3. ASSUME NEW w \in Workers, NEW f \in Files, TakeJob(w, f) PROVE Carried'
  <2>1. worker' = [worker EXCEPT ![w] = worker'[w]] /\ worker'[w].file = f
        /\ worker'[w].graph = EmptyGraph
    BY <1>3 DEF TakeJob, Idle
  <2> QED BY <1>3, <2>1 DEF TakeJob, Carried
<1>4. ASSUME NEW w \in Workers, LoadHit(w) PROVE Carried'
  <2> DEFINE f == worker[w].file
             g == ScanFile(f, worker[w].text, env, {h \in Files : disk[h] # NoFile}, flags)
  <2>1. PICK r \in RowsFor(w) :
            worker' = [worker EXCEPT ![w] = [@ EXCEPT !.at = "send", !.graph = r.graph]]
    BY <1>4 DEF LoadHit
  <2>2. f \in Files /\ worker[w].text \in TextsOf[f] /\ worker[w].text \in Text
    BY <1>4, CodeMapAssumption DEF LoadHit, Loading
  <2>3. r.graph = ScanFile(f, r.text, r.env, Files \ Volatile, flags)
        /\ r.text = worker[w].text /\ r.env = env
    BY <2>2 DEF RowsFor, RowsAreScans
  <2>4. r.graph = g
    <3> DiskOK
      OBVIOUS
    <3> HIDE DEF Typed, Kept
    <3>1. g = ScanFile(f, worker[w].text, env, Files \ Volatile, flags)
      BY <2>2, ThereDoesNotMatter
    <3> QED BY <2>3, <3>1
  <2>5. \A id \in DOMAIN g.own : id[1] = f
    BY OwnIsOwn
  <2>6. scanned' = [scanned EXCEPT ![f] = g] /\ UNCHANGED <<todo, results>> /\ Busy(w)
    BY <1>4 DEF LoadHit, Busy
  <2> DEFINE x == [worker[w] EXCEPT !.at = "send", !.graph = g]
  <2> HIDE DEF g
  <2>7. x.graph = g /\ x.file = f /\ x.at # "idle"
    BY DEF WorkerSet
  <2>8. worker' = [worker EXCEPT ![w] = x]
    BY <2>1, <2>4
  <2> QED BY <2>5, <2>6, <2>7, <2>8, CarriedScan
<1>5. ASSUME NEW w \in Workers, Parse(w) PROVE Carried'
  <2> DEFINE f == worker[w].file
             g == ScanFile(f, worker[w].text, env, {h \in Files : disk[h] # NoFile}, flags)
  <2>1. PICK b : \/ worker' = [worker EXCEPT ![w] = [@ EXCEPT !.at = "send", !.graph = g]]
                \/ worker' = [worker EXCEPT ![w] = [@ EXCEPT !.at = "write", !.graph = g, !.batch = b]]
    BY <1>5 DEF Parse
  <2>2. \A id \in DOMAIN g.own : id[1] = f
    BY OwnIsOwn
  <2>3. scanned' = [scanned EXCEPT ![f] = g] /\ UNCHANGED <<todo, results>> /\ Busy(w)
    BY <1>5 DEF Parse, Busy
  <2> HIDE DEF g
  <2> DEFINE x == [worker[w] EXCEPT !.at = "send", !.graph = g]
             y == [worker[w] EXCEPT !.at = "write", !.graph = g, !.batch = b]
  <2>4. x.graph = g /\ x.file = f /\ x.at # "idle"
    BY DEF WorkerSet
  <2>5. y.graph = g /\ y.file = f /\ y.at # "idle"
    BY DEF WorkerSet
  <2> HIDE DEF x, y
  <2>6. CASE worker' = [worker EXCEPT ![w] = x]
    BY <2>2, <2>3, <2>4, <2>6, CarriedScan
  <2>7. CASE worker' = [worker EXCEPT ![w] = y]
    BY <2>2, <2>3, <2>5, <2>7, CarriedScan
  <2> QED BY <2>1, <2>6, <2>7 DEF x, y
<1>6. ASSUME NEW w \in Workers, WriteBatch(w) PROVE Carried'
  <2>1. worker' = [worker EXCEPT ![w] = worker'[w]] /\ worker'[w].file = worker[w].file
        /\ worker'[w].graph = worker[w].graph /\ worker[w].at = "write"
    BY <1>6 DEF WriteBatch, WorkerSet
  <2> QED BY <1>6, <2>1 DEF WriteBatch, Carried
<1>7. ASSUME NEW w \in Workers, Send(w) PROVE Carried'
  <2>1. worker' = [worker EXCEPT ![w] = worker'[w]] /\ worker'[w].at = "idle"
    BY <1>7, IdleIsWorker DEF Send
  <2>2. /\ Len(results') = Len(results) + 1 /\ Len(results) \in Nat
        /\ \A i \in 1..Len(results) : results'[i] = results[i]
        /\ results'[Len(results) + 1] = [file |-> worker[w].file, graph |-> worker[w].graph]
    BY <1>7 DEF Send
  <2>3. \A i \in 1..Len(results') : i \in 1..Len(results) \/ i = Len(results) + 1
    BY <2>2
  <2>4. worker[w].graph = scanned[worker[w].file] /\ UNCHANGED <<todo, scanned>>
    BY <1>7 DEF Send, Carried
  <2>5. \A i \in 1..Len(results') : results'[i].graph = scanned[results'[i].file]
    BY <2>2, <2>3, <2>4 DEF Carried
  <2> QED BY <2>1, <2>4, <2>5 DEF Carried
<1>8. CASE Collect
  <2>1. /\ Len(results) \in Nat \ {0} /\ Len(results') = Len(results) - 1
        /\ \A i \in 1..(Len(results) - 1) : results'[i] = results[i + 1]
    BY <1>8 DEF Collect
  <2>2. \A i \in 1..Len(results') : i + 1 \in 1..Len(results)
    BY <2>1
  <2> QED BY <1>8, <2>1, <2>2 DEF Collect, Carried
<1>9. CASE UNCHANGED <<todo, worker, results, scanned>>
  BY <1>9 DEF Carried
<1> QED
  BY <1>1, <1>2, <1>3, <1>4, <1>5, <1>6, <1>7, <1>8, <1>9
  DEF Next, WorkerStep, CommandStep, vars, buildVars, Edit, IndexOne, Indexed, Finish,
      FlushCache, SaveMap, Prune

\* The collector holds what is merged, and nothing else.
LEMMA CollectedStep ==
  ASSUME Typed, Moved, Carried, Collected, [Next]_vars PROVE Collected'
<1> USE DEF Typed, Moved
<1>1. ASSUME coll' = NewCollector, merged' = {} PROVE Collected'
  BY <1>1, EmptyIsEmpty DEF Collected, CollectedOf
<1>2. ASSUME NEW w \in Workers, Busy(w), NEW g, UNCHANGED <<coll, merged>>,
             scanned' = [scanned EXCEPT ![worker[w].file] = g]
      PROVE  Collected'
  <2>1. worker[w].file \notin merged
    BY <1>2 DEF Once
  <2>2. \A f \in merged : scanned'[f] = scanned[f]
    BY <1>2, <2>1
  <2> QED BY <1>2, <2>2 DEF Collected, CollectedOf
<1>3. ASSUME NEW w \in Workers, LoadHit(w) \/ Parse(w) PROVE Collected'
  <2>1. PICK g : scanned' = [scanned EXCEPT ![worker[w].file] = g]
    BY <1>3 DEF LoadHit, Parse
  <2>2. Busy(w) /\ UNCHANGED <<coll, merged>>
    BY <1>3 DEF LoadHit, Parse, Busy
  <2> QED BY <1>2, <2>1, <2>2
<1>4. CASE Collect
  <2> DEFINE f == Head(results).file
  <2>1. 1 \in 1..Len(results) /\ Head(results) = results[1]
    BY <1>4 DEF Collect
  <2>2. f \in Files /\ f \notin merged /\ Head(results).graph = scanned[f]
    BY <2>1 DEF Once, Carried
  <2>3. coll' = Merge(coll, scanned[f]) /\ merged' = merged \cup {f} /\ scanned' = scanned
    BY <1>4, <2>2 DEF Collect
  <2>4. \A g \in merged \cup {f} : \A id \in DOMAIN scanned[g].own : id[1] = g
    BY <2>2 DEF Carried
  <2> HIDE DEF f
  <2>5. CollectedOf(Merge(coll, scanned[f]), merged \cup {f}, scanned)
    BY <2>2, <2>4, MergeCollects DEF Collected
  <2> QED BY <2>3, <2>5 DEF Collected
<1>5. CASE UNCHANGED <<coll, merged, scanned>>
  BY <1>5 DEF Collected
<1> QED
  BY <1>1, <1>3, <1>4, <1>5
  DEF Next, WorkerStep, CommandStep, vars, buildVars, Edit, Start, IndexOne, Indexed,
      TakeJob, WriteBatch, Send, Finish, FlushCache, SaveMap, Prune, Crash

\* The map is made of all that was listed.
LEMMA MappedStep ==
  ASSUME Typed, Moved, Mapped, [Next]_vars PROVE Mapped'
<1> USE DEF Mapped
<1>1. CASE Finish
  <2>1. \A f \in listed : f \in merged
    BY <1>1 DEF Finish, Moved, Once, Busy
  <2>2. merged = listed
    BY <2>1 DEF Moved, Once
  <2> QED BY <1>1, <2>2 DEF Finish, buildVars
<1>2. CASE UNCHANGED <<merged, listed, map, coll>>
           /\ (pc' = pc \/ Indexed \/ FlushCache \/ SaveMap \/ Prune)
  BY <1>2 DEF Indexed, FlushCache, SaveMap, Prune
<1>3. ASSUME NEW w \in Workers, WorkerStep(w) PROVE Mapped'
  BY <1>3 DEF WorkerStep, TakeJob, LoadHit, Parse, WriteBatch, Send
<1>4. CASE Collect
  BY <1>4 DEF Collect
<1>5. ASSUME NEW fl \in Flags, Start(fl) PROVE Mapped'
  BY <1>5 DEF Start
<1>6. CASE Crash
  BY <1>6 DEF Crash
<1> QED
  BY <1>1, <1>2, <1>3, <1>4, <1>5, <1>6
  DEF Next, CommandStep, vars, buildVars, Edit, IndexOne, Indexed, FlushCache, SaveMap, Prune

-----------------------------------------------------------------------------
(* The theorems.                                                           *)

\* Nothing is running at the start.
LEMMA InitIInv == Init => IInv
<1> SUFFICES ASSUME Init PROVE IInv
  OBVIOUS
<1> USE IdleIsWorker, EmptyInGraphSet, EmptyIsEmpty DEF Init
<1>1. Typed
  BY CodeMapAssumption DEF Typed, Env
<1>2. Loading /\ Stage /\ Once /\ Carried
  BY DEF Loading, Stage, Once, Busy, Carried
<1>3. Batches = {}
  BY DEF Batches, Idle
<1>4. RowsAreScans
  BY <1>3 DEF RowsAreScans
<1>5. DiskOK
  <2> SUFFICES ASSUME NEW f \in Files
               PROVE  disk[f] \in TextsOf[f] \/ (f \in Volatile /\ disk[f] = NoFile)
    BY DEF DiskOK
  <2>1. disk[f] \in TextsOf[f] \cup (IF f \in Volatile THEN {NoFile} ELSE {})
    OBVIOUS
  <2> QED BY <2>1
<1>6. Collected /\ Mapped
  BY DEF Collected, CollectedOf, Mapped
<1> QED BY <1>1, <1>2, <1>4, <1>5, <1>6 DEF IInv, Kept, Moved

\* The invariant is kept if the key decides.
LEMMA IInvStep == ASSUME KeyDecides, IInv, [Next]_vars PROVE IInv'
<1> USE DEF IInv, Kept, Moved
<1> QED
  BY TypedStep, DiskStep, LoadingStep, RowsStep, StageStep, OnceStep, CarriedStep,
     CollectedStep, MappedStep

LEMMA InvariantHolds == ASSUME KeyDecides PROVE Spec => []IInv
BY InitIInv, IInvStep, PTL DEF Spec

\* The rows the cache holds, buffers or writes are scans of the text and the
\* components they are keyed by (Cache, build.go), whatever is edited, fails or
\* is killed, for any number of files and workers and any batch size, as long
\* as the fingerprint and the hash decide what a scan gives.
THEOREM CacheHoldsScans == ASSUME KeyDecides PROVE Spec => []RowsAreScans
<1>1. IInv => RowsAreScans
  BY DEF IInv, Kept
<1> QED BY <1>1, InvariantHolds, PTL

\* Under the same assumption the map Build returns is the files' (collector,
\* build.go): neither the order of the scans nor the cache shows in it.
THEOREM MapIsAlwaysTheFiles == ASSUME KeyDecides PROVE Spec => []MapIsTheFiles
<1>1. IInv => MapIsTheFiles
  <2> SUFFICES ASSUME IInv, pc \in {"flush", "save", "prune"}
      PROVE LET ids == UNION {DOMAIN scanned[f].own \cup DOMAIN scanned[f].prov : f \in listed}
            IN /\ DOMAIN map.nodes = ids
               /\ \A f \in listed : \A id \in DOMAIN scanned[f].own : map.nodes[id] = scanned[f].own[id]
               /\ map.edges = {k \in UNION {scanned[f].edges : f \in listed} : k[1] \in ids /\ k[2] \in ids}
    BY DEF MapIsTheFiles
  <2>1. CollectedOf(coll, listed, scanned) /\ map.nodes = coll.nodes
        /\ map.edges = {k \in coll.edges : k[1] \in DOMAIN coll.nodes /\ k[2] \in DOMAIN coll.nodes}
    BY DEF IInv, Collected, Mapped, Finished
  <2> QED BY <2>1 DEF CollectedOf
<1> QED BY <1>1, InvariantHolds, PTL

-----------------------------------------------------------------------------
(* Type correctness needs no assumption on the key.                        *)

Within ==
  /\ coll.provisional \subseteq DOMAIN coll.nodes /\ DOMAIN coll.nodes \subseteq Ids
  /\ Len(results) <= Room * Cardinality(Workers)
TInv == Typed /\ DiskOK /\ Loading /\ Moved /\ Within

\* A graph names files, components and functions there are.
LEMMA GraphIds ==
  ASSUME NEW g \in GraphSet PROVE DOMAIN g.own \subseteq Ids /\ DOMAIN g.prov \subseteq Ids
<1>1. CASE g = EmptyGraph
  BY <1>1, EmptyIsEmpty
<1>2. ASSUME NEW f \in Files, NEW t \in Text, NEW e \in Env, NEW there \in SUBSET Files,
             NEW fl \in Flags, g = ScanFile(f, t, e, there, fl)
      PROVE  DOMAIN g.own \subseteq Ids /\ DOMAIN g.prov \subseteq Ids
  <2>1. DOMAIN g.own = {<<f>>} \cup {<<f, fn>> : fn \in Funcs[t]}
    BY <1>2 DEF ScanFile
  <2>2. \A fn \in Funcs[t] : fn \in UNION {Funcs[u] : u \in Text}
    OBVIOUS
  <2>3. DOMAIN g.prov \subseteq {<<h>> : h \in Files \cup Outside}
    BY <1>2, CodeMapAssumption DEF ScanFile
  <2> QED BY <2>1, <2>2, <2>3 DEF Ids
<1> QED BY <1>1, <1>2 DEF GraphSet

\* Only the collector's merge and the channel's ends matter.
LEMMA WithinStep ==
  ASSUME Typed, Moved, Within, [Next]_vars PROVE Within'
<1> USE DEF Typed, Within
<1>0. Cardinality(Workers) \in Nat /\ Room * Cardinality(Workers) \in Nat
  BY CodeMapAssumption, FS_CardinalityType
<1>1. ASSUME coll' = NewCollector, results' = <<>> PROVE Within'
  BY <1>0, <1>1, EmptyIsEmpty
<1>2. ASSUME NEW w \in Workers, Send(w) PROVE Within'
  BY <1>0, <1>2 DEF Send
<1>3. CASE Collect
  <2> DEFINE g == Head(results).graph
  <2>1. g \in GraphSet /\ Len(results') <= Len(results)
    <3>1. Head(results) \in Msg
      BY <1>3 DEF Collect
    <3>2. results' = Tail(results) /\ Len(results) \in Nat \ {0} /\ Len(results') = Len(results) - 1
      BY <1>3 DEF Collect
    <3> QED BY <3>1, <3>2 DEF Msg
  <2>2. coll' = Merge(coll, g)
    BY <1>3 DEF Collect
  <2>3. DOMAIN g.own \subseteq Ids /\ DOMAIN g.prov \subseteq Ids
    BY <2>1, GraphIds
  <2> HIDE DEF g
  <2>4. coll'.provisional \subseteq DOMAIN coll'.nodes /\ DOMAIN coll'.nodes \subseteq Ids
    BY <2>2, <2>3 DEF Merge
  <2>5. Len(results') \in Nat /\ Len(results) \in Nat
    BY <1>3 DEF Collect
  <2> QED BY <1>0, <2>1, <2>4, <2>5
<1>4. ASSUME coll' = coll, results' = results PROVE Within'
  BY <1>4
<1>5. ASSUME NEW w \in Workers, WorkerStep(w) PROVE Send(w) \/ (coll' = coll /\ results' = results)
  BY <1>5, Zenon DEF WorkerStep, TakeJob, LoadHit, Parse, WriteBatch
<1>6. CommandStep => Collect \/ (coll' = coll /\ results' = results)
  BY DEF CommandStep, IndexOne, Indexed, Finish, FlushCache, SaveMap, Prune, buildVars
<1>7. ASSUME NEW f \in Files, Edit(f) PROVE Within'
  BY <1>4, <1>7 DEF Edit, buildVars
<1>8. ASSUME NEW fl \in Flags, Start(fl) PROVE Within'
  BY <1>1, <1>8 DEF Start
<1>9. CASE Crash
  BY <1>1, <1>9 DEF Crash
<1>10. CASE UNCHANGED vars
  BY <1>4, <1>10 DEF vars, buildVars
<1> QED
  BY <1>2, <1>3, <1>4, <1>5, <1>6, <1>7, <1>8, <1>9, <1>10 DEF Next

\* Typed and in place, at first and from then on.
LEMMA TypedAtFirst == ASSUME Init PROVE TInv
<1>1. IInv
  BY InitIInv
<1>2. Room * Cardinality(Workers) \in Nat
  BY CodeMapAssumption, FS_CardinalityType
<1>3. Within
  BY <1>2, EmptyIsEmpty DEF Init, Within
<1> QED BY <1>1, <1>3 DEF IInv, Kept, TInv

LEMMA TypedOn == ASSUME TInv, [Next]_vars PROVE TInv'
BY TypedStep, DiskStep, LoadingStep, StageStep, OnceStep, WithinStep DEF TInv, Moved

\* The types of `clif graph --db`: where every variable stays, that a worker
\* only scans what it has read, that the channel never holds more than its
\* capacity and that every placeholder is a node.
THEOREM CodeMapTyped == Spec => []TypeOK
<1>1. Init => TInv
  BY TypedAtFirst
<1>2. TInv /\ [Next]_vars => TInv'
  BY TypedOn
<1>3. TInv => TypeOK
  <2> SUFFICES ASSUME TInv PROVE TypeOK
    OBVIOUS
  <2> USE DEF TInv
  <2>1. env \in [Cfcs -> Text \cup {NoFile}] /\ DOMAIN worker = Workers /\ DOMAIN scanned = Files
    BY DEF Typed, Env
  <2>2. ASSUME NEW w \in Workers PROVE
       /\ worker[w].at \in {"idle", "load", "write", "send"}
       /\ worker[w].at # "idle" => worker[w].file \in listed
       /\ worker[w].at = "load" => worker[w].text \in Text
    BY CodeMapAssumption DEF Typed, WorkerSet, Moved, Once, Busy, Loading
  <2>3. /\ disk \in [Files -> Text \cup {NoFile}]
        /\ pc \in {"none", "index", "scan", "flush", "save", "prune"}
        /\ flags \in Flags /\ unread \subseteq Cfcs /\ listed \subseteq Files
    BY DEF Typed
  <2>4. todo \subseteq listed /\ merged \subseteq listed
    BY DEF Moved, Once
  <2>5. Within
    OBVIOUS
  <2> HIDE DEF TInv
  <2> QED BY <2>1, <2>2, <2>3, <2>4, <2>5 DEF TypeOK, Within
<1> QED BY <1>1, <1>2, <1>3, PTL DEF Spec

-----------------------------------------------------------------------------
(* A command that was started winds down.  That it ends is liveness; what   *)
(* fairness cannot give is here: that some step of it can be taken as long  *)
(* as it runs, and that no step is taken for nothing.                       *)

\* What is counted is finite.
LEMMA CountsAreNumbers ==
  ASSUME TInv
  PROVE  /\ IsFiniteSet(unread) /\ Cardinality(unread) \in Nat
         /\ IsFiniteSet(todo) /\ Cardinality(todo) \in Nat
         /\ \A a : IsFiniteSet(At(a)) /\ Cardinality(At(a)) \in Nat
         /\ Len(results) \in Nat
         /\ StagesLeft \in Nat /\ (pc # "none" => StagesLeft > 0)
         /\ StepsLeft \in Nat
<1> USE DEF TInv, Typed
<1>1. IsFiniteSet(unread) /\ Cardinality(unread) \in Nat
  BY CodeMapAssumption, FS_Subset, FS_CardinalityType
<1>2. IsFiniteSet(todo) /\ Cardinality(todo) \in Nat
  BY CodeMapAssumption, FS_Subset, FS_CardinalityType
<1>3. \A a : IsFiniteSet(At(a)) /\ Cardinality(At(a)) \in Nat
  BY CodeMapAssumption, FS_Subset, FS_CardinalityType DEF At
<1>4. Len(results) \in Nat
  OBVIOUS
<1>5. StagesLeft \in Nat /\ (pc # "none" => StagesLeft > 0)
  BY DEF StagesLeft
<1> HIDE DEF TInv, Typed
<1>6. StepsLeft \in Nat
  <2> DEFINE load == Cardinality(At("load"))
             write == Cardinality(At("write"))
             send == Cardinality(At("send"))
  <2>1. load \in Nat /\ write \in Nat /\ send \in Nat
    BY <1>3
  <2> HIDE DEF load, write, send
  <2>2. Cardinality(unread) + 5 * Cardinality(todo) + 4 * load + 3 * write + 2 * send
          + Len(results) + StagesLeft \in Nat
    BY <1>1, <1>2, <1>4, <1>5, <2>1
  <2> QED BY <2>2 DEF StepsLeft, load, write, send
<1> QED
  BY <1>1, <1>2, <1>3, <1>4, <1>5, <1>6

\* A worker that goes on is counted elsewhere, and no other is.
LEMMA WorkerCounted ==
  ASSUME TInv, NEW w \in Workers, NEW x, worker' = [worker EXCEPT ![w] = x],
         x.at # worker[w].at
  PROVE  \A a : Cardinality(At(a)') =
           IF a = x.at THEN Cardinality(At(a)) + 1
           ELSE IF a = worker[w].at THEN Cardinality(At(a)) - 1 ELSE Cardinality(At(a))
<1> SUFFICES ASSUME NEW a
             PROVE  Cardinality(At(a)') =
               IF a = x.at THEN Cardinality(At(a)) + 1
               ELSE IF a = worker[w].at THEN Cardinality(At(a)) - 1 ELSE Cardinality(At(a))
  OBVIOUS
<1>1. IsFiniteSet(At(a))
  BY CountsAreNumbers
<1>2. \A v \in Workers : worker'[v] = IF v = w THEN x ELSE worker[v]
  BY DEF TInv, Typed
<1>3. CASE a = x.at
  <2>1. At(a)' = At(a) \cup {w} /\ w \notin At(a)
    BY <1>2, <1>3 DEF At
  <2> QED BY <1>1, <1>3, <2>1, FS_AddElement
<1>4. CASE a # x.at /\ a = worker[w].at
  <2>1. At(a)' = At(a) \ {w} /\ w \in At(a)
    BY <1>2, <1>4 DEF At
  <2> QED BY <1>1, <1>4, <2>1, FS_RemoveElement
<1>5. CASE a # x.at /\ a # worker[w].at
  <2>1. At(a)' = At(a)
    BY <1>2, <1>5 DEF At
  <2> QED BY <1>5, <2>1
<1> QED BY <1>3, <1>4, <1>5

LEMMA WorkersWindDown ==
  ASSUME TInv, NEW w \in Workers, WorkerStep(w)
  PROVE  StepsLeft' < StepsLeft
<1> DEFINE read == Cardinality(unread)
           left == Cardinality(todo)
           load == Cardinality(At("load"))
           write == Cardinality(At("write"))
           send == Cardinality(At("send"))
           sent == Len(results)
<1>0. /\ read \in Nat /\ left \in Nat /\ load \in Nat /\ write \in Nat /\ send \in Nat
      /\ sent \in Nat /\ StagesLeft \in Nat
  BY CountsAreNumbers
<1>e. /\ StepsLeft = read + 5 * left + 4 * load + 3 * write + 2 * send + sent + StagesLeft
      /\ StepsLeft' = read' + 5 * left' + 4 * load' + 3 * write' + 2 * send' + sent' + StagesLeft'
  BY DEF StepsLeft
<1>1. ASSUME NEW f \in Files, TakeJob(w, f) PROVE StepsLeft' < StepsLeft
  <2>1. read' = read /\ sent' = sent /\ StagesLeft' = StagesLeft
    BY <1>1 DEF TakeJob, StagesLeft
  <2>2. left' = left - 1
    BY <1>1, CountsAreNumbers, FS_RemoveElement DEF TakeJob
  <2>3. PICK x : worker' = [worker EXCEPT ![w] = x] /\ x.at \in {"send", "load"}
    <3> DEFINE x == [Idle EXCEPT !.at = IF disk[f] = NoFile THEN "send" ELSE "load",
                                  !.file = f, !.text = disk[f]]
    <3>1. x.at \in {"send", "load"}
      BY IdleIsWorker DEF WorkerSet
    <3>2. worker' = [worker EXCEPT ![w] = x]
      BY <1>1 DEF TakeJob
    <3> QED BY <3>1, <3>2
  <2>4. worker[w].at = "idle"
    BY <1>1 DEF TakeJob
  <2>5. /\ write' = write
        /\ \/ load' = load + 1 /\ send' = send
           \/ send' = send + 1 /\ load' = load
    BY <2>3, <2>4, WorkerCounted
  <2> HIDE DEF read, left, load, write, send, sent
  <2> QED BY <1>0, <1>e, <2>1, <2>2, <2>5
<1>2. ASSUME LoadHit(w) \/ Parse(w) \/ WriteBatch(w) PROVE StepsLeft' < StepsLeft
  <2>1. read' = read /\ left' = left /\ sent' = sent /\ StagesLeft' = StagesLeft
    BY <1>2 DEF LoadHit, Parse, WriteBatch, StagesLeft
  <2>2. PICK x : /\ worker' = [worker EXCEPT ![w] = x]
                 /\ \/ worker[w].at = "load" /\ x.at \in {"send", "write"}
                    \/ worker[w].at = "write" /\ x.at = "send"
    <3>0. worker \in [Workers -> WorkerSet]
      BY DEF TInv, Typed
    <3>1. worker' = [worker EXCEPT ![w] = worker'[w]]
      BY <1>2, <3>0 DEF LoadHit, Parse, WriteBatch
    <3>2. CASE LoadHit(w)
      <4>1. worker'[w].at = "send"
        BY <3>0, <3>2 DEF LoadHit, WorkerSet
      <4> QED BY <3>1, <3>2, <4>1 DEF LoadHit
    <3>3. CASE Parse(w)
      <4>1. worker'[w].at \in {"send", "write"}
        BY <3>0, <3>3 DEF Parse, WorkerSet
      <4> QED BY <3>1, <3>3, <4>1 DEF Parse
    <3>4. CASE WriteBatch(w)
      <4>1. worker'[w].at = "send"
        BY <3>0, <3>4 DEF WriteBatch, WorkerSet
      <4> QED BY <3>1, <3>4, <4>1 DEF WriteBatch
    <3> QED BY <1>2, <3>2, <3>3, <3>4
  <2>3. \/ load' = load - 1 /\ send' = send + 1 /\ write' = write
        \/ load' = load - 1 /\ write' = write + 1 /\ send' = send
        \/ load' = load /\ write' = write - 1 /\ send' = send + 1
    BY <2>2, WorkerCounted
  <2> HIDE DEF read, left, load, write, send, sent
  <2> QED BY <1>0, <1>e, <2>1, <2>3
<1>3. ASSUME Send(w) PROVE StepsLeft' < StepsLeft
  <2>1. read' = read /\ left' = left /\ StagesLeft' = StagesLeft
    BY <1>3 DEF Send, StagesLeft
  <2>2. sent' = sent + 1
    BY <1>3 DEF Send, TInv, Typed
  <2>3. worker' = [worker EXCEPT ![w] = Idle] /\ worker[w].at = "send" /\ Idle.at = "idle"
    BY <1>3 DEF Send, Idle
  <2>4. load' = load /\ write' = write /\ send' = send - 1
    BY <2>3, WorkerCounted
  <2> HIDE DEF read, left, load, write, send, sent
  <2> QED BY <1>0, <1>e, <2>1, <2>2, <2>4
<1> QED BY <1>1, <1>2, <1>3 DEF WorkerStep

LEMMA CommandWindsDown ==
  ASSUME TInv, CommandStep PROVE StepsLeft' < StepsLeft
<1> DEFINE read == Cardinality(unread)
           left == Cardinality(todo)
           load == Cardinality(At("load"))
           write == Cardinality(At("write"))
           send == Cardinality(At("send"))
           sent == Len(results)
<1>0. /\ read \in Nat /\ left \in Nat /\ load \in Nat /\ write \in Nat /\ send \in Nat
      /\ sent \in Nat /\ StagesLeft \in Nat
  BY CountsAreNumbers
<1>e. /\ StepsLeft = read + 5 * left + 4 * load + 3 * write + 2 * send + sent + StagesLeft
      /\ StepsLeft' = read' + 5 * left' + 4 * load' + 3 * write' + 2 * send' + sent' + StagesLeft'
  BY DEF StepsLeft
<1>1. worker' = worker /\ todo' = todo
  BY DEF CommandStep, IndexOne, Indexed, Collect, Finish, FlushCache, SaveMap, Prune, buildVars
<1>2. left' = left /\ load' = load /\ write' = write /\ send' = send
  BY <1>1 DEF At
<1>3. ASSUME NEW c \in Cfcs, IndexOne(c) PROVE StepsLeft' < StepsLeft
  <2>1. read' = read - 1
    BY <1>3, CountsAreNumbers, FS_RemoveElement DEF IndexOne
  <2>2. sent' = sent /\ StagesLeft' = StagesLeft
    BY <1>3 DEF IndexOne, StagesLeft
  <2> HIDE DEF read, left, load, write, send, sent
  <2> QED BY <1>0, <1>e, <1>2, <2>1, <2>2
<1>4. CASE Collect
  <2>1. sent' = sent - 1
    BY <1>4 DEF Collect, TInv, Typed
  <2>2. read' = read /\ StagesLeft' = StagesLeft
    BY <1>4 DEF Collect, StagesLeft
  <2> HIDE DEF read, left, load, write, send, sent
  <2> QED BY <1>0, <1>e, <1>2, <2>1, <2>2
<1>5. CASE Indexed \/ Finish \/ FlushCache \/ SaveMap \/ Prune
  <2>1. read' = read /\ sent' = sent
    BY <1>5 DEF Indexed, Finish, FlushCache, SaveMap, Prune, buildVars
  <2>2. StagesLeft' \in Nat /\ StagesLeft' < StagesLeft
    BY <1>5 DEF Indexed, Finish, FlushCache, SaveMap, Prune, StagesLeft
  <2> HIDE DEF read, left, load, write, send, sent
  <2> DEFINE busy == read + 5 * left + 4 * load + 3 * write + 2 * send + sent
  <2>3. busy \in Nat /\ StepsLeft = busy + StagesLeft /\ StepsLeft' = busy + StagesLeft'
    BY <1>0, <1>e, <1>2, <2>1
  <2> HIDE DEF busy
  <2>4. \A i, j, k \in Nat : i < j => k + i < k + j
    OBVIOUS
  <2>5. busy + StagesLeft' < busy + StagesLeft
    BY <1>0, <2>2, <2>3, <2>4
  <2> QED BY <2>3, <2>5
<1> QED BY <1>3, <1>4, <1>5 DEF CommandStep

LEMMA StepWindsDown ==
  ASSUME TInv, [Next]_vars PROVE [WindsDown]_vars
<1> SUFFICES ASSUME Next, pc # "none"
             PROVE  \/ StepsLeft' < StepsLeft
                    \/ StepsLeft' = StepsLeft /\ \E f \in Files : Edit(f)
  BY DEF WindsDown
<1>1. ASSUME NEW f \in Files, Edit(f) PROVE StepsLeft' = StepsLeft
  BY <1>1 DEF Edit, buildVars, StepsLeft, At, StagesLeft
<1>2. ~ \E fl \in Flags : Start(fl)
  BY DEF Start
<1>3. CASE Crash
  <2>1. todo' = {} /\ unread' = {} /\ results' = <<>>
    BY <1>3 DEF Crash
  <2>2. \A a \in {"load", "write", "send"} : At(a)' = {}
    BY <1>3 DEF Crash, At, Idle
  <2>3. StagesLeft' = 0
    BY <1>3 DEF Crash, StagesLeft
  <2>4. StepsLeft' = 0
    <3>1. Cardinality(At("load")') = 0 /\ Cardinality(At("write")') = 0 /\ Cardinality(At("send")') = 0
      BY <2>2, FS_EmptySet
    <3>2. Cardinality(todo') = 0 /\ Cardinality(unread') = 0 /\ Len(results') = 0
      BY <2>1, FS_EmptySet
    <3>3. StepsLeft' = 0 + 5 * 0 + 4 * 0 + 3 * 0 + 2 * 0 + 0 + 0
      BY <2>3, <3>1, <3>2 DEF StepsLeft
    <3> QED BY <3>3
  <2>5. StepsLeft \in Nat /\ StepsLeft # 0
    <3> DEFINE load == Cardinality(At("load"))
               write == Cardinality(At("write"))
               send == Cardinality(At("send"))
    <3>1. load \in Nat /\ write \in Nat /\ send \in Nat
      BY CountsAreNumbers
    <3> HIDE DEF load, write, send
    <3>2. Cardinality(unread) + 5 * Cardinality(todo) + 4 * load + 3 * write + 2 * send
            + Len(results) + StagesLeft # 0
      BY <3>1, CountsAreNumbers
    <3> QED BY <3>2, CountsAreNumbers DEF StepsLeft, load, write, send
  <2> QED BY <2>4, <2>5
<1> QED
  BY <1>1, <1>2, <1>3, WorkersWindDown, CommandWindsDown DEF Next

LEMMA SomeoneGoesOn ==
  ASSUME TInv, pc # "none" PROVE CommandGoesOn \/ \E w \in Workers : WorkerGoesOn(w)
<1>1. CASE pc # "scan"
  BY <1>1 DEF TInv, Typed, CommandGoesOn
<1>2. CASE pc = "scan" /\ results = <<>>
  <2>1. 0 < Room * Cardinality(Workers)
    <3>1. Cardinality(Workers) \in Nat /\ Cardinality(Workers) # 0
      BY CodeMapAssumption, FS_CardinalityType, FS_EmptySet
    <3>2. \A r, n \in Nat \ {0} : 0 < r * n
      OBVIOUS
    <3> QED BY <3>1, <3>2, CodeMapAssumption
  <2>2. \A w \in Workers : worker[w].at \in {"idle", "load", "write", "send"}
    BY DEF TInv, Typed, WorkerSet
  <2>3. Len(results) = 0
    BY <1>2
  <2>4. PICK w \in Workers : TRUE
    BY CodeMapAssumption
  <2> QED BY <1>2, <2>1, <2>2, <2>3, <2>4 DEF CommandGoesOn, WorkerGoesOn
<1>3. CASE pc = "scan" /\ results # <<>>
  BY <1>3 DEF CommandGoesOn
<1> QED BY <1>1, <1>2, <1>3

\* While a command runs someone can take a step of it, and each of them, whoever
\* takes it, leaves fewer to take: no worker waits for the collector while the
\* collector waits for the workers, and nothing is done over.
THEOREM BuildsWindDown ==
  Spec => /\ [](StepsLeft \in Nat)
          /\ [](pc # "none" => CommandGoesOn \/ \E w \in Workers : WorkerGoesOn(w))
          /\ [][WindsDown]_vars
<1>1. Init => TInv
  BY TypedAtFirst
<1>2. TInv /\ [Next]_vars => TInv'
  BY TypedOn
<1>3. TInv => StepsLeft \in Nat
  BY CountsAreNumbers
<1>4. TInv => (pc # "none" => CommandGoesOn \/ \E w \in Workers : WorkerGoesOn(w))
  BY SomeoneGoesOn
<1>5. TInv /\ [Next]_vars => [WindsDown]_vars
  BY StepWindsDown
<1> QED
  BY <1>1, <1>2, <1>3, <1>4, <1>5, PTL DEF Spec

-----------------------------------------------------------------------------
(* A rebuild parses nothing.                                               *)

Quiet == edits = 0 /\ failures = 0
Present == {f \in Files : disk[f] # NoFile}
Texts == [c \in Cfcs |-> disk[c]]
HasRow(f, S) == \E r \in S : r.env = Texts /\ r.text = disk[f]

Counted == edits \in Nat /\ builds \in Nat /\ failures \in Nat

\* What a command has listed and read is what is there.
ReadsWhatIsThere ==
  /\ pc # "none" => builds >= 1 /\ listed = Present
                    /\ \A c \in Cfcs : c \in unread \/ env[c] = disk[c]
  /\ pc \notin {"none", "index"} => unread = {}
  /\ \A w \in Workers : worker[w].at = "load" => worker[w].text = disk[worker[w].file]

OnlyWritersHold == \A w \in Workers : worker[w].at # "write" => worker[w].batch = {}

\* A file of the first build is still to scan or has its row somewhere.
OnItsWay(f) ==
  \/ f \in todo
  \/ \E w \in Workers : worker[w].at = "load" /\ worker[w].file = f
  \/ HasRow(f, AllRows)
FirstBuild ==
  builds = 1 /\ pc \in {"index", "scan", "flush"} => \A f \in listed : OnItsWay(f)

\* After its flush the table has them all, and nothing is buffered any more.
Cached ==
  builds >= 2 \/ (builds = 1 /\ pc \in {"save", "prune", "none"}) =>
    \A f \in Present : HasRow(f, rows)
Parsed == builds >= 2 => pending = {} /\ \A w \in Workers : worker[w].at # "write"

Filling == ReadsWhatIsThere /\ OnlyWritersHold /\ FirstBuild /\ Cached /\ Parsed
RInv == TInv /\ Counted /\ (Quiet => Filling)

\* Every key of S is a key of T.
Covers(S, T) == \A r \in S : \E q \in T : q.env = r.env /\ q.text = r.text

\* A write loses no key.
LEMMA WrittenCovers ==
  ASSUME NEW table, NEW batch PROVE Covers(table \cup batch, Written(table, batch))
<1> SUFFICES ASSUME NEW r \in table \cup batch
             PROVE  \E q \in Written(table, batch) : q.env = r.env /\ q.text = r.text
  BY DEF Covers
<1>1. CASE \E b \in batch : <<b.env, b.text>> = <<r.env, r.text>>
  BY <1>1 DEF Written
<1>2. CASE \A b \in batch : <<b.env, b.text>> # <<r.env, r.text>>
  BY <1>2 DEF Written
<1> QED BY <1>1, <1>2

\* A file keeps its row while the disk does not change.
LEMMA CoverKeeps ==
  ASSUME NEW f, NEW S, NEW T, disk' = disk, Covers(S, T), HasRow(f, S)
  PROVE  HasRow(f, T) /\ \E r \in T : r.env = Texts' /\ r.text = disk'[f]
<1>1. Texts' = Texts
  BY DEF Texts
<1> QED BY <1>1 DEF HasRow, Covers

\* What a worker's step does to it.
LEMMA TakeJobDoes ==
  ASSUME Typed, NEW w \in Workers, NEW f \in Files, TakeJob(w, f)
  PROVE  /\ \A v \in Workers \ {w} : worker'[v] = worker[v]
         /\ worker'[w].at = IF disk[f] = NoFile THEN "send" ELSE "load"
         /\ worker'[w].file = f /\ worker'[w].text = disk[f] /\ worker'[w].batch = {}
<1> DEFINE x == [Idle EXCEPT !.at = IF disk[f] = NoFile THEN "send" ELSE "load",
                             !.file = f, !.text = disk[f]]
<1>1. /\ x.at = IF disk[f] = NoFile THEN "send" ELSE "load"
      /\ x.file = f /\ x.text = disk[f] /\ x.batch = {}
  BY DEF Idle
<1> HIDE DEF x
<1>2. worker' = [worker EXCEPT ![w] = x]
  BY DEF TakeJob, x
<1> QED BY <1>1, <1>2 DEF Typed

LEMMA LoadHitDoes ==
  ASSUME Typed, NEW w \in Workers, LoadHit(w)
  PROVE  /\ \A v \in Workers \ {w} : worker'[v] = worker[v]
         /\ worker'[w].at = "send" /\ worker'[w].batch = worker[w].batch
<1>1. PICK r \in RowsFor(w) :
        worker' = [worker EXCEPT ![w] = [@ EXCEPT !.at = "send", !.graph = r.graph]]
  BY Zenon DEF LoadHit
<1> DEFINE x == [worker[w] EXCEPT !.at = "send", !.graph = r.graph]
<1>2. x.at = "send" /\ x.batch = worker[w].batch
  BY DEF Typed, WorkerSet
<1> HIDE DEF x
<1>3. worker' = [worker EXCEPT ![w] = x]
  BY <1>1 DEF x
<1> QED BY <1>2, <1>3 DEF Typed

LEMMA ParseDoes ==
  ASSUME Typed, NEW w \in Workers, Parse(w)
  PROVE  \E g : LET full == Written(pending, {Row(env, worker[w].text, g)}) IN
           /\ \A v \in Workers \ {w} : worker'[v] = worker[v]
           /\ \/ worker'[w].at = "send" /\ worker'[w].batch = worker[w].batch /\ pending' = full
              \/ worker'[w].at = "write" /\ worker'[w].batch = full /\ pending' = {}
<1> DEFINE g == ScanFile(worker[w].file, worker[w].text, env,
                         {h \in Files : disk[h] # NoFile}, flags)
           full == Written(pending, {Row(env, worker[w].text, g)})
           x == [worker[w] EXCEPT !.at = "send", !.graph = g]
           y == [worker[w] EXCEPT !.at = "write", !.graph = g, !.batch = full]
<1>1. \/ worker' = [worker EXCEPT ![w] = x] /\ pending' = full
      \/ worker' = [worker EXCEPT ![w] = y] /\ pending' = {}
  BY DEF Parse
<1> SUFFICES /\ \A v \in Workers \ {w} : worker'[v] = worker[v]
             /\ \/ worker'[w].at = "send" /\ worker'[w].batch = worker[w].batch /\ pending' = full
                \/ worker'[w].at = "write" /\ worker'[w].batch = full /\ pending' = {}
  OBVIOUS
<1> HIDE DEF g, full
<1>2. x.at = "send" /\ x.batch = worker[w].batch /\ y.at = "write" /\ y.batch = full
  BY DEF Typed, WorkerSet
<1> HIDE DEF x, y
<1> QED BY <1>1, <1>2 DEF Typed

LEMMA WriteBatchDoes ==
  ASSUME Typed, NEW w \in Workers, WriteBatch(w)
  PROVE  /\ \A v \in Workers \ {w} : worker'[v] = worker[v]
         /\ worker'[w].at = "send" /\ worker'[w].batch = {}
BY DEF Typed, WorkerSet, WriteBatch

LEMMA SendDoes ==
  ASSUME Typed, NEW w \in Workers, Send(w)
  PROVE  /\ \A v \in Workers \ {w} : worker'[v] = worker[v]
         /\ worker'[w].at = "idle" /\ worker'[w].batch = {}
BY DEF Typed, Send, Idle

\* What has been quiet was quiet before.
LEMMA QuietBefore ==
  ASSUME Counted, [Next]_vars
  PROVE  Counted' /\ (Quiet' => Quiet /\ disk' = disk)
<1> USE DEF Counted, Quiet
<1>1. ASSUME NEW f \in Files, Edit(f) PROVE Counted' /\ ~Quiet'
  BY <1>1 DEF Edit
<1>2. ASSUME NEW fl \in Flags, Start(fl) PROVE Counted' /\ (Quiet' => Quiet /\ disk' = disk)
  BY <1>2 DEF Start
<1>3. ASSUME NEW w \in Workers, Parse(w) \/ WriteBatch(w)
      PROVE  Counted' /\ (Quiet' => Quiet /\ disk' = disk)
  <2>1. UNCHANGED <<disk, edits, builds>> /\ (failures' = failures \/ failures' = failures + 1)
    BY <1>3, Zenon DEF Parse, WriteBatch
  <2> QED BY <2>1
<1>4. CASE FlushCache \/ SaveMap \/ Prune \/ Crash
  BY <1>4 DEF FlushCache, SaveMap, Prune, Crash
<1>5. ASSUME disk' = disk, edits' = edits, builds' = builds, failures' = failures
      PROVE  Counted' /\ (Quiet' => Quiet /\ disk' = disk)
  BY <1>5
<1>6. ASSUME NEW w \in Workers, NEW f \in Files, TakeJob(w, f)
      PROVE  Counted' /\ (Quiet' => Quiet /\ disk' = disk)
  BY <1>5, <1>6 DEF TakeJob, bounds
<1>7. ASSUME NEW w \in Workers, LoadHit(w) \/ Send(w)
      PROVE  Counted' /\ (Quiet' => Quiet /\ disk' = disk)
  BY <1>5, <1>7, Zenon DEF LoadHit, Send, bounds
<1>8. ASSUME NEW k \in Cfcs, IndexOne(k) PROVE Counted' /\ (Quiet' => Quiet /\ disk' = disk)
  BY <1>5, <1>8 DEF IndexOne, bounds
<1>9. CASE Indexed \/ Collect \/ Finish \/ UNCHANGED vars
  BY <1>5, <1>9 DEF Indexed, Collect, Finish, vars, bounds
<1> QED
  BY <1>1, <1>2, <1>3, <1>4, <1>6, <1>7, <1>8, <1>9 DEF Next, WorkerStep, CommandStep

\* The fingerprint of a command that has read everything is of what is there.
LEMMA FingerprintIsTexts ==
  ASSUME Typed, ReadsWhatIsThere, pc \notin {"none", "index"}
  PROVE  env = Texts /\ listed = Present
BY DEF Typed, Env, ReadsWhatIsThere, Texts

\* Nothing is read but what is there.
LEMMA ReadsStep ==
  ASSUME TInv, Counted, Quiet', disk' = disk, ReadsWhatIsThere, [Next]_vars
  PROVE  ReadsWhatIsThere'
<1> USE DEF ReadsWhatIsThere, TInv, Typed, WorkerSet
<1>0. Present' = Present
  BY DEF Present
<1>1. ASSUME NEW f \in Files, Edit(f) PROVE FALSE
  BY <1>1 DEF Edit, Counted, Quiet
<1>2. ASSUME NEW fl \in Flags, Start(fl) PROVE ReadsWhatIsThere'
  <2>1. pc' = "index" /\ listed' = Present' /\ builds' >= 1
    BY <1>2, <1>0 DEF Start, Present, Counted
  <2>2. \A c \in Cfcs : c \in unread' \/ env'[c] = disk'[c]
    BY <1>2, CodeMapAssumption DEF Start
  <2>3. \A w \in Workers : worker'[w].at = "idle"
    BY <1>2, IdleIsWorker DEF Start
  <2> QED BY <2>1, <2>2, <2>3
<1>3. ASSUME NEW w \in Workers, NEW f \in Files, TakeJob(w, f) PROVE ReadsWhatIsThere'
  <2>1. UNCHANGED <<pc, listed, unread, env, builds>>
    BY <1>3 DEF TakeJob, bounds
  <2> QED BY <1>0, <1>3, <2>1, TakeJobDoes
<1>4. ASSUME NEW w \in Workers, LoadHit(w) \/ Parse(w) \/ WriteBatch(w) \/ Send(w)
      PROVE  ReadsWhatIsThere'
  <2>1. (\A v \in Workers \ {w} : worker'[v] = worker[v]) /\ worker'[w].at # "load"
    BY <1>4, LoadHitDoes, ParseDoes, WriteBatchDoes, SendDoes
  <2>2. pc' = pc /\ listed' = listed /\ unread' = unread /\ env' = env /\ builds' = builds
    <3>1. CASE LoadHit(w)
      BY <3>1 DEF LoadHit, bounds
    <3>2. CASE Parse(w)
      BY <3>2 DEF Parse, bounds
    <3>3. CASE WriteBatch(w) \/ Send(w)
      BY <3>3 DEF WriteBatch, Send, bounds
    <3> QED BY <1>4, <3>1, <3>2, <3>3
  <2> QED BY <1>0, <2>1, <2>2
<1>5. ASSUME NEW k \in Cfcs, IndexOne(k) PROVE ReadsWhatIsThere'
  BY <1>5, <1>0 DEF IndexOne, Env, bounds
<1>6. CASE Indexed \/ Collect \/ Finish \/ FlushCache \/ SaveMap \/ Prune
  <2>1. UNCHANGED <<worker, listed, unread, env, builds>>
    BY <1>6 DEF Indexed, Collect, Finish, FlushCache, SaveMap, Prune, buildVars, bounds
  <2>2. pc # "none" /\ (pc' \notin {"none", "index"} => unread = {})
    BY <1>6 DEF Indexed, Collect, Finish, FlushCache, SaveMap, Prune
  <2> QED BY <1>0, <2>1, <2>2
<1>7. CASE Crash
  BY <1>7 DEF Crash, Counted, Quiet
<1>8. CASE UNCHANGED vars
  BY <1>0, <1>8 DEF vars, bounds, buildVars
<1> QED
  BY <1>1, <1>2, <1>3, <1>4, <1>5, <1>6, <1>7, <1>8 DEF Next, WorkerStep, CommandStep

\* A batch leaves its worker with the write.
LEMMA HoldStep ==
  ASSUME TInv, OnlyWritersHold, [Next]_vars PROVE OnlyWritersHold'
<1> USE DEF OnlyWritersHold, TInv
<1>0. Idle.batch = {}
  BY DEF Idle
<1>1. ASSUME NEW w \in Workers, NEW f \in Files, TakeJob(w, f) PROVE OnlyWritersHold'
  BY <1>1, TakeJobDoes
<1>2. ASSUME NEW w \in Workers, LoadHit(w) PROVE OnlyWritersHold'
  <2>1. worker[w].at = "load"
    BY <1>2 DEF LoadHit
  <2> QED BY <1>2, <2>1, LoadHitDoes
<1>3. ASSUME NEW w \in Workers, Parse(w) PROVE OnlyWritersHold'
  <2>1. worker[w].at = "load"
    BY <1>3 DEF Parse
  <2> QED BY <1>3, <2>1, ParseDoes
<1>4. ASSUME NEW w \in Workers, WriteBatch(w) PROVE OnlyWritersHold'
  BY <1>4, WriteBatchDoes
<1>5. ASSUME NEW w \in Workers, Send(w) PROVE OnlyWritersHold'
  BY <1>5, SendDoes
<1>6. ASSUME worker' = [w \in Workers |-> Idle] PROVE OnlyWritersHold'
  BY <1>6, <1>0
<1>7. CASE worker' = worker
  BY <1>7
<1> QED
  BY <1>1, <1>2, <1>3, <1>4, <1>5, <1>6, <1>7 DEF Next, WorkerStep, CommandStep, vars,
     buildVars, Edit, Start, IndexOne, Indexed, Collect, Finish, FlushCache, SaveMap, Prune, Crash

\* The files of a build that has left the workers are in the table or the buffer.
LEMMA NoBatches ==
  ASSUME TInv, OnlyWritersHold, pc # "scan" PROVE Batches = {}
BY DEF TInv, Moved, Stage, Busy, OnlyWritersHold, Batches

\* What was on its way still is, as long as nothing drops it.
LEMMA KeptOnItsWay ==
  ASSUME NEW f, disk' = disk, OnItsWay(f), Covers(AllRows, AllRows'),
         f \in todo => f \in todo' \/ \E w \in Workers : worker'[w].at = "load" /\ worker'[w].file = f,
         \A w \in Workers : worker[w].at = "load" /\ worker[w].file = f =>
           \/ worker'[w].at = "load" /\ worker'[w].file = f
           \/ \E r \in AllRows' : r.env = Texts /\ r.text = disk[f]
  PROVE  OnItsWay(f)'
<1>1. Texts' = Texts
  BY DEF Texts
<1>2. (\E r \in AllRows' : r.env = Texts /\ r.text = disk[f]) => HasRow(f, AllRows)'
  BY <1>1 DEF HasRow
<1>3. HasRow(f, AllRows) => \E r \in AllRows' : r.env = Texts /\ r.text = disk[f]
  BY DEF HasRow, Covers
<1> QED BY <1>2, <1>3 DEF OnItsWay

\* Only the worker at a step changes, so the batches of the others stay.
LEMMA OthersBatches ==
  ASSUME NEW w \in Workers, \A v \in Workers \ {w} : worker'[v] = worker[v],
         rows \subseteq rows', NEW r \in AllRows
  PROVE  r \in AllRows' \/ r \in pending \/ r \in worker[w].batch
BY DEF AllRows, Batches

\* Nothing of the first build is dropped before its flush.
LEMMA FirstStep ==
  ASSUME TInv, Counted, Quiet', disk' = disk, Filling, [Next]_vars
  PROVE  FirstBuild'
<1> USE DEF Filling, TInv
<1>1. ASSUME NEW f \in Files, Edit(f) PROVE FALSE
  BY <1>1 DEF Edit, Counted, Quiet
<1>2. ASSUME NEW fl \in Flags, Start(fl) PROVE FirstBuild'
  BY <1>2 DEF Start, FirstBuild, OnItsWay
<1>3. ASSUME NEW w \in Workers, WorkerStep(w),
             builds' = 1, pc' \in {"index", "scan", "flush"}, NEW f \in listed'
      PROVE  OnItsWay(f)'
  <2>0. pc' = pc /\ builds' = builds /\ listed' = listed /\ env' = env
    BY <1>3, Zenon DEF WorkerStep, TakeJob, LoadHit, Parse, WriteBatch, Send, bounds
  <2>1. OnItsWay(f) /\ f \in Present
    BY <1>3, <2>0 DEF FirstBuild, ReadsWhatIsThere
  <2>2. worker[w].at # "idle" => pc = "scan" /\ env = Texts
    BY FingerprintIsTexts DEF Moved, Stage, Busy
  <2>3. ASSUME NEW g \in Files, TakeJob(w, g) PROVE OnItsWay(f)'
    <3>1. worker[w].batch = {} /\ worker[w].at = "idle"
      BY <2>3 DEF OnlyWritersHold, TakeJob
    <3>2. rows' = rows /\ pending' = pending /\ todo' = todo \ {g}
      BY <2>3 DEF TakeJob
    <3>3. \A v \in Workers \ {w} : worker'[v] = worker[v]
      BY <2>3, TakeJobDoes
    <3>4. Covers(AllRows, AllRows')
      BY <3>1, <3>2, <3>3, OthersBatches DEF Covers, AllRows
    <3>5. f = g => worker'[w].at = "load" /\ worker'[w].file = f
      BY <2>1, <2>3, TakeJobDoes DEF Present
    <3> QED BY <2>1, <3>1, <3>2, <3>3, <3>4, <3>5, KeptOnItsWay
  <2>4. CASE LoadHit(w)
    <3>1. worker[w].batch = worker'[w].batch /\ worker[w].at = "load"
      <4>1. worker[w].at = "load"
        BY <2>4, Zenon DEF LoadHit
      <4> QED BY <2>4, <4>1, LoadHitDoes
    <3>2. rows' = rows /\ pending' = pending /\ todo' = todo
      BY <2>4, Zenon DEF LoadHit
    <3>3. \A v \in Workers \ {w} : worker'[v] = worker[v]
      BY <2>4, LoadHitDoes
    <3>4. Covers(AllRows, AllRows')
      <4>1. \A r \in worker[w].batch : r \in AllRows'
        BY <3>1 DEF AllRows, Batches
      <4> QED BY <3>2, <3>3, <4>1, OthersBatches DEF Covers, AllRows
    <3>5. worker[w].file = f => \E r \in AllRows' : r.env = Texts /\ r.text = disk[f]
      <4>1. PICK r \in RowsFor(w) : TRUE
        BY <2>4 DEF LoadHit
      <4> QED BY <2>2, <3>1, <3>2, <4>1 DEF RowsFor, ReadsWhatIsThere, AllRows
    <3> QED BY <2>1, <3>2, <3>3, <3>4, <3>5, KeptOnItsWay
  <2>5. CASE Parse(w)
    <3>1. worker[w].batch = {} /\ worker[w].at = "load"
      BY <2>5 DEF OnlyWritersHold, Parse
    <3>2. rows' = rows /\ todo' = todo
      BY <2>5, Zenon DEF Parse
    <3>3. PICK g :
            LET full == Written(pending, {Row(env, worker[w].text, g)}) IN
              /\ \A v \in Workers \ {w} : worker'[v] = worker[v]
              /\ \/ worker'[w].at = "send" /\ worker'[w].batch = worker[w].batch /\ pending' = full
                 \/ worker'[w].at = "write" /\ worker'[w].batch = full /\ pending' = {}
      BY <2>5, ParseDoes
    <3> DEFINE row == Row(env, worker[w].text, g)
               full == Written(pending, {row})
    <3>4. full \subseteq AllRows'
      BY <3>3 DEF AllRows, Batches
    <3>5. row.env = env /\ row.text = worker[w].text
      BY DEF Row
    <3>6. Covers(pending \cup {row}, full)
      BY WrittenCovers
    <3>7. \A v \in Workers \ {w} : worker'[v] = worker[v]
      BY <3>3
    <3> HIDE DEF row, full
    <3>8. Covers(AllRows, AllRows')
      BY <3>1, <3>2, <3>4, <3>6, <3>7, OthersBatches DEF Covers
    <3>9. worker[w].file = f => \E r \in AllRows' : r.env = Texts /\ r.text = disk[f]
      BY <2>2, <3>1, <3>4, <3>5, <3>6 DEF Covers, ReadsWhatIsThere
    <3> QED BY <2>1, <3>2, <3>7, <3>8, <3>9, KeptOnItsWay
  <2>6. CASE WriteBatch(w)
    <3>1. rows' = Written(rows, worker[w].batch) /\ todo' = todo /\ pending' = pending
      BY <2>6 DEF WriteBatch, Counted, Quiet
    <3>2. (\A v \in Workers \ {w} : worker'[v] = worker[v]) /\ worker[w].at # "load"
      <4>1. worker[w].at = "write"
        BY <2>6, Zenon DEF WriteBatch
      <4> QED BY <2>6, <4>1, WriteBatchDoes
    <3>3. Covers(rows \cup worker[w].batch, rows')
      BY <3>1, WrittenCovers
    <3>4. Covers(AllRows, AllRows')
      <4> SUFFICES ASSUME NEW r \in AllRows
                   PROVE  \E q \in AllRows' : q.env = r.env /\ q.text = r.text
        BY DEF Covers
      <4>1. CASE r \in rows \cup worker[w].batch
        BY <3>3, <4>1 DEF Covers, AllRows
      <4>2. CASE r \notin rows \cup worker[w].batch
        BY <3>1, <3>2, <4>2 DEF AllRows, Batches
      <4> QED BY <4>1, <4>2
    <3> QED BY <2>1, <3>1, <3>2, <3>4, KeptOnItsWay
  <2>7. CASE Send(w)
    <3>1. worker[w].batch = {} /\ worker[w].at = "send"
      BY <2>7 DEF OnlyWritersHold, Send
    <3>2. rows' = rows /\ pending' = pending /\ todo' = todo
      BY <2>7 DEF Send
    <3>3. \A v \in Workers \ {w} : worker'[v] = worker[v]
      BY <2>7, SendDoes
    <3>4. Covers(AllRows, AllRows')
      BY <3>1, <3>2, <3>3, OthersBatches DEF Covers, AllRows
    <3> QED BY <2>1, <3>1, <3>2, <3>3, <3>4, KeptOnItsWay
  <2> QED BY <1>3, <2>3, <2>4, <2>5, <2>6, <2>7 DEF WorkerStep
<1>4. CASE UNCHANGED <<todo, worker, rows, pending, listed, builds>>
           /\ (pc' = pc \/ Indexed \/ Finish)
  <2>1. \A f : OnItsWay(f) => OnItsWay(f)'
    BY <1>4 DEF OnItsWay, HasRow, AllRows, Batches, Texts
  <2>2. pc' \in {"index", "scan", "flush"} => pc \in {"index", "scan", "flush"}
    BY <1>4 DEF Indexed, Finish
  <2> QED BY <1>4, <2>1, <2>2 DEF FirstBuild
<1>5. CASE FlushCache \/ SaveMap \/ Prune \/ Crash
  BY <1>5 DEF FlushCache, SaveMap, Prune, Crash, FirstBuild, Counted, Quiet
<1>6. (\E k \in Cfcs : IndexOne(k)) \/ Indexed \/ Collect \/ Finish \/ UNCHANGED vars =>
        UNCHANGED <<todo, worker, rows, pending, listed, builds>> /\ (pc' = pc \/ Indexed \/ Finish)
  BY DEF IndexOne, Indexed, Collect, Finish, vars, buildVars, bounds
<1> QED
  BY <1>1, <1>2, <1>3, <1>4, <1>5, <1>6 DEF Next, CommandStep, FirstBuild

\* A row that reached the table outlives a later write and the prune.
LEMMA CachedStep ==
  ASSUME TInv, Counted, Quiet', disk' = disk, Filling, [Next]_vars
  PROVE  Cached'
<1> USE DEF Filling, TInv
<1>1. Present' = Present /\ Texts' = Texts
  BY DEF Present, Texts
<1> SUFFICES ASSUME builds' >= 2 \/ (builds' = 1 /\ pc' \in {"save", "prune", "none"}),
                    NEW f \in Present
             PROVE  \E r \in rows' : r.env = Texts /\ r.text = disk[f]
  BY <1>1 DEF Cached, HasRow
<1>2. ASSUME builds >= 2 \/ (builds = 1 /\ pc \in {"save", "prune", "none"}), Covers(rows, rows')
      PROVE  \E r \in rows' : r.env = Texts /\ r.text = disk[f]
  BY <1>2 DEF Cached, HasRow, Covers
<1>3. ASSUME NEW g \in Files, Edit(g) PROVE FALSE
  BY <1>3 DEF Edit, Counted, Quiet
<1>4. ASSUME NEW fl \in Flags, Start(fl) PROVE \E r \in rows' : r.env = Texts /\ r.text = disk[f]
  BY <1>2, <1>4 DEF Start, Counted, Covers
<1>5. CASE rows' = rows /\ builds' = builds /\ (pc' = pc \/ pc' \notin {"save", "prune", "none"})
  BY <1>2, <1>5 DEF Covers
<1>6. ASSUME NEW w \in Workers, WriteBatch(w)
      PROVE  \E r \in rows' : r.env = Texts /\ r.text = disk[f]
  <2>1. rows' = Written(rows, worker[w].batch) /\ builds' = builds /\ pc' = pc
    BY <1>6 DEF WriteBatch, Counted, Quiet
  <2>2. Covers(rows \cup worker[w].batch, rows')
    BY <2>1, WrittenCovers
  <2>3. Covers(rows, rows')
    BY <2>2 DEF Covers
  <2> QED BY <1>2, <2>1, <2>3
<1>7. CASE FlushCache
  <2>1. rows' = Written(rows, pending) /\ builds' = builds /\ pc = "flush"
    BY <1>7 DEF FlushCache, Counted, Quiet
  <2>2. Covers(rows \cup pending, rows')
    BY <2>1, WrittenCovers
  <2>3. CASE builds >= 2
    BY <1>2, <2>2, <2>3 DEF Covers
  <2>4. CASE builds = 1
    <3>1. OnItsWay(f)
      BY <2>1, <2>4 DEF FirstBuild, ReadsWhatIsThere
    <3>2. todo = {} /\ \A w \in Workers : worker[w].at # "load"
      BY <2>1 DEF Moved, Stage, Busy
    <3>3. HasRow(f, rows \cup pending)
      <4>1. Batches = {}
        BY <2>1, NoBatches
      <4> QED BY <3>1, <3>2, <4>1 DEF OnItsWay, AllRows
    <3> QED BY <2>2, <3>3 DEF HasRow, Covers
  <2> QED BY <2>1, <2>3, <2>4
<1>8. CASE SaveMap
  <2>1. rows' = rows /\ builds' = builds /\ pc = "save"
    BY <1>8 DEF SaveMap
  <2> QED BY <1>2, <2>1 DEF Covers, Counted
<1>9. CASE Prune
  <2>1. rows' = {r \in rows : r.env = env} /\ builds' = builds /\ pc = "prune"
    BY <1>9 DEF Prune, Counted, Quiet
  <2>2. env = Texts
    BY <2>1, FingerprintIsTexts
  <2>3. \E r \in rows : r.env = Texts /\ r.text = disk[f]
    BY <2>1 DEF Cached, HasRow, Counted
  <2> QED BY <2>1, <2>2, <2>3
<1>10. CASE Crash
  BY <1>10 DEF Crash, Counted, Quiet
<1>11. ASSUME NEW w \in Workers, WorkerStep(w), ~WriteBatch(w)
       PROVE  rows' = rows /\ builds' = builds /\ pc' = pc
  BY <1>11, Zenon DEF WorkerStep, TakeJob, LoadHit, Parse, Send, bounds
<1>12. (\E k \in Cfcs : IndexOne(k)) \/ Indexed \/ Collect \/ Finish \/ UNCHANGED vars =>
         rows' = rows /\ builds' = builds /\ (pc' = pc \/ pc' \notin {"save", "prune", "none"})
  BY DEF IndexOne, Indexed, Collect, Finish, vars, bounds
<1> QED
  BY <1>3, <1>4, <1>5, <1>6, <1>7, <1>8, <1>9, <1>10, <1>11, <1>12 DEF Next, CommandStep

\* A file whose row the table has is not parsed.
LEMMA ParsedStep ==
  ASSUME TInv, Counted, Quiet', disk' = disk, Filling, [Next]_vars
  PROVE  Parsed'
<1> USE DEF Filling, TInv, Parsed
<1>1. ASSUME NEW f \in Files, Edit(f) PROVE FALSE
  BY <1>1 DEF Edit, Counted, Quiet
<1>2. ASSUME NEW fl \in Flags, Start(fl) PROVE Parsed'
  BY <1>2, IdleIsWorker DEF Start
<1>3. ASSUME NEW w \in Workers, Parse(w) PROVE Parsed'
  <2>0. failures' # failures + 1
    BY DEF Counted, Quiet
  <2>1. worker[w].at = "load" /\ RowsFor(w) = {} /\ builds' = builds
    BY <1>3, <2>0, Zenon DEF Parse
  <2>2. pc = "scan"
    BY <2>1 DEF Moved, Stage, Busy
  <2>3. worker[w].file \in Present /\ worker[w].text = disk[worker[w].file] /\ env = Texts
    BY <2>1, <2>2, FingerprintIsTexts DEF ReadsWhatIsThere, Moved, Once, Busy
  <2>4. ~(builds >= 2)
    <3> SUFFICES ASSUME builds >= 2 PROVE FALSE
      OBVIOUS
    <3>1. PICK r \in rows : r.env = Texts /\ r.text = disk[worker[w].file]
      BY <2>3 DEF Cached, HasRow
    <3> QED BY <2>1, <2>3, <3>1 DEF RowsFor
  <2> QED BY <2>1, <2>4
<1>4. ASSUME NEW w \in Workers, (\E f \in Files : TakeJob(w, f)) \/ LoadHit(w) \/ WriteBatch(w) \/ Send(w)
      PROVE  Parsed'
  <2>1. builds' = builds /\ pending' = pending
    BY <1>4, Zenon DEF TakeJob, LoadHit, WriteBatch, Send, bounds
  <2>2. (\A v \in Workers \ {w} : worker'[v] = worker[v]) /\ worker'[w].at # "write"
    BY <1>4, TakeJobDoes, LoadHitDoes, WriteBatchDoes, SendDoes
  <2> QED BY <2>1, <2>2
<1>5. CASE FlushCache \/ SaveMap \/ Prune
  BY <1>5 DEF FlushCache, SaveMap, Prune, buildVars
<1>6. CASE Crash
  BY <1>6 DEF Crash, Counted, Quiet
<1>7. CASE (\E k \in Cfcs : IndexOne(k)) \/ Indexed \/ Collect \/ Finish \/ UNCHANGED vars
  BY <1>7 DEF IndexOne, Indexed, Collect, Finish, vars, buildVars, bounds
<1> QED
  BY <1>1, <1>2, <1>3, <1>4, <1>5, <1>6, <1>7 DEF Next, WorkerStep, CommandStep

\* The comment on Cache (build.go), "so a rebuild can skip re-parsing it", for
\* any files, texts, workers and batch size, and whether or not two files hold
\* one text: while nothing is edited, fails or is killed, no build after the
\* first buffers or writes a row.
THEOREM RebuildIsAlwaysCached == Spec => []RebuildIsCached
<1>1. Init => RInv
  <2> SUFFICES ASSUME Init PROVE RInv
    OBVIOUS
  <2>1. TInv
    BY TypedAtFirst
  <2>2. Counted
    BY DEF Init, Counted
  <2>3. Filling
    BY IdleIsWorker DEF Init, Filling, ReadsWhatIsThere, OnlyWritersHold, FirstBuild, Cached,
       Parsed, Idle
  <2> QED BY <2>1, <2>2, <2>3 DEF RInv
<1>2. RInv /\ [Next]_vars => RInv'
  <2> SUFFICES ASSUME RInv, [Next]_vars PROVE RInv'
    OBVIOUS
  <2> USE DEF RInv
  <2>1. TInv'
    BY TypedOn
  <2>2. Counted' /\ (Quiet' => Quiet /\ disk' = disk)
    BY QuietBefore
  <2>3. ASSUME Quiet' PROVE Filling'
    <3>1. Filling /\ disk' = disk
      BY <2>2, <2>3
    <3>2. ReadsWhatIsThere' /\ OnlyWritersHold'
      BY <2>3, <3>1, ReadsStep, HoldStep DEF Filling
    <3>3. FirstBuild' /\ Cached' /\ Parsed'
      BY <2>3, <3>1, FirstStep, CachedStep, ParsedStep
    <3> QED BY <3>2, <3>3 DEF Filling
  <2> QED BY <2>1, <2>2, <2>3
<1>3. RInv => RebuildIsCached
  BY DEF RInv, Filling, Quiet, Parsed, RebuildIsCached
<1> QED BY <1>1, <1>2, <1>3, PTL DEF Spec

-----------------------------------------------------------------------------
(* The views, and what their proofs need of sets and numbers.              *)

\* Of any finite sets one has no other within it: this stands for induction.
LEMMA Smallest ==
  ASSUME NEW X, NEW all, all # {}, \A T \in all : T \subseteq X /\ IsFiniteSet(T)
  PROVE  \E T \in all : \A U \in all : U \subseteq T => U = T
<1>1. all \subseteq FiniteSubsetsOf(X)
  BY DEF FiniteSubsetsOf
<1>2. ASSUME NEW Y PROVE IsWellFoundedOn(StrictSubsetOrdering(Y), FiniteSubsetsOf(Y))
  BY FS_StrictSubsetOrderingWellFounded
<1>3. ASSUME NEW R, NEW S, IsWellFoundedOn(R, S), NEW T, T \subseteq S, T # {}
      PROVE  \E x \in T : \A y \in T : ~ (<<y, x>> \in R)
  BY <1>3, WFMin
<1>4. \E T \in all : \A U \in all : ~ (<<U, T>> \in StrictSubsetOrdering(X))
  BY <1>1, <1>2, <1>3, Zenon
<1> QED
  BY <1>1, <1>4 DEF StrictSubsetOrdering, FiniteSubsetsOf

\* A non-empty set of numbers has a lowest one.
LEMMA LowestIs ==
  ASSUME NEW S, S \subseteq Nat, S # {}
  PROVE  Lowest(S) \in S /\ \A j \in S : Lowest(S) <= j
<1> DEFINE upto(k) == {j \in S : j <= k}
           all == {upto(k) : k \in S}
<1>1. \A T \in all : T \subseteq Nat /\ IsFiniteSet(T)
  <2>1. ASSUME NEW k \in S PROVE IsFiniteSet(upto(k))
    <3>1. k \in Nat /\ IsFiniteSet(0..k)
      BY FS_Interval
    <3>2. ASSUME NEW j \in upto(k) PROVE j \in 0..k
      <4>1. j \in Nat /\ j <= k
        OBVIOUS
      <4> QED
        BY <3>1, <4>1
    <3> QED
      BY <3>1, <3>2, FS_Subset
  <2> QED
    BY <2>1
<1>2. PICK T \in all : \A U \in all : U \subseteq T => U = T
  <2>1. all # {}
    OBVIOUS
  <2> HIDE DEF all
  <2> QED
    BY <1>1, <2>1, Smallest
<1>3. PICK k \in S : T = upto(k)
  OBVIOUS
<1>4. ASSUME NEW j \in S PROVE k <= j
  <2>1. SUFFICES ASSUME j < k PROVE FALSE
    OBVIOUS
  <2>2. upto(j) \subseteq T
    <3> SUFFICES ASSUME NEW i \in S, i <= j PROVE i <= k
      BY <1>3
    <3> QED
      BY <2>1
  <2>3. k \in T /\ k \notin upto(j)
    BY <1>3, <2>1
  <2>4. upto(j) \in all
    OBVIOUS
  <2> HIDE DEF all, upto
  <2> QED
    BY <1>2, <2>2, <2>3, <2>4
<1> QED
  BY <1>4 DEF Lowest

-----------------------------------------------------------------------------
(* The views of the map.                                                   *)

\* A map whose marks are those of its own nodes and edges.
Marked(g) ==
  /\ g.nodes \subseteq Names
  /\ \A e \in g.edges : e[1] \in g.nodes /\ e[2] \in g.nodes
  /\ g.island = IslandsOf(g.nodes, g.edges)
  /\ g.reachable = Seen(Forward(g.edges), g.entry) \cap g.nodes
  /\ g.roots = RootsOf(g.nodes, g.edges, g.island)

\* What a walk has seen has where it began, and no arc leaves it.
LEMMA SeenHas ==
  ASSUME NEW arcs, NEW from
  PROVE  /\ from \subseteq Seen(arcs, from)
         /\ \A a \in arcs : a[1] \in Seen(arcs, from) => a[2] \in Seen(arcs, from)
BY DEF Seen

\* It is within every set of that kind.
LEMMA SeenLeast ==
  ASSUME NEW arcs, NEW from, NEW S, from \subseteq S,
         \A a \in arcs : a[1] \in S => a[2] \in S
  PROVE  Seen(arcs, from) \subseteq S
<1> DEFINE heads == {a[2] : a \in arcs}
           part == from \cup (S \cap heads)
<1>1. part \in {from \cup T : T \in SUBSET heads}
  BY Zenon
<1>2. ASSUME NEW a \in arcs, a[1] \in part PROVE a[2] \in part
  BY <1>2
<1>3. \A i \in Seen(arcs, from) : i \in part
  BY <1>1, <1>2 DEF Seen
<1> QED
  BY <1>3

\* Annotate makes the marks from what it is given, and keeps the rest.
LEMMA AnnotateMarks ==
  ASSUME NEW raw, raw.nodes \subseteq Names,
         \A e \in raw.edges : e[1] \in raw.nodes /\ e[2] \in raw.nodes
  PROVE  /\ Marked(Annotate(raw))
         /\ Annotate(raw).nodes = raw.nodes /\ Annotate(raw).edges = raw.edges
         /\ Annotate(raw).entry = raw.entry
BY DEF Annotate, Marked

\* The two ends of an edge are on one island.
LEMMA OneIsland ==
  ASSUME NEW g, Marked(g), NEW e \in g.edges
  PROVE  g.island[e[1]] = g.island[e[2]]
<1> DEFINE arcs == Undirected(g.edges)
           here == Seen(arcs, {e[1]})
           there == Seen(arcs, {e[2]})
<1>1. <<e[1], e[2]>> \in arcs /\ <<e[2], e[1]>> \in arcs
  BY DEF Undirected
<1>2. /\ e[1] \in here /\ \A a \in arcs : a[1] \in here => a[2] \in here
      /\ e[2] \in there /\ \A a \in arcs : a[1] \in there => a[2] \in there
  <2> HIDE DEF arcs
  <2> QED
    BY SeenHas
<1>3. e[2] \in here /\ e[1] \in there
  <2> HIDE DEF arcs, here, there
  <2>1. <<e[1], e[2]>>[1] = e[1] /\ <<e[1], e[2]>>[2] = e[2]
        /\ <<e[2], e[1]>>[1] = e[2] /\ <<e[2], e[1]>>[2] = e[1]
    OBVIOUS
  <2> QED
    BY <1>1, <1>2, <2>1, Zenon
<1>4. here \subseteq there
  <2> HIDE DEF arcs, there
  <2> QED
    BY <1>2, <1>3, SeenLeast
<1>5. there \subseteq here
  <2> HIDE DEF arcs, here
  <2> QED
    BY <1>2, <1>3, SeenLeast
<1>6. e[1] \in g.nodes /\ e[2] \in g.nodes
  BY DEF Marked
<1>7. here = there
  BY <1>4, <1>5, Zenon
<1> DEFINE lowest == [n \in g.nodes |-> Lowest(Seen(arcs, {n}))]
<1>8. lowest[e[1]] = lowest[e[2]]
  <2> HIDE DEF arcs
  <2> QED
    BY <1>6, <1>7
<1>9. g.island = [n \in g.nodes |-> Cardinality(
                  {lowest[k] : k \in {j \in g.nodes : lowest[j] < lowest[n]}})]
  BY Zenon DEF Marked, IslandsOf
<1> HIDE DEF lowest
<1> QED
  BY <1>6, <1>8, <1>9

\* Each island has a root: a node that nothing depends on, or its lowest.
LEMMA Rooted ==
  ASSUME NEW g, Marked(g), NEW n \in g.nodes
  PROVE  \E r \in g.roots : g.island[r] = g.island[n]
<1> DEFINE free == {k \in g.nodes : \A e \in Structural(g.edges) : e[2] # k}
           mates(i) == {k \in g.nodes : g.island[k] = g.island[i]}
<1>1. g.roots = free \cup {k \in g.nodes : mates(k) \cap free = {} /\ k = Lowest(mates(k))}
  BY DEF Marked, RootsOf
<1>2. CASE mates(n) \cap free # {}
  BY <1>1, <1>2
<1>3. CASE mates(n) \cap free = {}
  <2>1. mates(n) \subseteq Nat /\ n \in mates(n)
    BY ViewsAssumption DEF Marked
  <2>2. Lowest(mates(n)) \in mates(n)
    BY <2>1, LowestIs
  <2>3. mates(Lowest(mates(n))) = mates(n)
    BY <2>2
  <2> QED
    BY <1>1, <1>3, <2>2, <2>3
<1> QED
  BY <1>2, <1>3

\* What runs is entered or depended on: without a node that is neither, the
\* walk would have gone where it went.
LEMMA NoOrphanRuns ==
  ASSUME NEW g, Marked(g)
  PROVE  Orphans(g) \cap g.reachable = {}
<1> SUFFICES ASSUME NEW n \in Orphans(g), n \in g.reachable PROVE FALSE
  OBVIOUS
<1> DEFINE arcs == Forward(g.edges)
           others == Seen(arcs, g.entry) \ {n}
<1>1. n \notin g.entry /\ \A a \in arcs : a[2] # n
  BY DEF Orphans, Forward
<1>2. n \in Seen(arcs, g.entry)
  BY DEF Marked
<1>3. g.entry \subseteq others /\ \A a \in arcs : a[1] \in others => a[2] \in others
  <2> HIDE DEF arcs
  <2> QED
    BY <1>1, SeenHas
<1>4. Seen(arcs, g.entry) \subseteq others
  <2> HIDE DEF arcs, others
  <2> QED
    BY <1>3, SeenLeast
<1> QED
  BY <1>2, <1>4

\* A part of a map is marked anew.
LEMMA SubgraphMarks ==
  ASSUME NEW g, Marked(g), NEW keep
  PROVE  /\ Marked(Subgraph(g, keep))
         /\ Subgraph(g, keep).nodes = g.nodes \cap keep
         /\ Subgraph(g, keep).edges = {e \in g.edges : e[1] \in keep /\ e[2] \in keep}
         /\ Subgraph(g, keep).entry = g.entry \cap keep
<1> DEFINE raw == [nodes |-> g.nodes \cap keep,
                   edges |-> {e \in g.edges : e[1] \in keep /\ e[2] \in keep},
                   entry |-> g.entry \cap keep, util |-> g.util \cap keep,
                   boundary |-> g.boundary \cap keep]
<1>1. raw.nodes \subseteq Names /\ \A e \in raw.edges : e[1] \in raw.nodes /\ e[2] \in raw.nodes
  BY DEF Marked
<1>2. Subgraph(g, keep) = Annotate(raw)
  BY DEF Subgraph
<1>3. /\ raw.nodes = g.nodes \cap keep
      /\ raw.edges = {e \in g.edges : e[1] \in keep /\ e[2] \in keep}
      /\ raw.entry = g.entry \cap keep
  OBVIOUS
<1> HIDE DEF raw
<1> QED
  BY <1>1, <1>2, <1>3, AnnotateMarks

\* A scoped map has the scope, and beyond it the ends of edges that cross.
LEMMA FilterUnderMarks ==
  ASSUME NEW g, Marked(g), NEW scope
  PROVE  LET h == FilterUnder(g, scope)
             inScope == g.nodes \cap scope
             across == {e \in Structural(g.edges) : e[1] \in inScope \/ e[2] \in inScope}
             keep == inScope \cup {e[1] : e \in across} \cup {e[2] : e \in across}
         IN  /\ Marked(h)
             /\ h.nodes = g.nodes \cap keep
             /\ h.edges = {e \in g.edges : e[1] \in keep /\ e[2] \in keep}
             /\ h.boundary = h.nodes \ inScope
<1> DEFINE h == FilterUnder(g, scope)
           inScope == g.nodes \cap scope
           across  == {e \in Structural(g.edges) : e[1] \in inScope \/ e[2] \in inScope}
           keep    == inScope \cup {e[1] : e \in across} \cup {e[2] : e \in across}
           out     == Subgraph(g, keep)
<1>1. h = [out EXCEPT !.boundary = out.nodes \ inScope]
  BY Zenon DEF FilterUnder
<1>2. /\ Marked(out) /\ out.nodes = g.nodes \cap keep
      /\ out.edges = {e \in g.edges : e[1] \in keep /\ e[2] \in keep}
  <2> HIDE DEF keep
  <2> QED
    BY SubgraphMarks
<1>3. \E raw : out = Annotate(raw)
  BY Zenon DEF Subgraph
<1> HIDE DEF out, h
<1>4. /\ h.nodes = out.nodes /\ h.edges = out.edges /\ h.entry = out.entry
      /\ h.island = out.island /\ h.reachable = out.reachable /\ h.roots = out.roots
      /\ h.boundary = out.nodes \ inScope
  BY <1>1, <1>3 DEF Annotate
<1>5. Marked(h)
  BY <1>2, <1>4 DEF Marked
<1> HIDE DEF keep
<1>6. /\ h.nodes = g.nodes \cap keep /\ h.boundary = h.nodes \ inScope
      /\ h.edges = {e \in g.edges : e[1] \in keep /\ e[2] \in keep}
  BY <1>2, <1>4
<1> QED
  BY <1>5, <1>6, Zenon DEF h, keep

LEMMA CallGraphMarks ==
  ASSUME NEW g, Marked(g)
  PROVE  Marked(CallGraph(g))
<1> DEFINE calls == {e \in g.edges : e[3] \in {"calls", "route"}}
           keep  == {n \in g.nodes : \/ Kind[n] \in {"function", "external"}
                                     \/ \E e \in calls : n \in {e[1], e[2]}}
           raw   == [nodes |-> keep, edges |-> {e \in calls : e[1] \in keep /\ e[2] \in keep},
                     entry |-> g.entry \cap keep, util |-> g.util \cap keep,
                     boundary |-> g.boundary \cap keep]
<1>1. raw.nodes \subseteq Names /\ \A e \in raw.edges : e[1] \in raw.nodes /\ e[2] \in raw.nodes
  BY DEF Marked
<1>2. CallGraph(g) = Annotate(raw)
  BY Zenon DEF CallGraph
<1> HIDE DEF raw
<1> QED
  BY <1>1, <1>2, AnnotateMarks

LEMMA CollapseMarks ==
  ASSUME NEW g, Marked(g), NEW level
  PROVE  LET h == Collapse(g, level) IN
         /\ Marked(h)
         /\ h.nodes = {Target(n, level) : n \in g.nodes}
         /\ h.entry = EntryOf(g, level)
         /\ \A e \in Structural(g.edges) :
              LET moved == <<Target(e[1], level), Target(e[2], level), e[3]>> IN
              moved[1] # moved[2] => moved \in h.edges
<1> DEFINE moved == {<<Target(e[1], level), Target(e[2], level), e[3]>> : e \in Structural(g.edges)}
           raw == [nodes |-> {Target(n, level) : n \in g.nodes},
                   edges |-> {e \in moved : e[1] # e[2]},
                   entry |-> EntryOf(g, level),
                   util |-> {Target(n, level) : n \in g.util}
                              \ {Target(n, level) : n \in g.nodes \ g.util},
                   boundary |-> {n \in g.boundary : Kind[n] = "external"}]
<1>1. raw.nodes \subseteq Names
  BY ViewsAssumption DEF Marked, Target
<1>2. ASSUME NEW e \in raw.edges PROVE e[1] \in raw.nodes /\ e[2] \in raw.nodes
  <2>1. PICK k \in Structural(g.edges) :
          e = <<Target(k[1], level), Target(k[2], level), k[3]>>
    BY <1>2
  <2>2. k[1] \in g.nodes /\ k[2] \in g.nodes
    BY DEF Structural, Marked
  <2>3. e[1] = Target(k[1], level) /\ e[2] = Target(k[2], level)
    BY <2>1
  <2> QED
    BY <2>2, <2>3
<1>3. Collapse(g, level) = Annotate(raw)
  BY Zenon DEF Collapse
<1>4. \A e \in Structural(g.edges) :
        LET k == <<Target(e[1], level), Target(e[2], level), e[3]>> IN
        k[1] # k[2] => k \in raw.edges
  OBVIOUS
<1>5. raw.nodes = {Target(n, level) : n \in g.nodes} /\ raw.entry = EntryOf(g, level)
  OBVIOUS
<1> HIDE DEF raw
<1>6. Marked(Annotate(raw)) /\ Annotate(raw).nodes = raw.nodes
      /\ Annotate(raw).edges = raw.edges /\ Annotate(raw).entry = raw.entry
  BY <1>1, <1>2, AnnotateMarks
<1> QED
  BY <1>3, <1>4, <1>5, <1>6

-----------------------------------------------------------------------------
\* --live leaves what runs and nothing else, and still shows all of it as
\* running: a walk in what is left goes where it went in the whole.
LEMMA LiveRuns ==
  ASSUME NEW g, Marked(g)
  PROVE  LET h == Reachable(g, {}) IN
         /\ h.reachable = h.nodes
         /\ h.nodes = g.reachable
<1> DEFINE arcs == Forward(g.edges)
           keep == Seen(arcs, g.entry)
           h == Reachable(g, {})
           left == Forward(h.edges)
           again == Seen(left, h.entry)
           reach == again \cup (keep \ again)
<1>1. h = Subgraph(g, keep)
  BY Zenon DEF Reachable
<1>2. /\ Marked(h) /\ h.nodes = g.nodes \cap keep /\ h.entry = g.entry \cap keep
      /\ h.edges = {e \in g.edges : e[1] \in keep /\ e[2] \in keep}
  <2> HIDE DEF keep, h
  <2> QED
    BY <1>1, SubgraphMarks
<1>3. g.entry \subseteq keep /\ \A a \in arcs : a[1] \in keep => a[2] \in keep
  <2> HIDE DEF arcs
  <2> QED
    BY SeenHas
<1>4. h.entry \subseteq again /\ \A a \in left : a[1] \in again => a[2] \in again
  <2> HIDE DEF left, h
  <2> QED
    BY SeenHas
<1> DEFINE both == keep \cap again
<1>5. \A a \in arcs : a[1] \in keep /\ a[2] \in keep => a \in left
  <2> HIDE DEF keep, h
  <2> QED
    BY <1>2 DEF Forward, Structural
<1>6. g.entry \subseteq both /\ \A a \in arcs : a[1] \in both => a[2] \in both
  <2> HIDE DEF keep, h, again, arcs, left
  <2> QED
    BY <1>2, <1>3, <1>4, <1>5
<1>7. keep \subseteq both
  <2> HIDE DEF both, arcs
  <2> QED
    BY <1>6, SeenLeast
<1> HIDE DEF h
<1>8. h.reachable = again \cap h.nodes /\ g.reachable = keep \cap g.nodes
  BY <1>2 DEF Marked
<1> HIDE DEF keep, again
<1> QED
  BY <1>2, <1>7, <1>8 DEF h

\* --detached leaves nothing that runs.
LEMMA DetachedIsDead ==
  ASSUME NEW g, Marked(g)
  PROVE  /\ Detached(g).reachable = {}
         /\ Detached(g).nodes = g.nodes \ g.reachable
<1> DEFINE h == Detached(g)
           arcs == Forward(h.edges)
<1>1. /\ Marked(h) /\ h.nodes = g.nodes \ g.reachable
      /\ h.entry = g.entry \cap (g.nodes \ g.reachable)
  BY SubgraphMarks DEF Detached
<1>2. g.entry \cap g.nodes \subseteq g.reachable
  BY SeenHas DEF Marked
<1>3. h.entry = {}
  BY <1>1, <1>2
<1>4. Seen(arcs, h.entry) \subseteq {}
  <2> HIDE DEF h, arcs
  <2> QED
    BY <1>3, SeenLeast
<1> HIDE DEF h
<1>5. h.reachable = {}
  BY <1>1, <1>4 DEF Marked
<1> QED
  BY <1>1, <1>5 DEF h

\* A package runs if a node in it does: what leads to the node leads, rolled up,
\* to its package.
LEMMA PackageRuns ==
  ASSUME NEW g, Marked(g)
  PROVE  \A n \in g.reachable : PackageOf[n] \in Collapse(g, "package").reachable
<1> DEFINE h == Collapse(g, "package")
           arcs == Forward(g.edges)
           rolled == Forward(h.edges)
           runs == Seen(rolled, h.entry)
           back == {n \in Seen(arcs, g.entry) : PackageOf[n] \in runs}
<1>1. /\ Marked(h) /\ h.nodes = {PackageOf[n] : n \in g.nodes}
      /\ h.entry = {PackageOf[n] : n \in g.entry}
      /\ \A e \in Structural(g.edges) : PackageOf[e[1]] # PackageOf[e[2]] =>
           <<PackageOf[e[1]], PackageOf[e[2]], e[3]>> \in h.edges
  <2>1. \A n : Target(n, "package") = PackageOf[n]
    BY DEF Target
  <2>2. EntryOf(g, "package") = {PackageOf[n] : n \in g.entry}
    BY <2>1 DEF EntryOf
  <2> HIDE DEF h
  <2>3. /\ Marked(h) /\ h.nodes = {Target(n, "package") : n \in g.nodes}
        /\ h.entry = EntryOf(g, "package")
    BY CollapseMarks DEF h
  <2>4. ASSUME NEW e \in Structural(g.edges), PackageOf[e[1]] # PackageOf[e[2]]
        PROVE  <<PackageOf[e[1]], PackageOf[e[2]], e[3]>> \in h.edges
    <3>1. LET moved == <<Target(e[1], "package"), Target(e[2], "package"), e[3]>> IN
            moved[1] # moved[2] => moved \in h.edges
      BY CollapseMarks DEF h
    <3> QED
      BY <2>1, <2>4, <3>1
  <2> QED
    BY <2>1, <2>2, <2>3, <2>4
<1>2. g.entry \subseteq Seen(arcs, g.entry)
      /\ \A a \in arcs : a[1] \in Seen(arcs, g.entry) => a[2] \in Seen(arcs, g.entry)
  <2> HIDE DEF arcs
  <2> QED
    BY SeenHas
<1>3. h.entry \subseteq runs /\ \A a \in rolled : a[1] \in runs => a[2] \in runs
  <2> HIDE DEF rolled, h
  <2> QED
    BY SeenHas
<1>4. g.entry \subseteq back
  <2> HIDE DEF runs, h, arcs
  <2> QED
    BY <1>1, <1>2, <1>3
<1>5. ASSUME NEW a \in arcs, a[1] \in back PROVE a[2] \in back
  <2>1. PICK e \in Structural(g.edges) : a = <<e[1], e[2]>>
    BY DEF Forward
  <2>2. a[1] = e[1] /\ a[2] = e[2] /\ e[3] # "contains"
    BY <2>1 DEF Structural
  <2>3. PackageOf[e[1]] \in runs /\ a[2] \in Seen(arcs, g.entry)
    BY <1>2, <1>5, <2>2
  <2>4. PackageOf[e[2]] \in runs
    <3>1. CASE PackageOf[e[1]] = PackageOf[e[2]]
      BY <2>3, <3>1
    <3>2. CASE PackageOf[e[1]] # PackageOf[e[2]]
      <4> DEFINE k == <<PackageOf[e[1]], PackageOf[e[2]], e[3]>>
      <4>1. k \in h.edges /\ k[1] = PackageOf[e[1]] /\ k[2] = PackageOf[e[2]] /\ k[3] = e[3]
        BY <1>1, <3>2
      <4>2. <<k[1], k[2]>> \in rolled
        <5> HIDE DEF k, h
        <5> QED
          BY <2>2, <4>1 DEF Forward, Structural
      <4> HIDE DEF k, runs, rolled
      <4>3. <<k[1], k[2]>>[1] = k[1] /\ <<k[1], k[2]>>[2] = k[2]
        OBVIOUS
      <4> QED
        BY <1>3, <2>3, <4>1, <4>2, <4>3, Zenon
    <3> QED
      BY <3>1, <3>2
  <2> HIDE DEF runs, arcs
  <2> QED
    BY <2>2, <2>3, <2>4
<1>6. Seen(arcs, g.entry) \subseteq back
  <2> HIDE DEF back, arcs
  <2> QED
    BY <1>4, <1>5, SeenLeast
<1> SUFFICES ASSUME NEW n \in g.reachable PROVE PackageOf[n] \in h.reachable
  OBVIOUS
<1> HIDE DEF h
<1>7. n \in Seen(arcs, g.entry) /\ n \in g.nodes
  BY DEF Marked
<1>8. PackageOf[n] \in runs /\ PackageOf[n] \in h.nodes
  <2> HIDE DEF arcs, runs
  <2> QED
    BY <1>1, <1>6, <1>7
<1> QED
  BY <1>1, <1>8 DEF Marked

-----------------------------------------------------------------------------
(* The command.                                                            *)

\* A map that is shown was annotated last, and says what view of the one before
\* it is.
ShownIsMarked ==
  /\ stage \in {"built", "scoped", "chosen", "levelled", "cycles", "done"}
  /\ Shown => Marked(m) /\ Marked(prev)
  /\ ~Shown => view.name = "none"
  /\ view.name = "under" => m = FilterUnder(prev, view.of)
  /\ view.name = "live" => m = Reachable(prev, {})
  /\ view.name = "detached" => m = Detached(prev)
  /\ view.name = "package" => m = Collapse(prev, "package")

LEMMA ViewsInitMarked == ViewsInit => ShownIsMarked
<1> SUFFICES ASSUME ViewsInit PROVE ShownIsMarked
  OBVIOUS
<1>1. PICK b \in Built : m = Annotate(b)
  BY DEF ViewsInit
<1>2. Marked(m)
  BY <1>1, AnnotateMarks, ViewsAssumption
<1> QED
  BY <1>2 DEF ViewsInit, ShownIsMarked, Shown, NoView

\* A view takes a marked map to a marked map.
LEMMA TakeMarked ==
  ASSUME ShownIsMarked, Shown, NEW at \in {"scoped", "chosen", "levelled"},
         NEW name, NEW of, NEW g, Take(at, name, of, g), Marked(g),
         name = "under" => g = FilterUnder(m, of),
         name = "live" => g = Reachable(m, {}),
         name = "detached" => g = Detached(m),
         name = "package" => g = Collapse(m, "package")
  PROVE  ShownIsMarked'
<1>1. /\ stage' = at /\ prev' = m /\ m' = g
      /\ view' = [name |-> name, of |-> of]
  BY DEF Take
<1>2. view'.name = name /\ view'.of = of /\ Shown'
  BY <1>1 DEF Shown
<1>3. Marked(m)' /\ Marked(prev)'
  BY <1>1 DEF ShownIsMarked, Marked
<1> QED
  BY <1>1, <1>2, <1>3 DEF ShownIsMarked

LEMMA SkipMarked ==
  ASSUME ShownIsMarked, Shown, NEW at \in {"scoped", "chosen", "levelled"}, Skip(at)
  PROVE  ShownIsMarked'
<1>1. Marked(m)' /\ Marked(prev)'
  BY DEF Skip, ShownIsMarked, Marked
<1> QED
  BY <1>1 DEF Skip, ShownIsMarked, NoView, Shown

LEMMA ViewsStepMarked == ShownIsMarked /\ [ViewsNext]_viewVars => ShownIsMarked'
<1> SUFFICES ASSUME ShownIsMarked, [ViewsNext]_viewVars PROVE ShownIsMarked'
  OBVIOUS
<1>1. ASSUME Under PROVE ShownIsMarked'
  <2>1. Shown /\ Marked(m)
    BY <1>1 DEF Under, Shown, ShownIsMarked
  <2>2. CASE Skip("scoped")
    BY <2>1, <2>2, SkipMarked
  <2>3. ASSUME NEW s \in Scopes, Take("scoped", "under", s, FilterUnder(m, s))
        PROVE  ShownIsMarked'
    <3>1. Marked(FilterUnder(m, s))
      BY <2>1, FilterUnderMarks
    <3> QED
      BY <2>1, <2>3, <3>1, TakeMarked
  <2>4. ASSUME NEW s \in Scopes, Take("scoped", "strict", s, Filter(m, s))
        PROVE  ShownIsMarked'
    <3>1. Marked(Filter(m, s))
      BY <2>1, SubgraphMarks DEF Filter
    <3> QED
      BY <2>1, <2>4, <3>1, TakeMarked
  <2> QED
    BY <1>1, <2>2, <2>3, <2>4 DEF Under
<1>2. ASSUME Choose PROVE ShownIsMarked'
  <2>1. Shown /\ Marked(m)
    BY <1>2 DEF Choose, Shown, ShownIsMarked
  <2>2. CASE Skip("chosen")
    BY <2>1, <2>2, SkipMarked
  <2>3. \A from : Marked(Reachable(m, from))
    BY <2>1, SubgraphMarks DEF Reachable
  <2>4. ASSUME NEW from \in Starts, Take("chosen", "from", from, Reachable(m, from))
        PROVE  ShownIsMarked'
    BY <2>1, <2>3, <2>4, TakeMarked
  <2>5. CASE Take("chosen", "live", {}, Reachable(m, {}))
    BY <2>1, <2>3, <2>5, TakeMarked
  <2>6. CASE Take("chosen", "detached", {}, Detached(m))
    <3>1. Marked(Detached(m))
      BY <2>1, SubgraphMarks DEF Detached
    <3> QED
      BY <2>1, <2>6, <3>1, TakeMarked
  <2> QED
    BY <1>2, <2>2, <2>4, <2>5, <2>6 DEF Choose
<1>3. ASSUME Level PROVE ShownIsMarked'
  <2>1. Shown /\ Marked(m)
    BY <1>3 DEF Level, Shown, ShownIsMarked
  <2>2. CASE Skip("levelled")
    BY <2>1, <2>2, SkipMarked
  <2>3. CASE Take("levelled", "call", {}, CallGraph(m))
    BY <2>1, <2>3, CallGraphMarks, TakeMarked
  <2>4. ASSUME NEW l \in {"file", "package"}, Take("levelled", l, {}, Collapse(m, l))
        PROVE  ShownIsMarked'
    <3>1. Marked(Collapse(m, l))
      BY <2>1, CollapseMarks
    <3> QED
      BY <2>1, <2>4, <3>1, TakeMarked
  <2> QED
    BY <1>3, <2>2, <2>3, <2>4 DEF Level
<1>4. CASE Report
  BY <1>4 DEF Report, ShownIsMarked, Shown, NoView
<1>5. CASE NextRoot \/ NextChild \/ Return \/ Done
  <2>1. /\ stage = "cycles" /\ stage' \in {"cycles", "done"}
        /\ UNCHANGED <<m, prev, view>>
    BY <1>5 DEF NextRoot, NextChild, Return, Done
  <2> QED
    BY <2>1 DEF ShownIsMarked, Shown
<1>6. CASE UNCHANGED viewVars
  BY <1>6 DEF viewVars, ShownIsMarked, Shown, Marked
<1> QED
  BY <1>1, <1>2, <1>3, <1>4, <1>5, <1>6 DEF ViewsNext

\* The marks agree with what is shown, whatever views were taken, and no view
\* of a map that runs loses or gains a node.
THEOREM LiveAlwaysLive == ViewsSpec => []LiveStaysLive
<1>1. ShownIsMarked => LiveStaysLive
  <2> SUFFICES ASSUME ShownIsMarked PROVE LiveStaysLive
    OBVIOUS
  <2>1. view.name \in {"live", "detached", "package"} => Marked(prev)
    BY DEF ShownIsMarked
  <2>2. ASSUME view.name = "live"
        PROVE  m.reachable = m.nodes /\ m.nodes \cap Detached(prev).nodes = {}
                 /\ m.nodes \cup Detached(prev).nodes = prev.nodes
    <3>1. m.reachable = m.nodes /\ m.nodes = prev.reachable
      BY <2>1, <2>2, LiveRuns DEF ShownIsMarked
    <3>2. Detached(prev).nodes = prev.nodes \ prev.reachable
      BY <2>1, <2>2, DetachedIsDead
    <3>3. prev.reachable \subseteq prev.nodes
      BY <2>1, <2>2 DEF Marked
    <3> QED
      BY <3>1, <3>2, <3>3
  <2>3. view.name = "detached" => m.reachable = {}
    BY <2>1, DetachedIsDead DEF ShownIsMarked
  <2>4. view.name = "package" => {PackageOf[n] : n \in prev.reachable} \subseteq m.reachable
    BY <2>1, PackageRuns DEF ShownIsMarked
  <2>5. Shown => /\ Orphans(m) \cap m.reachable = {}
                 /\ \A e \in m.edges : m.island[e[1]] = m.island[e[2]]
                 /\ \A n \in m.nodes : \E r \in m.roots : m.island[r] = m.island[n]
    BY NoOrphanRuns, OneIsland, Rooted DEF ShownIsMarked
  <2> QED
    BY <2>2, <2>3, <2>4, <2>5 DEF LiveStaysLive
<1> QED
  BY <1>1, ViewsInitMarked, ViewsStepMarked, PTL DEF ViewsSpec

\* A scoped map has every edge that crosses into the scope, nothing of the scope
\* is missing or marked as beyond it, and what is beyond has an edge to it.
THEOREM ScopeAlwaysKeepsNeighbours == ViewsSpec => []ScopeKeepsNeighbours
<1>1. ShownIsMarked => ScopeKeepsNeighbours
  <2> SUFFICES ASSUME ShownIsMarked, view.name = "under"
               PROVE  ScopeKeepsNeighbours
    BY DEF ScopeKeepsNeighbours
  <2> DEFINE inScope == prev.nodes \cap view.of
             across == {e \in Structural(prev.edges) : e[1] \in inScope \/ e[2] \in inScope}
             keep == inScope \cup {e[1] : e \in across} \cup {e[2] : e \in across}
  <2>1. Marked(prev) /\ m = FilterUnder(prev, view.of)
    BY DEF ShownIsMarked
  <2>2. /\ m.nodes = prev.nodes \cap keep
        /\ m.edges = {e \in prev.edges : e[1] \in keep /\ e[2] \in keep}
        /\ m.boundary = m.nodes \ inScope
    BY <2>1, FilterUnderMarks
  <2>3. ASSUME NEW e \in Structural(prev.edges), e[1] \in view.of \/ e[2] \in view.of
        PROVE  e \in across /\ e \in Structural(m.edges) /\ e \in m.edges
    BY <2>1, <2>2, <2>3 DEF Marked, Structural
  <2>4. m.nodes \cap view.of = prev.nodes \cap view.of
    BY <2>2
  <2>5. ASSUME NEW n \in m.boundary
        PROVE  n \notin view.of /\ \E e \in Structural(m.edges) :
                 (e[1] = n /\ e[2] \in view.of) \/ (e[2] = n /\ e[1] \in view.of)
    <3>1. n \in keep /\ n \notin inScope /\ n \notin view.of
      BY <2>2
    <3>2. PICK e \in across : n = e[1] \/ n = e[2]
      BY <3>1
    <3>3. (e[1] = n /\ e[2] \in view.of) \/ (e[2] = n /\ e[1] \in view.of)
      BY <3>1, <3>2
    <3>4. e \in Structural(m.edges)
      BY <2>3, <3>2, <3>3
    <3> QED
      BY <3>1, <3>3, <3>4
  <2> QED
    BY <2>3, <2>4, <2>5 DEF ScopeKeepsNeighbours
<1> QED
  BY <1>1, ViewsInitMarked, ViewsStepMarked, PTL DEF ViewsSpec

-----------------------------------------------------------------------------
(* The cycles.  From(n) is what n leads to in the graph of Cycles, Knot(n) *)
(* what it is on a cycle with.                                             *)

From(n) == Seen(Forward(m.edges), {n})
Knot(n) == {k \in From(n) : n \in From(k)}

LEMMA Arcs ==
  ASSUME NEW v, NEW c
  PROVE  <<v, c>> \in Forward(m.edges) <=> c \in Children(v)
BY DEF Forward, Children

LEMMA FromLeads ==
  ASSUME NEW n
  PROVE  /\ n \in From(n)
         /\ \A v \in From(n) : Children(v) \subseteq From(n)
<1> DEFINE arcs == Forward(m.edges)
<1>1. n \in From(n) /\ \A a \in arcs : a[1] \in From(n) => a[2] \in From(n)
  <2> HIDE DEF arcs
  <2> QED
    BY SeenHas DEF From, arcs
<1>2. ASSUME NEW v \in From(n), NEW c \in Children(v) PROVE c \in From(n)
  <2>1. <<v, c>> \in arcs /\ <<v, c>>[1] = v /\ <<v, c>>[2] = c
    BY Arcs
  <2> HIDE DEF arcs
  <2> QED
    BY <1>1, <2>1, Zenon
<1> QED
  BY <1>1, <1>2

\* From(n) is within every set that has n and the children of what it has.
LEMMA FromLeast ==
  ASSUME NEW n, NEW S, n \in S, \A v \in S : Children(v) \subseteq S
  PROVE  From(n) \subseteq S
<1> DEFINE arcs == Forward(m.edges)
<1>1. ASSUME NEW a \in arcs, a[1] \in S PROVE a[2] \in S
  <2>1. PICK e \in Structural(m.edges) : a = <<e[1], e[2]>>
    BY DEF Forward
  <2>2. a[1] = e[1] /\ a[2] = e[2]
    BY <2>1
  <2>3. e[2] \in Children(e[1])
    BY DEF Children
  <2> QED
    BY <1>1, <2>2, <2>3
<1> HIDE DEF arcs
<1> QED
  BY <1>1, SeenLeast DEF From, arcs

LEMMA FromFrom ==
  ASSUME NEW n, NEW k \in From(n)
  PROVE  From(k) \subseteq From(n)
BY FromLeads, FromLeast

\* A knot is the same from wherever in it one looks.
LEMMA OneKnot ==
  ASSUME NEW n, NEW k \in Knot(n)
  PROVE  Knot(k) = Knot(n)
<1>1. From(k) = From(n)
  BY FromFrom DEF Knot
<1>2. \A i \in From(n) : n \in From(i) <=> k \in From(i)
  BY FromFrom DEF Knot
<1> QED
  BY <1>1, <1>2 DEF Knot

-----------------------------------------------------------------------------
(* The search.                                                             *)

\* The nodes on the stack, those of some frames, and the children of v that such
\* frames have looked at.
Stacked == {stack[i] : i \in 1..Len(stack)}
Nodes(w) == {w[i].node : i \in 1..Len(w)}
LookedAt(w, v) == {c \in Children(v) : \A i \in 1..Len(w) : w[i].node = v => c \notin w[i].left}
Gray == Nodes(work)
Looked(v) == LookedAt(work, v)
Frames == [node : m.nodes, left : SUBSET m.nodes]

GraphTyped ==
  /\ m.nodes \subseteq Names
  /\ \A e \in m.edges : e[1] \in m.nodes /\ e[2] \in m.nodes

Numbered ==
  /\ Visited \subseteq m.nodes /\ index \in [Visited -> Nat] /\ low \in [Visited -> Nat]
  /\ \A v \in Visited : index[v] < Cardinality(Visited)

\* Both stacks are in the order in which their nodes were visited.
StackInOrder ==
  /\ stack \in Seq(m.nodes) /\ Stacked \subseteq Visited
  /\ \A i, j \in 1..Len(stack) : i < j => index[stack[i]] < index[stack[j]]
Rising(w, number) == \A i, j \in 1..Len(w) : i < j => number[w[i].node] < number[w[j].node]
Leaving(w) == \A i \in 1..Len(w) : w[i].left \subseteq Children(w[i].node)
InOrder(w) == w \in Seq(Frames) /\ Nodes(w) \subseteq Stacked /\ Rising(w, index) /\ Leaving(w)

\* What was looked at was visited, and from what left the stack nothing leads
\* back to it.
Followed ==
  \A v \in Visited : /\ Looked(v) \subseteq Visited
                     /\ v \notin Stacked => Looked(v) \cap Stacked = {}

\* A node of a frame leads to all that was stacked after it, and whatever is
\* stacked leads to a node of a frame that was there before it.
Leads == \A g \in Gray, v \in Stacked : index[g] <= index[v] => v \in From(g)
Returns == \A v \in Stacked : \E g \in Gray : index[g] <= index[v] /\ g \in From(v)

\* The low number of a frame is the number of a stacked node it leads to, and no
\* arc into the stack is lower that comes from what was stacked after it and
\* before the next frame.
LowIsReached ==
  \A g \in Gray : /\ low[g] <= index[g]
                  /\ \E u \in Stacked : index[u] = low[g] /\ u \in From(g)
Answers(g, v) == index[g] <= index[v] /\ \A h \in Gray : index[g] < index[h] => index[v] < index[h]
LowCovers ==
  \A g \in Gray, v \in Stacked : Answers(g, v) =>
    \A c \in Looked(v) \cap Stacked : low[g] <= index[c]

Cyclic(k) == Cardinality(Knot(k)) > 1 \/ <<k, k>> \in Forward(m.edges)
FoundSoFar == found = {Knot(n) : n \in {k \in Visited \ Stacked : Cyclic(k)}}

Ordered == GraphTyped /\ Numbered /\ StackInOrder /\ InOrder(work)
Explored == Followed /\ Leads /\ Returns /\ LowIsReached /\ LowCovers /\ FoundSoFar

LEMMA VisitedFinite ==
  ASSUME Ordered
  PROVE  IsFiniteSet(Visited) /\ Cardinality(Visited) \in Nat
<1>1. Visited \subseteq Names
  BY DEF Ordered, GraphTyped, Numbered
<1> QED
  BY <1>1, ViewsAssumption, FS_Subset, FS_CardinalityType

LEMMA ChildrenAre ==
  ASSUME Ordered, NEW v
  PROVE  Children(v) \subseteq m.nodes
BY DEF Ordered, GraphTyped, Children, Structural

\* Numbers tell stacked nodes apart.
LEMMA NumbersDiffer ==
  ASSUME Ordered, NEW u \in Stacked, NEW v \in Stacked
  PROVE  /\ index[u] \in Nat /\ index[v] \in Nat
         /\ index[u] = index[v] => u = v
<1>1. PICK i \in 1..Len(stack), j \in 1..Len(stack) : u = stack[i] /\ v = stack[j]
  BY DEF Stacked
<1>2. i < j \/ j < i \/ i = j
  OBVIOUS
<1>3. index[u] \in Nat /\ index[v] \in Nat
  BY DEF Ordered, Numbered, StackInOrder
<1> QED
  BY <1>1, <1>2, <1>3 DEF Ordered, StackInOrder

\* The first k of a sequence.
LEMMA FirstOf ==
  ASSUME NEW S, NEW s \in Seq(S), NEW k \in Nat, k <= Len(s)
  PROVE  /\ SubSeq(s, 1, k) \in Seq(S) /\ Len(SubSeq(s, 1, k)) = k
         /\ \A i \in 1..k : SubSeq(s, 1, k)[i] = s[i]
<1>1. \A i \in 1..k : s[i] \in S
  BY ElementOfSeq, LenProperties
<1>2. 1 \in Int /\ k \in Int /\ (1 <= k \/ k = 0) /\ k - 1 + 1 = k
  OBVIOUS
<1>3. \A i \in 1..k : 1 + i - 1 = i
  OBVIOUS
<1>4. /\ SubSeq(s, 1, k) \in Seq(S)
      /\ Len(SubSeq(s, 1, k)) = IF 1 <= k THEN k - 1 + 1 ELSE 0
      /\ \A i \in 1..(k - 1 + 1) : SubSeq(s, 1, k)[i] = s[1 + i - 1]
  BY <1>1, <1>2, SubSeqProperties
<1> QED
  BY <1>2, <1>3, <1>4

\* The node of the last frame is the last visited of the frames'.
LEMMA LastFrame ==
  ASSUME NEW w, InOrder(w)
  PROVE  /\ Len(w) \in Nat
         /\ w = <<>> => Nodes(w) = {}
         /\ w # <<>> => /\ Len(w) # 0 /\ w[Len(w)] \in Frames
                        /\ w[Len(w)].node \in Nodes(w)
                        /\ w[Len(w)].left \subseteq Children(w[Len(w)].node)
                        /\ \A h \in Nodes(w) : \/ h = w[Len(w)].node
                                               \/ index[h] < index[w[Len(w)].node]
<1>1. w \in Seq(Frames)
  BY DEF InOrder
<1>2. Len(w) \in Nat
  BY <1>1, LenProperties
<1>3. w = <<>> => Nodes(w) = {}
  <2>1. w = <<>> => Len(w) = 0
    BY EmptySeq
  <2> QED
    BY <2>1 DEF Nodes
<1>4. ASSUME w # <<>>
      PROVE  /\ Len(w) # 0 /\ w[Len(w)] \in Frames
             /\ w[Len(w)].node \in Nodes(w)
             /\ w[Len(w)].left \subseteq Children(w[Len(w)].node)
             /\ \A h \in Nodes(w) : \/ h = w[Len(w)].node
                                    \/ index[h] < index[w[Len(w)].node]
  <2>1. Len(w) # 0 /\ Len(w) \in 1..Len(w)
    BY <1>1, <1>2, <1>4, EmptySeq
  <2>2. w[Len(w)] \in Frames
    BY <1>1, <2>1, ElementOfSeq
  <2>3. w[Len(w)].node \in Nodes(w) /\ w[Len(w)].left \subseteq Children(w[Len(w)].node)
    BY <2>1 DEF Nodes, InOrder, Leaving
  <2>4. ASSUME NEW h \in Nodes(w)
        PROVE  h = w[Len(w)].node \/ index[h] < index[w[Len(w)].node]
    <3>1. PICK i \in 1..Len(w) : h = w[i].node
      BY DEF Nodes
    <3>2. i = Len(w) \/ i < Len(w)
      BY <1>2
    <3> QED
      BY <2>1, <3>1, <3>2 DEF InOrder, Rising
  <2> QED
    BY <2>1, <2>2, <2>3, <2>4
<1> QED
  BY <1>2, <1>3, <1>4

\* Without the top frame.
LEMMA BelowIs ==
  ASSUME Ordered, work # <<>>
  PROVE  /\ InOrder(Below)
         /\ Nodes(Below) = Gray \ {Frame.node}
         /\ \A v : v # Frame.node => LookedAt(Below, v) = Looked(v)
         /\ LookedAt(Below, Frame.node) = Children(Frame.node)
         /\ Frame.left = {} => Looked(Frame.node) = Children(Frame.node)
         /\ Below \in Seq(Frames) /\ Len(Below) = Len(work) - 1
         /\ \A i \in 1..(Len(work) - 1) : Below[i] = work[i]
<1> DEFINE l == Len(work)
<1>1. /\ work \in Seq(Frames) /\ l \in Nat \ {0} /\ Nodes(work) \subseteq Stacked
      /\ \A i, j \in 1..l : i < j => index[work[i].node] < index[work[j].node]
      /\ \A i \in 1..l : work[i].left \subseteq Children(work[i].node)
  BY LastFrame DEF Ordered, InOrder, Rising, Leaving
<1>2. l - 1 \in Nat /\ l - 1 <= l
  BY <1>1
<1>3. Below \in Seq(Frames) /\ Len(Below) = l - 1 /\ \A i \in 1..(l - 1) : Below[i] = work[i]
  BY <1>1, <1>2, FirstOf DEF Below
<1>4. Frame = work[l] /\ l \in 1..l
  BY <1>1 DEF Frame
<1>5. \A i \in 1..l : i = l \/ (i \in 1..(l - 1) /\ i < l)
  BY <1>1
<1>6. \A i \in 1..(l - 1) : i \in 1..l /\ i < l
  BY <1>1
<1> HIDE DEF l
<1>7. \A i \in 1..(l - 1) : work[i].node # Frame.node
  <2> SUFFICES ASSUME NEW i \in 1..(l - 1), work[i].node = work[l].node PROVE FALSE
    BY <1>4
  <2>1. index[work[i].node] < index[work[l].node]
    BY <1>1, <1>4, <1>6
  <2>2. index[work[l].node] \in Nat
    <3>1. work[l].node \in Nodes(work)
      BY <1>4 DEF Nodes, l
    <3> QED
      BY <3>1, <1>1, NumbersDiffer
  <2> QED
    BY <2>1, <2>2
<1>8. Nodes(Below) = Gray \ {Frame.node}
  <2>1. Nodes(Below) = {work[i].node : i \in 1..(l - 1)}
    BY <1>3 DEF Nodes
  <2>2. Gray = {work[i].node : i \in 1..l}
    BY DEF Gray, Nodes, l
  <2> QED
    BY <2>1, <2>2, <1>4, <1>5, <1>6, <1>7
<1>9. InOrder(Below)
  <2>1. Nodes(Below) \subseteq Stacked
    BY <1>1, <1>8 DEF Gray
  <2>2. \A i, j \in 1..(l - 1) : i < j => index[Below[i].node] < index[Below[j].node]
    BY <1>1, <1>3, <1>6
  <2>3. \A i \in 1..(l - 1) : Below[i].left \subseteq Children(Below[i].node)
    BY <1>1, <1>3, <1>6
  <2> QED
    BY <1>3, <2>1, <2>2, <2>3 DEF InOrder, Rising, Leaving
<1>10. ASSUME NEW v
       PROVE  LookedAt(Below, v)
                = {c \in Children(v) : \A i \in 1..(l - 1) : work[i].node = v => c \notin work[i].left}
  BY <1>3 DEF LookedAt
<1>11. ASSUME NEW v
       PROVE  Looked(v) = {c \in Children(v) : \A i \in 1..l : work[i].node = v => c \notin work[i].left}
  BY DEF LookedAt, Looked, l
<1>12. \A v : v # Frame.node => LookedAt(Below, v) = Looked(v)
  BY <1>4, <1>5, <1>6, <1>10, <1>11
<1>13. LookedAt(Below, Frame.node) = Children(Frame.node)
  BY <1>7, <1>10
<1>14. Frame.left = {} => Looked(Frame.node) = Children(Frame.node)
  BY <1>4, <1>5, <1>7, <1>11
<1> QED
  BY <1>3, <1>8, <1>9, <1>12, <1>13, <1>14 DEF l

\* With one more frame, in the order of any numbers.
LEMMA AppendIs ==
  ASSUME NEW w \in Seq(Frames), NEW f \in Frames, NEW a, a = Append(w, f), NEW number,
         Rising(w, number), \A h \in Nodes(w) : number[h] < number[f.node],
         Leaving(w), f.left \subseteq Children(f.node)
  PROVE  /\ a \in Seq(Frames) /\ a # <<>>
         /\ Nodes(a) = Nodes(w) \cup {f.node}
         /\ \A v : LookedAt(a, v) = IF v = f.node THEN LookedAt(w, v) \ f.left ELSE LookedAt(w, v)
         /\ Rising(a, number) /\ Leaving(a)
<1> DEFINE l == Len(w)
<1>1. /\ a \in Seq(Frames) /\ a # <<>> /\ Len(a) = l + 1
      /\ \A i \in 1..l : a[i] = w[i]
      /\ a[l + 1] = f
  BY AppendProperties
<1>2. l \in Nat
  BY LenProperties
<1>3. /\ \A i \in 1..(l + 1) : i = l + 1 \/ i \in 1..l
      /\ \A i \in 1..l : i \in 1..(l + 1)
      /\ l + 1 \in 1..(l + 1)
      /\ \A i \in 1..(l + 1) : i < l + 1 => i \in 1..l
      /\ \A i \in 1..(l + 1) : ~(l + 1 < i)
  <2> HIDE DEF l
  <2> QED
    BY <1>2
<1>4. Nodes(a) = Nodes(w) \cup {f.node}
  <2>1. Nodes(a) = {a[i].node : i \in 1..(l + 1)} /\ Nodes(w) = {w[i].node : i \in 1..l}
    BY <1>1 DEF Nodes
  <2> HIDE DEF l
  <2> QED
    BY <2>1, <1>1, <1>3
<1>5. ASSUME NEW v
      PROVE  LookedAt(a, v) = IF v = f.node THEN LookedAt(w, v) \ f.left ELSE LookedAt(w, v)
  <2>1. /\ LookedAt(a, v) = {c \in Children(v) : \A i \in 1..(l + 1) : a[i].node = v => c \notin a[i].left}
        /\ LookedAt(w, v) = {c \in Children(v) : \A i \in 1..l : w[i].node = v => c \notin w[i].left}
    BY <1>1 DEF LookedAt
  <2> HIDE DEF l
  <2>2. \A c : (\A i \in 1..(l + 1) : a[i].node = v => c \notin a[i].left)
                 <=> /\ \A i \in 1..l : w[i].node = v => c \notin w[i].left
                     /\ f.node = v => c \notin f.left
    BY <1>1, <1>3
  <2> QED
    BY <2>1, <2>2
<1>6. \A i, j \in 1..(l + 1) : i < j => number[a[i].node] < number[a[j].node]
  <2> SUFFICES ASSUME NEW i \in 1..(l + 1), NEW j \in 1..(l + 1), i < j
               PROVE  number[a[i].node] < number[a[j].node]
    OBVIOUS
  <2>1. i \in 1..l /\ w[i].node \in Nodes(w) /\ a[i] = w[i]
    BY <1>1, <1>2, <1>3 DEF Nodes
  <2>2. CASE j = l + 1
    BY <2>1, <2>2, <1>1
  <2>3. CASE j \in 1..l
    BY <2>1, <2>3, <1>1 DEF Rising
  <2> QED
    BY <1>3, <2>2, <2>3
<1>7. \A i \in 1..(l + 1) : a[i].left \subseteq Children(a[i].node)
  BY <1>1, <1>3 DEF Leaving
<1> HIDE DEF l
<1>8. Len(a) = l + 1
  BY <1>1
<1> QED
  BY <1>1, <1>4, <1>5, <1>6, <1>7, <1>8 DEF Rising, Leaving

\* With the lowest child of the top frame looked at.
LEMMA AdvancedIs ==
  ASSUME Ordered, work # <<>>, Frame.left # {}
  PROVE  LET child == Lowest(Frame.left) IN
         /\ InOrder(Advanced)
         /\ Nodes(Advanced) = Gray
         /\ child \in Children(Frame.node)
         /\ \A v : LookedAt(Advanced, v) = IF v = Frame.node THEN Looked(v) \cup {child} ELSE Looked(v)
         /\ \A h \in Gray : h = Frame.node \/ index[h] < index[Frame.node]
<1> DEFINE child == Lowest(Frame.left)
           f == [node |-> Frame.node, left |-> Frame.left \ {child}]
<1>1. /\ Frame \in Frames /\ Frame.node \in Gray /\ Frame.left \subseteq Children(Frame.node)
      /\ \A h \in Gray : h = Frame.node \/ index[h] < index[Frame.node]
  BY LastFrame DEF Ordered, Frame, Gray
<1>2. Frame.left \subseteq Nat
  BY <1>1, ChildrenAre, ViewsAssumption DEF Ordered, GraphTyped
<1>3. child \in Frame.left
  BY <1>2, LowestIs
<1>4. f \in Frames /\ f = [Frame EXCEPT !.left = @ \ {child}]
  <2>1. Frame \in [node : m.nodes, left : SUBSET m.nodes]
    BY <1>1 DEF Frames
  <2> HIDE DEF child
  <2>2. f = [Frame EXCEPT !.left = @ \ {child}]
    <3>1. ASSUME NEW A, NEW B, NEW r \in [node : A, left : B], NEW c
          PROVE  [r EXCEPT !.left = c] = [node |-> r.node, left |-> c]
      OBVIOUS
    <3>2. ASSUME NEW c
          PROVE  [Frame EXCEPT !.left = c] = [node |-> Frame.node, left |-> c]
      BY <2>1, <3>1
    <3> QED
      BY <3>2
  <2>3. Frame.node \in m.nodes /\ Frame.left \ {child} \in SUBSET m.nodes
    <3>1. Frame.node \in m.nodes /\ Frame.left \in SUBSET m.nodes
      BY <2>1
    <3> QED
      BY <3>1
  <2>4. f \in [node : m.nodes, left : SUBSET m.nodes]
    BY <2>3
  <2> QED
    BY <2>2, <2>4 DEF Frames
<1>5. Advanced = Append(Below, f)
  BY <1>4 DEF Advanced
<1>6. /\ Below \in Seq(Frames) /\ Nodes(Below) = Gray \ {Frame.node}
      /\ Rising(Below, index) /\ Leaving(Below)
      /\ LookedAt(Below, Frame.node) = Children(Frame.node)
      /\ \A v : v # Frame.node => LookedAt(Below, v) = Looked(v)
  BY BelowIs DEF InOrder
<1>7. f.node = Frame.node /\ f.left = Frame.left \ {child}
  OBVIOUS
<1> HIDE DEF f, child
<1>8. f.left \subseteq Children(f.node) /\ \A h \in Nodes(Below) : index[h] < index[f.node]
  BY <1>1, <1>6, <1>7
<1>9. f \in Frames
  BY <1>4
<1>10. Below \in Seq(Frames) /\ Rising(Below, index) /\ Leaving(Below)
  BY <1>6
<1>11. /\ Advanced \in Seq(Frames)
       /\ Nodes(Advanced) = Nodes(Below) \cup {f.node}
       /\ \A v : LookedAt(Advanced, v)
                   = IF v = f.node THEN LookedAt(Below, v) \ f.left ELSE LookedAt(Below, v)
       /\ Rising(Advanced, index) /\ Leaving(Advanced)
  BY <1>5, <1>8, <1>9, <1>10, AppendIs
<1>12. Nodes(Advanced) = Gray
  BY <1>1, <1>6, <1>7, <1>11
<1>13. Looked(Frame.node) = Children(Frame.node) \ Frame.left
  <2>1. Len(work) \in 1..Len(work) /\ work[Len(work)] = Frame
    <3>1. Len(work) \in Nat /\ Len(work) # 0
      BY LastFrame DEF Ordered
    <3> QED
      BY <3>1 DEF Frame
  <2>2. \A i \in 1..Len(work) : work[i].node = Frame.node => work[i] = Frame
    <3> SUFFICES ASSUME NEW i \in 1..Len(work), work[i].node = Frame.node, i # Len(work)
                 PROVE  FALSE
      BY <2>1
    <3>1. i \in 1..(Len(work) - 1)
      BY <2>1
    <3>2. Below[i].node = Frame.node /\ i \in 1..Len(Below)
      BY <3>1, BelowIs
    <3>3. Frame.node \in Nodes(Below)
      BY <3>2 DEF Nodes
    <3> QED
      BY <3>3, <1>6
  <2> QED
    BY <2>1, <2>2 DEF Looked, LookedAt
<1>14. ASSUME NEW v
       PROVE  LookedAt(Advanced, v) = IF v = Frame.node THEN Looked(v) \cup {child} ELSE Looked(v)
  <2>1. CASE v # Frame.node
    BY <2>1, <1>6, <1>7, <1>11
  <2>2. CASE v = Frame.node
    <3>1. LookedAt(Advanced, v) = Children(v) \ (Frame.left \ {child})
      BY <2>2, <1>6, <1>7, <1>11
    <3> QED
      BY <3>1, <2>2, <1>1, <1>3, <1>13
  <2> QED
    BY <2>1, <2>2
<1>15. InOrder(Advanced)
  <2>1. Gray \subseteq Stacked
    BY DEF Ordered, InOrder, Gray
  <2> QED
    BY <2>1, <1>11, <1>12 DEF InOrder
<1>16. child \in Children(Frame.node)
  BY <1>1, <1>3
<1> QED
  BY <1>1, <1>12, <1>14, <1>15, <1>16 DEF child

-----------------------------------------------------------------------------
(* The steps of the search.                                                *)

LEMMA SameGraph ==
  ASSUME m' = m
  PROVE  /\ \A v : Children(v)' = Children(v) /\ From(v)' = From(v) /\ Knot(v)' = Knot(v)
         /\ Frames' = Frames /\ (GraphTyped => GraphTyped')
         /\ Gray' = Nodes(work')
         /\ \A v : Looked(v)' = LookedAt(work', v)
         /\ \A w : Leaving(w) => Leaving(w)'
<1>1. \A v : Children(v)' = Children(v) /\ From(v)' = From(v) /\ Knot(v)' = Knot(v)
  BY DEF Children, From, Knot
<1>2. Frames' = Frames /\ (GraphTyped => GraphTyped')
  BY DEF Frames, GraphTyped
<1>3. Gray' = Nodes(work')
  BY DEF Gray, Nodes
<1>4. \A v : Looked(v)' = LookedAt(work', v)
  BY <1>1 DEF Looked, LookedAt
<1>5. \A w : Leaving(w) => Leaving(w)'
  BY <1>1 DEF Leaving
<1> QED
  BY <1>1, <1>2, <1>3, <1>4, <1>5

LEMMA PushIs ==
  ASSUME Ordered, NEW n \in m.nodes, n \notin Visited, NEW rest, InOrder(rest), m' = m,
         Push(n, rest)
  PROVE  /\ Ordered'
         /\ Visited' = Visited \cup {n} /\ Stacked' = Stacked \cup {n}
         /\ \A v \in Visited : /\ index'[v] = index[v] /\ low'[v] = low[v]
                               /\ index[v] \in Nat /\ index[v] < index'[n]
         /\ index'[n] \in Nat /\ low'[n] = index'[n]
         /\ Gray' = Nodes(rest) \cup {n}
         /\ Looked(n)' = {} /\ \A v : v # n => Looked(v)' = LookedAt(rest, v)
<1> DEFINE f == [node |-> n, left |-> Children(n)]
           N == Cardinality(Visited)
<1>1. N \in Nat /\ IsFiniteSet(Visited)
  BY VisitedFinite
<1>2. /\ Visited \subseteq m.nodes /\ index \in [Visited -> Nat] /\ low \in [Visited -> Nat]
      /\ \A v \in Visited : index[v] < N
  BY DEF Ordered, Numbered
<1>3. /\ index' = With(index, n, N) /\ low' = With(low, n, N)
      /\ stack' = Append(stack, n) /\ work' = Append(rest, f)
  BY DEF Push
<1>4. Cardinality(Visited \cup {n}) = N + 1
  BY <1>1, FS_AddElement
<1> HIDE DEF N
<1>5. /\ Visited' = Visited \cup {n}
      /\ index' \in [Visited' -> Nat] /\ low' \in [Visited' -> Nat]
      /\ \A v \in Visited : index'[v] = index[v] /\ low'[v] = low[v]
      /\ index'[n] = N /\ low'[n] = N
  <2>1. Visited = DOMAIN index /\ Visited = DOMAIN low /\ Visited' = DOMAIN index'
    BY <1>2 DEF Visited
  <2>2. /\ index' = [k \in Visited \cup {n} |-> IF k = n THEN N ELSE index[k]]
        /\ low' = [k \in Visited \cup {n} |-> IF k = n THEN N ELSE low[k]]
    BY <1>3, <2>1 DEF With
  <2> QED
    BY <1>1, <1>2, <2>1, <2>2
<1>6. Numbered'
  <2>1. Cardinality(Visited') = N + 1 /\ m'.nodes = m.nodes
    BY <1>4, <1>5
  <2>2. ASSUME NEW v \in Visited' PROVE index'[v] < N + 1
    BY <1>1, <1>2, <1>5
  <2>3. Visited' \subseteq m.nodes
    BY <1>2, <1>5
  <2> QED
    BY <1>5, <2>1, <2>2, <2>3 DEF Numbered
<1>7. /\ stack \in Seq(m.nodes) /\ Stacked \subseteq Visited
      /\ \A i, j \in 1..Len(stack) : i < j => index[stack[i]] < index[stack[j]]
  BY DEF Ordered, StackInOrder
<1>8. /\ stack' \in Seq(m.nodes) /\ Len(stack') = Len(stack) + 1 /\ Len(stack) \in Nat
      /\ \A i \in 1..Len(stack) : stack'[i] = stack[i]
      /\ stack'[Len(stack) + 1] = n
  BY <1>3, <1>7, AppendProperties, LenProperties
<1>9. Stacked' = Stacked \cup {n}
  <2>1. Stacked' = {stack'[i] : i \in 1..(Len(stack) + 1)}
    BY <1>8 DEF Stacked
  <2>2. \A i \in 1..(Len(stack) + 1) : i = Len(stack) + 1 \/ i \in 1..Len(stack)
    BY <1>8
  <2>3. \A i \in 1..Len(stack) : i \in 1..(Len(stack) + 1)
    BY <1>8
  <2>4. Len(stack) + 1 \in 1..(Len(stack) + 1)
    BY <1>8
  <2> QED
    BY <1>8, <2>1, <2>2, <2>3, <2>4 DEF Stacked
<1>10. StackInOrder'
  <2>1. ASSUME NEW i \in 1..(Len(stack) + 1), NEW j \in 1..(Len(stack) + 1), i < j
        PROVE  index'[stack'[i]] < index'[stack'[j]]
    <3>1. i \in 1..Len(stack) /\ stack'[i] = stack[i] /\ stack[i] \in Visited
      BY <1>7, <1>8, <2>1 DEF Stacked
    <3>2. CASE j = Len(stack) + 1
      BY <3>1, <3>2, <1>2, <1>5, <1>8
    <3>3. CASE j \in 1..Len(stack)
      <4>1. stack'[j] = stack[j] /\ stack[j] \in Visited
        BY <1>7, <1>8, <3>3 DEF Stacked
      <4> QED
        BY <2>1, <3>1, <3>3, <4>1, <1>5, <1>7
    <3> QED
      BY <1>8, <3>2, <3>3
  <2>2. Stacked' \subseteq Visited'
    BY <1>5, <1>7, <1>9
  <2> QED
    BY <1>8, <2>1, <2>2 DEF StackInOrder
<1>11. /\ rest \in Seq(Frames) /\ Nodes(rest) \subseteq Stacked
       /\ Rising(rest, index) /\ Leaving(rest)
  BY DEF InOrder
<1>12. f \in Frames /\ f.node = n /\ f.left = Children(n)
  <2>1. Children(n) \in SUBSET m.nodes
    BY ChildrenAre
  <2> QED
    BY <2>1 DEF Frames
<1>13. Rising(rest, index')
  <2>1. ASSUME NEW i \in 1..Len(rest) PROVE index'[rest[i].node] = index[rest[i].node]
    BY <1>5, <1>7, <1>11 DEF Nodes
  <2> QED
    BY <2>1, <1>11 DEF Rising
<1>14. \A h \in Nodes(rest) : index'[h] < index'[n]
  BY <1>2, <1>5, <1>7, <1>11
<1> HIDE DEF f
<1>15. /\ work' \in Seq(Frames) /\ Nodes(work') = Nodes(rest) \cup {n}
       /\ \A v : LookedAt(work', v) = IF v = n THEN LookedAt(rest, v) \ Children(n) ELSE LookedAt(rest, v)
       /\ Rising(work', index') /\ Leaving(work')
  <2>1. f.left \subseteq Children(f.node) /\ \A h \in Nodes(rest) : index'[h] < index'[f.node]
    BY <1>12, <1>14
  <2>2. /\ work' \in Seq(Frames) /\ Nodes(work') = Nodes(rest) \cup {f.node}
        /\ \A v : LookedAt(work', v)
                    = IF v = f.node THEN LookedAt(rest, v) \ f.left ELSE LookedAt(rest, v)
        /\ Rising(work', index') /\ Leaving(work')
    BY <1>3, <1>11, <1>12, <1>13, <2>1, AppendIs
  <2> QED
    BY <1>12, <2>2
<1>16. InOrder(work)'
  <2>1. Nodes(work') \subseteq Stacked'
    BY <1>9, <1>11, <1>15
  <2>2. Leaving(work)' /\ Frames' = Frames /\ Rising(work, index)' /\ Nodes(work)' = Nodes(work')
    BY <1>15, SameGraph DEF Leaving, Rising, Nodes
  <2> QED
    BY <1>15, <2>1, <2>2 DEF InOrder
<1>17. Ordered'
  <2>1. GraphTyped'
    BY SameGraph DEF Ordered
  <2> QED
    BY <2>1, <1>6, <1>10, <1>16 DEF Ordered
<1>18. LookedAt(rest, n) \subseteq Children(n)
  BY DEF LookedAt
<1>19. Gray' = Nodes(rest) \cup {n} /\ Looked(n)' = {} /\ \A v : v # n => Looked(v)' = LookedAt(rest, v)
  BY <1>15, <1>18, SameGraph
<1> QED
  BY <1>1, <1>2, <1>5, <1>9, <1>17, <1>19

\* What is taken off the stack with t is what was visited from t on.
LEMMA CutAt ==
  ASSUME Ordered, NEW t \in Stacked
  PROVE  LET at == CHOOSE i \in 1..Len(stack) : stack[i] = t
             rest == SubSeq(stack, 1, at - 1)
         IN /\ {stack[i] : i \in at..Len(stack)} = {v \in Stacked : index[t] <= index[v]}
            /\ rest \in Seq(m.nodes)
            /\ {rest[i] : i \in 1..Len(rest)} = {v \in Stacked : index[v] < index[t]}
            /\ \A i, j \in 1..Len(rest) : i < j => index[rest[i]] < index[rest[j]]
<1> DEFINE at == CHOOSE i \in 1..Len(stack) : stack[i] = t
           rest == SubSeq(stack, 1, at - 1)
           l == Len(stack)
<1>1. /\ stack \in Seq(m.nodes) /\ l \in Nat
      /\ \A i, j \in 1..l : i < j => index[stack[i]] < index[stack[j]]
  BY LenProperties DEF Ordered, StackInOrder
<1>2. at \in 1..l /\ stack[at] = t
  BY DEF Stacked
<1> HIDE DEF at
<1>3. at - 1 \in Nat /\ at - 1 <= l
  <2> HIDE DEF l
  <2> QED
    BY <1>1, <1>2
<1>4. rest \in Seq(m.nodes) /\ Len(rest) = at - 1 /\ \A i \in 1..(at - 1) : rest[i] = stack[i]
  BY <1>1, <1>3, FirstOf
<1>5. Stacked = {stack[i] : i \in 1..l}
  BY DEF Stacked
<1>6. \A i \in 1..l : stack[i] \in Stacked /\ index[stack[i]] \in Nat
  BY <1>5, NumbersDiffer
<1> HIDE DEF rest, l
<1>7. ASSUME NEW i \in 1..l
      PROVE  /\ i \in at..l <=> index[t] <= index[stack[i]]
             /\ i \in 1..(at - 1) <=> index[stack[i]] < index[t]
  <2>1. index[stack[i]] \in Nat /\ index[t] \in Nat
    BY <1>2, <1>6
  <2>2. CASE i < at
    <3>1. index[stack[i]] < index[t]
      BY <1>1, <1>2, <2>2
    <3>2. i \notin at..l /\ i \in 1..(at - 1)
      BY <1>1, <1>2, <2>2
    <3> QED
      BY <2>1, <3>1, <3>2
  <2>3. CASE at < i
    <3>1. index[t] < index[stack[i]]
      BY <1>1, <1>2, <2>3
    <3>2. i \in at..l /\ i \notin 1..(at - 1)
      BY <1>1, <1>2, <2>3
    <3> QED
      BY <2>1, <3>1, <3>2
  <2>4. CASE i = at
    <3>1. i \in at..l /\ i \notin 1..(at - 1)
      BY <1>1, <1>2, <2>4
    <3> QED
      BY <1>2, <2>1, <2>4, <3>1
  <2>5. i < at \/ at < i \/ i = at
    BY <1>1, <1>2
  <2> QED
    BY <2>2, <2>3, <2>4, <2>5
<1>8. (\A i \in at..l : i \in 1..l) /\ \A i \in 1..(at - 1) : i \in 1..l
  BY <1>1, <1>2
<1>9. {stack[i] : i \in at..l} = {v \in Stacked : index[t] <= index[v]}
  BY <1>5, <1>7, <1>8
<1>10. {rest[i] : i \in 1..(at - 1)} = {v \in Stacked : index[v] < index[t]}
  BY <1>4, <1>5, <1>7, <1>8
<1>11. \A i, j \in 1..(at - 1) : i < j => index[rest[i]] < index[rest[j]]
  BY <1>1, <1>4, <1>8
<1> QED
  BY <1>4, <1>9, <1>10, <1>11 DEF at, rest, l

\* A new frame: it is led to by every other, and has looked at nothing.
LEMMA PushExplores ==
  ASSUME Ordered, Explored, NEW n \in m.nodes, n \notin Visited, NEW rest, InOrder(rest), m' = m,
         Push(n, rest), Nodes(rest) = Gray,
         \A g \in Gray : n \in From(g),
         \A v \in Visited : \A c \in LookedAt(rest, v) : c \in Looked(v) \/ (c = n /\ v \in Gray)
  PROVE  Ordered' /\ Explored'
<1>1. /\ Ordered'
      /\ Visited' = Visited \cup {n} /\ Stacked' = Stacked \cup {n}
      /\ \A v \in Visited : /\ index'[v] = index[v] /\ low'[v] = low[v]
                            /\ index[v] \in Nat /\ index[v] < index'[n]
      /\ index'[n] \in Nat /\ low'[n] = index'[n]
      /\ Gray' = Gray \cup {n}
      /\ Looked(n)' = {} /\ \A v : v # n => Looked(v)' = LookedAt(rest, v)
  BY PushIs
<1>2. Stacked \subseteq Visited /\ Gray \subseteq Stacked
  BY DEF Ordered, StackInOrder, InOrder, Gray
<1>3. \A v : From(v)' = From(v) /\ Knot(v)' = Knot(v)
  BY SameGraph
<1>4. \A v \in Visited : \A c \in Looked(v)' : c \in Looked(v) \/ (c = n /\ v \in Gray)
  BY <1>1
<1>5. Followed'
  <2>1. ASSUME NEW v \in Visited'
        PROVE  Looked(v)' \subseteq Visited' /\ (v \notin Stacked' => Looked(v)' \cap Stacked' = {})
    <3>1. CASE v = n
      BY <3>1, <1>1
    <3>2. CASE v \in Visited
      <4>1. Looked(v) \subseteq Visited /\ (v \notin Stacked => Looked(v) \cap Stacked = {})
        BY <3>2 DEF Explored, Followed
      <4>2. Looked(v)' \subseteq Visited'
        BY <4>1, <3>2, <1>1, <1>4
      <4>3. ASSUME v \notin Stacked', NEW c \in Looked(v)', c \in Stacked' PROVE FALSE
        <5>1. v \notin Stacked /\ v \notin Gray
          BY <4>3, <1>1, <1>2
        <5>2. c \in Looked(v) /\ c # n
          BY <4>1, <4>3, <5>1, <3>2, <1>4
        <5> QED
          BY <4>1, <4>3, <5>1, <5>2, <1>1
      <4> QED
        BY <4>2, <4>3
    <3> QED
      BY <3>1, <3>2, <1>1
  <2> QED
    BY <2>1 DEF Followed
<1>6. Leads'
  <2>1. ASSUME NEW g \in Gray', NEW v \in Stacked', index'[g] <= index'[v] PROVE v \in From(g)
    <3>1. CASE g = n
      <4>1. v = n
        BY <2>1, <3>1, <1>1, <1>2
      <4> QED
        BY <3>1, <4>1, FromLeads
    <3>2. CASE g \in Gray /\ v = n
      BY <3>2
    <3>3. CASE g \in Gray /\ v \in Stacked
      <4>1. index[g] <= index[v]
        BY <2>1, <3>3, <1>1, <1>2
      <4> QED
        BY <3>3, <4>1 DEF Explored, Leads
    <3> QED
      BY <3>1, <3>2, <3>3, <1>1
  <2> QED
    BY <2>1, <1>3 DEF Leads
<1>7. Returns'
  <2>1. ASSUME NEW v \in Stacked' PROVE \E g \in Gray' : index'[g] <= index'[v] /\ g \in From(v)
    <3>1. CASE v = n
      BY <3>1, <1>1, FromLeads
    <3>2. CASE v \in Stacked
      <4>1. PICK g \in Gray : index[g] <= index[v] /\ g \in From(v)
        BY <3>2 DEF Explored, Returns
      <4> QED
        BY <3>2, <4>1, <1>1, <1>2
    <3> QED
      BY <3>1, <3>2, <1>1
  <2> QED
    BY <2>1, <1>3 DEF Returns
<1>8. LowIsReached'
  <2>1. ASSUME NEW g \in Gray'
        PROVE  low'[g] <= index'[g] /\ \E u \in Stacked' : index'[u] = low'[g] /\ u \in From(g)
    <3>1. CASE g = n
      BY <3>1, <1>1, FromLeads
    <3>2. CASE g \in Gray
      <4>1. low[g] <= index[g] /\ \E u \in Stacked : index[u] = low[g] /\ u \in From(g)
        BY <3>2 DEF Explored, LowIsReached
      <4> QED
        BY <3>2, <4>1, <1>1, <1>2
    <3> QED
      BY <3>1, <3>2, <1>1
  <2> QED
    BY <2>1, <1>3 DEF LowIsReached
<1>9. LowCovers'
  <2>1. ASSUME NEW g \in Gray', NEW v \in Stacked', Answers(g, v)',
               NEW c \in Looked(v)' \cap Stacked'
        PROVE  low'[g] <= index'[c]
    <3>1. /\ index'[g] <= index'[v]
          /\ \A h \in Gray' : index'[g] < index'[h] => index'[v] < index'[h]
      BY <2>1 DEF Answers
    <3>2. v # n /\ v \in Stacked /\ v \in Visited
      BY <2>1, <1>1, <1>2
    <3>3. g # n /\ g \in Gray /\ g \in Visited
      BY <3>1, <3>2, <1>1, <1>2
    <3>4. CASE c = n
      <4>1. low[g] <= index[g]
        BY <3>3 DEF Explored, LowIsReached
      <4>2. low[g] \in Nat
        BY <3>3 DEF Ordered, Numbered
      <4> QED
        BY <3>3, <3>4, <4>1, <4>2, <1>1
    <3>5. CASE c # n
      <4>1. c \in Looked(v) \cap Stacked
        BY <3>2, <3>5, <1>1, <1>4
      <4>2. Answers(g, v)
        BY <3>1, <3>2, <3>3, <1>1, <1>2 DEF Answers
      <4>3. low[g] <= index[c]
        BY <3>2, <3>3, <4>1, <4>2 DEF Explored, LowCovers
      <4> QED
        BY <3>3, <4>1, <4>3, <1>1, <1>2
    <3> QED
      BY <3>4, <3>5
  <2> QED
    BY <2>1 DEF LowCovers
<1>10. FoundSoFar'
  <2>1. Visited' \ Stacked' = Visited \ Stacked /\ found' = found
    BY <1>1 DEF Push
  <2>2. \A k : Cyclic(k)' <=> Cyclic(k)
    BY <1>3 DEF Cyclic
  <2> QED
    BY <2>1, <2>2, <1>3 DEF Explored, FoundSoFar
<1> QED
  BY <1>1, <1>5, <1>6, <1>7, <1>8, <1>9, <1>10 DEF Explored

LEMMA NextRootExplores == ASSUME Ordered, Explored, NextRoot PROVE Ordered' /\ Explored'
<1> DEFINE n == Lowest(m.nodes \ Visited)
<1>1. n \in m.nodes /\ n \notin Visited
  <2>1. m.nodes \ Visited \subseteq Nat /\ m.nodes \ Visited # {}
    BY ViewsAssumption DEF Ordered, GraphTyped, NextRoot
  <2> QED
    BY <2>1, LowestIs
<1>2. work = <<>> /\ Push(n, <<>>) /\ m' = m
  BY DEF NextRoot
<1>3. InOrder(work) /\ Gray = {}
  BY <1>2, LastFrame DEF Ordered, Gray
<1>4. \A v : LookedAt(work, v) = Looked(v)
  BY DEF Looked
<1> HIDE DEF n
<1>5. Push(n, work) /\ Nodes(work) = Gray
  BY <1>2 DEF Gray
<1> QED
  BY <1>1, <1>2, <1>3, <1>4, <1>5, PushExplores

\* The node of the top frame leads to the child it looks at, and so does every
\* other that has a frame.
LEMMA AllLeadOn ==
  ASSUME Ordered, Explored, NEW t \in Gray, NEW c \in Children(t),
         \A h \in Gray : h = t \/ index[h] < index[t]
  PROVE  \A g \in Gray : c \in From(g)
<1>1. Gray \subseteq Stacked
  BY DEF Ordered, InOrder, Gray
<1>2. ASSUME NEW g \in Gray PROVE t \in From(g)
  <2>1. CASE g = t
    BY <2>1, FromLeads
  <2>2. CASE g # t
    <3>1. index[g] <= index[t]
      BY <2>2, <1>1, NumbersDiffer
    <3> QED
      BY <3>1, <1>1 DEF Explored, Leads
  <2> QED
    BY <2>1, <2>2
<1> QED
  BY <1>2, FromLeads

LEMMA NextChildExplores == ASSUME Ordered, Explored, NextChild PROVE Ordered' /\ Explored'
<1> DEFINE c == Lowest(Frame.left)
           t == Frame.node
<1>1. work # <<>> /\ Frame.left # {} /\ m' = m
  BY DEF NextChild
<1>2. /\ InOrder(Advanced) /\ Nodes(Advanced) = Gray /\ c \in Children(t)
      /\ \A v : LookedAt(Advanced, v) = IF v = t THEN Looked(v) \cup {c} ELSE Looked(v)
      /\ \A h \in Gray : h = t \/ index[h] < index[t]
  BY <1>1, AdvancedIs
<1>3. t \in Gray
  BY <1>1, LastFrame DEF Ordered, Frame, Gray
<1>4. \/ c \notin Visited /\ Push(c, Advanced)
      \/ /\ c \in Visited /\ work' = Advanced
         /\ low' = IF OnStack(c) THEN [low EXCEPT ![t] = Less(@, index[c])] ELSE low
         /\ UNCHANGED <<stack, index, found>>
  BY DEF NextChild
<1> HIDE DEF c, t
<1>5. \A g \in Gray : c \in From(g)
  BY <1>2, <1>3, AllLeadOn
<1>6. CASE c \notin Visited /\ Push(c, Advanced)
  <2>1. c \in m.nodes
    BY <1>2, ChildrenAre
  <2>2. \A v \in Visited : \A k \in LookedAt(Advanced, v) : k \in Looked(v) \/ (k = c /\ v \in Gray)
    BY <1>2, <1>3
  <2> QED
    BY <1>1, <1>2, <1>5, <1>6, <2>1, <2>2, PushExplores
<1>7. CASE /\ c \in Visited /\ work' = Advanced
           /\ low' = IF OnStack(c) THEN [low EXCEPT ![t] = Less(@, index[c])] ELSE low
           /\ UNCHANGED <<stack, index, found>>
  <2>1. Stacked' = Stacked /\ Visited' = Visited /\ index' = index /\ found' = found
    BY <1>7 DEF Stacked, Visited
  <2>2. Gray' = Gray /\ \A v : Looked(v)' = IF v = t THEN Looked(v) \cup {c} ELSE Looked(v)
    BY <1>1, <1>2, <1>7, SameGraph
  <2>3. \A v : From(v)' = From(v) /\ Knot(v)' = Knot(v)
    BY <1>1, SameGraph
  <2>4. Gray \subseteq Stacked /\ Stacked \subseteq Visited /\ t \in Visited
    BY <1>3 DEF Ordered, InOrder, Gray, StackInOrder
  <2>5. index \in [Visited -> Nat] /\ low \in [Visited -> Nat]
    BY DEF Ordered, Numbered
  <2>6. OnStack(c) <=> c \in Stacked
    BY DEF OnStack, Stacked
  <2>7. /\ low' \in [Visited -> Nat]
        /\ \A v \in Visited : v # t => low'[v] = low[v]
        /\ c \in Stacked => low'[t] = Less(low[t], index[c])
        /\ c \notin Stacked => low'[t] = low[t]
    <3>1. CASE c \in Stacked
      <4>1. low' = [low EXCEPT ![t] = Less(low[t], index[c])]
        BY <1>7, <2>6, <3>1
      <4>2. Less(low[t], index[c]) \in Nat
        BY <1>7, <2>4, <2>5 DEF Less
      <4> QED
        BY <3>1, <4>1, <4>2, <2>4, <2>5
    <3>2. CASE c \notin Stacked
      BY <1>7, <2>5, <2>6, <3>2
    <3> QED
      BY <3>1, <3>2
  <2>8. Ordered'
    <3>1. GraphTyped' /\ Numbered' /\ StackInOrder'
      <4>1. GraphTyped'
        BY <1>1, SameGraph DEF Ordered
      <4>2. Numbered'
        BY <1>1, <2>1, <2>7 DEF Ordered, Numbered
      <4>3. StackInOrder'
        BY <1>1, <1>7, <2>1 DEF Ordered, StackInOrder
      <4> QED
        BY <4>1, <4>2, <4>3
    <3>2. InOrder(work)'
      <4>1. /\ Advanced \in Seq(Frames) /\ Nodes(Advanced) \subseteq Stacked
            /\ Rising(Advanced, index) /\ Leaving(Advanced)
        BY <1>2 DEF InOrder
      <4>2. work' \in Seq(Frames)' /\ Nodes(work)' \subseteq Stacked' /\ Rising(work, index)'
        BY <1>1, <1>7, <2>1, <4>1, SameGraph DEF Nodes, Rising
      <4>3. Leaving(work)'
        BY <1>1, <1>7, <4>1, SameGraph DEF Leaving
      <4> QED
        BY <4>2, <4>3 DEF InOrder
    <3> QED
      BY <3>1, <3>2 DEF Ordered
  <2>9. \A v \in Visited : index[v] \in Nat /\ low[v] \in Nat /\ low'[v] \in Nat /\ low'[v] <= low[v]
    BY <1>7, <2>5, <2>7 DEF Less
  <2>10. Followed'
    BY <1>7, <2>1, <2>2, <2>4, <1>3 DEF Followed, Explored
  <2>11. Leads' /\ Returns'
    BY <2>1, <2>2, <2>3 DEF Leads, Returns, Explored
  <2>12. LowIsReached'
    <3>1. ASSUME NEW g \in Gray
          PROVE  low'[g] <= index[g] /\ \E u \in Stacked : index[u] = low'[g] /\ u \in From(g)
      <4>1. PICK u \in Stacked : index[u] = low[g] /\ u \in From(g) /\ low[g] <= index[g]
        BY DEF Explored, LowIsReached
      <4>2. low'[g] <= index[g]
        BY <2>4, <2>9, <4>1
      <4>3. CASE low'[g] = low[g]
        BY <4>1, <4>2, <4>3
      <4>4. CASE low'[g] # low[g]
        <5>1. g = t /\ c \in Stacked /\ low'[g] = index[c]
          BY <4>4, <2>4, <2>7 DEF Less
        <5> QED
          BY <1>5, <4>2, <5>1
      <4> QED
        BY <4>3, <4>4
    <3> QED
      BY <3>1, <2>1, <2>2, <2>3 DEF LowIsReached
  <2>13. LowCovers'
    <3>1. ASSUME NEW g \in Gray, NEW v \in Stacked, Answers(g, v), NEW k \in Looked(v)' \cap Stacked
          PROVE  low'[g] <= index[k]
      <4>1. CASE k \in Looked(v)
        <5>1. low[g] <= index[k]
          BY <3>1, <4>1 DEF Explored, LowCovers
        <5> QED
          BY <2>4, <2>9, <5>1
      <4>2. CASE v = t /\ k = c
        <5>1. index[g] <= index[t] /\ ~(index[g] < index[t])
          BY <1>3, <2>4, <2>9, <3>1, <4>2 DEF Answers
        <5>2. g = t
          BY <1>3, <2>4, <2>9, <5>1, NumbersDiffer
        <5> QED
          BY <2>4, <2>7, <2>9, <3>1, <4>2, <5>2 DEF Less
      <4> QED
        BY <2>2, <3>1, <4>1, <4>2
    <3>2. \A g, v : Answers(g, v)' <=> Answers(g, v)
      BY <2>1, <2>2 DEF Answers
    <3> QED
      BY <3>1, <3>2, <2>1, <2>2 DEF LowCovers
  <2>14. FoundSoFar'
    <3>1. \A k : Cyclic(k)' <=> Cyclic(k)
      BY <1>1, <2>3 DEF Cyclic
    <3> QED
      BY <2>1, <2>3, <3>1 DEF Explored, FoundSoFar
  <2> QED
    BY <2>8, <2>10, <2>11, <2>12, <2>13, <2>14 DEF Explored
<1> QED
  BY <1>4, <1>6, <1>7

\* What a frame that is done leaves, whether or not its node is the root of a
\* component: the work below it, and the number it reached for its parent.
LEMMA ReturnIs ==
  ASSUME Ordered, Explored, Return, NEW t, t = Frame.node
  PROVE  /\ m' = m /\ index' = index /\ Visited' = Visited
         /\ t \in Gray /\ \A h \in Gray : h = t \/ index[h] < index[t]
         /\ Gray' = Gray \ {t} /\ \A v : Looked(v)' = Looked(v)
         /\ Looked(t) = Children(t)
         /\ InOrder(Below) /\ work' = Below
         /\ low' \in [Visited -> Nat]
         /\ \A g \in Gray' : \/ low'[g] = low[g] /\ \E h \in Gray' : index[g] < index[h]
                             \/ low'[g] = Less(low[g], low[t]) /\ \A h \in Gray' : h = g \/ index[h] < index[g]
<1>1. /\ work # <<>> /\ Frame.left = {} /\ m' = m /\ index' = index /\ work' = Below
      /\ low' = IF Below = <<>> THEN low
                ELSE [low EXCEPT ![Below[Len(Below)].node] = Less(@, low[t])]
  BY DEF Return
<1>2. Visited' = Visited
  BY <1>1 DEF Visited
<1>3. /\ InOrder(Below) /\ Nodes(Below) = Gray \ {t}
      /\ \A v : v # t => LookedAt(Below, v) = Looked(v)
      /\ LookedAt(Below, t) = Children(t) /\ Looked(t) = Children(t)
  BY <1>1, BelowIs
<1>4. Gray' = Gray \ {t} /\ \A v : Looked(v)' = Looked(v)
  BY <1>1, <1>3, SameGraph
<1>5. t \in Gray /\ \A h \in Gray : h = t \/ index[h] < index[t]
  BY <1>1, LastFrame DEF Ordered, Frame, Gray
<1>6. index \in [Visited -> Nat] /\ low \in [Visited -> Nat] /\ Gray \subseteq Visited
  BY DEF Ordered, Numbered, InOrder, Gray, StackInOrder
<1>7. CASE Below = <<>>
  <2>1. Gray' = {}
    BY <1>3, <1>4, <1>7, LastFrame
  <2> QED
    BY <1>1, <1>2, <1>3, <1>4, <1>5, <1>6, <1>7, <2>1
<1>8. CASE Below # <<>>
  <2> DEFINE p == Below[Len(Below)].node
  <2>1. p \in Gray' /\ \A h \in Gray' : h = p \/ index[h] < index[p]
    BY <1>3, <1>4, <1>8, LastFrame
  <2>2. low' = [low EXCEPT ![p] = Less(low[p], low[t])]
    BY <1>1, <1>8
  <2> HIDE DEF p
  <2>3. Less(low[p], low[t]) \in Nat
    BY <1>4, <1>5, <1>6, <2>1 DEF Less
  <2>4. /\ low' \in [Visited -> Nat] /\ low'[p] = Less(low[p], low[t])
        /\ \A v \in Visited : v # p => low'[v] = low[v]
    BY <1>4, <1>6, <2>1, <2>2, <2>3
  <2>5. ASSUME NEW g \in Gray'
        PROVE  \/ low'[g] = low[g] /\ \E h \in Gray' : index[g] < index[h]
               \/ low'[g] = Less(low[g], low[t]) /\ \A h \in Gray' : h = g \/ index[h] < index[g]
    BY <1>4, <1>6, <2>1, <2>4
  <2> QED
    BY <1>1, <1>2, <1>3, <1>4, <1>5, <2>4, <2>5
<1> QED
  BY <1>7, <1>8

\* The frame's node reached further down: its parent now reaches as far.
LEMMA ReturnUp ==
  ASSUME Ordered, Explored, Return, low[Frame.node] # index[Frame.node]
  PROVE  Ordered' /\ Explored'
<1> DEFINE t == Frame.node
<1>1. /\ m' = m /\ index' = index /\ Visited' = Visited
      /\ t \in Gray /\ \A h \in Gray : h = t \/ index[h] < index[t]
      /\ Gray' = Gray \ {t} /\ \A v : Looked(v)' = Looked(v)
      /\ InOrder(Below) /\ work' = Below
      /\ low' \in [Visited -> Nat]
      /\ \A g \in Gray' : \/ low'[g] = low[g] /\ \E h \in Gray' : index[g] < index[h]
                          \/ low'[g] = Less(low[g], low[t]) /\ \A h \in Gray' : h = g \/ index[h] < index[g]
  BY ReturnIs
<1>2. stack' = stack /\ found' = found /\ Stacked' = Stacked
  BY DEF Return, Stacked
<1> HIDE DEF t
<1>3. \A v : From(v)' = From(v) /\ Knot(v)' = Knot(v)
  BY <1>1, SameGraph
<1>4. Gray \subseteq Stacked /\ Stacked \subseteq Visited
  BY DEF Ordered, InOrder, Gray, StackInOrder
<1>5. \A v \in Visited : index[v] \in Nat /\ low[v] \in Nat
  BY DEF Ordered, Numbered
<1>6. PICK u \in Stacked : index[u] = low[t] /\ u \in From(t) /\ index[u] < index[t]
  <2>1. low[t] <= index[t] /\ \E u \in Stacked : index[u] = low[t] /\ u \in From(t)
    BY <1>1 DEF Explored, LowIsReached
  <2>2. low[t] < index[t]
    BY <1>1, <1>4, <1>5, <2>1 DEF t
  <2> QED
    BY <2>1, <2>2
<1>7. PICK q \in Gray' : index[q] <= index[u] /\ q \in From(t) /\ index[q] < index[t]
  <2>1. PICK q \in Gray : index[q] <= index[u] /\ q \in From(u)
    BY DEF Explored, Returns
  <2>2. index[q] < index[t]
    BY <1>1, <1>4, <1>5, <1>6, <2>1
  <2>3. q # t
    BY <1>1, <1>4, <1>5, <2>2
  <2> QED
    BY <1>1, <1>6, <2>1, <2>2, <2>3, FromFrom
<1>8. Ordered'
  <2>1. GraphTyped' /\ Numbered' /\ StackInOrder'
    <3>1. GraphTyped'
      BY <1>1, SameGraph DEF Ordered
    <3>2. Numbered'
      BY <1>1 DEF Ordered, Numbered
    <3>3. StackInOrder'
      BY <1>1, <1>2 DEF Ordered, StackInOrder
    <3> QED
      BY <3>1, <3>2, <3>3
  <2>2. InOrder(work)'
    <3>1. Below \in Seq(Frames) /\ Nodes(Below) \subseteq Stacked /\ Rising(Below, index) /\ Leaving(Below)
      BY <1>1 DEF InOrder
    <3>2. work' \in Seq(Frames)' /\ Nodes(work)' \subseteq Stacked' /\ Rising(work, index)'
      BY <1>1, <1>2, <3>1, SameGraph DEF Nodes, Rising
    <3>3. Leaving(work)'
      BY <1>1, <3>1, SameGraph DEF Leaving
    <3> QED
      BY <3>2, <3>3 DEF InOrder
  <2> QED
    BY <2>1, <2>2 DEF Ordered
<1>9. Followed' /\ Leads'
  BY <1>1, <1>2, <1>3 DEF Explored, Followed, Leads
<1>10. Returns'
  <2>1. ASSUME NEW v \in Stacked PROVE \E g \in Gray' : index[g] <= index[v] /\ g \in From(v)
    <3>1. PICK g \in Gray : index[g] <= index[v] /\ g \in From(v)
      BY DEF Explored, Returns
    <3>2. CASE g = t
      <4>1. q \in From(v)
        BY <3>1, <3>2, <1>7, FromFrom
      <4>2. index[q] <= index[v]
        BY <3>1, <3>2, <1>1, <1>4, <1>5, <1>7
      <4> QED
        BY <4>1, <4>2
    <3>3. CASE g # t
      BY <3>1, <3>3, <1>1
    <3> QED
      BY <3>2, <3>3
  <2> QED
    BY <2>1, <1>1, <1>2, <1>3 DEF Returns
<1>11. \A g \in Gray' : g \in Visited /\ low'[g] \in Nat /\ low'[g] <= low[g]
  BY <1>1, <1>4, <1>5 DEF Less
<1>12. LowIsReached'
  <2>1. ASSUME NEW g \in Gray'
        PROVE  low'[g] <= index[g] /\ \E w \in Stacked : index[w] = low'[g] /\ w \in From(g)
    <3>1. PICK w \in Stacked : index[w] = low[g] /\ w \in From(g) /\ low[g] <= index[g]
      BY <1>1 DEF Explored, LowIsReached
    <3>2. low'[g] <= index[g]
      BY <1>5, <1>11, <3>1
    <3>3. CASE low'[g] = low[g]
      BY <3>1, <3>2, <3>3
    <3>4. CASE low'[g] # low[g]
      <4>1. low'[g] = low[t]
        BY <1>1, <3>4 DEF Less
      <4>2. t \in From(g)
        <5>1. index[g] <= index[t] /\ t \in Stacked /\ g \in Gray
          BY <1>1, <1>4, <1>5
        <5> QED
          BY <5>1 DEF Explored, Leads
      <4> QED
        BY <1>6, <3>2, <4>1, <4>2, FromFrom
    <3> QED
      BY <3>3, <3>4
  <2> QED
    BY <2>1, <1>1, <1>2, <1>3 DEF LowIsReached
<1>13. LowCovers'
  <2>1. ASSUME NEW g \in Gray', NEW v \in Stacked, index[g] <= index[v],
               \A h \in Gray' : index[g] < index[h] => index[v] < index[h],
               NEW c \in Looked(v) \cap Stacked
        PROVE  low'[g] <= index[c]
    <3>1. CASE Answers(g, v)
      <4>1. low[g] <= index[c]
        BY <1>1, <3>1 DEF Explored, LowCovers
      <4> QED
        BY <1>4, <1>5, <1>11, <4>1
    <3>2. CASE ~Answers(g, v)
      <4>1. index[t] <= index[v]
        <5>1. PICK h \in Gray : index[g] < index[h] /\ ~(index[v] < index[h])
          BY <2>1, <3>2 DEF Answers
        <5>2. h = t
          BY <1>1, <2>1, <5>1
        <5> QED
          BY <1>4, <1>5, <5>1, <5>2
      <4>2. Answers(t, v)
        BY <1>1, <1>4, <1>5, <4>1 DEF Answers
      <4>3. low[t] <= index[c]
        BY <1>1, <2>1, <4>2 DEF Explored, LowCovers
      <4>4. low'[g] = Less(low[g], low[t])
        <5>1. ASSUME NEW h \in Gray', index[g] < index[h] PROVE FALSE
          BY <1>1, <1>4, <1>5, <2>1, <4>1, <5>1
        <5> QED
          BY <1>1, <5>1
      <4> QED
        BY <1>1, <1>4, <1>5, <1>11, <4>3, <4>4 DEF Less
    <3> QED
      BY <3>1, <3>2
  <2> QED
    BY <2>1, <1>1, <1>2 DEF LowCovers, Answers
<1>14. FoundSoFar'
  <2>1. \A k : Cyclic(k)' <=> Cyclic(k)
    BY <1>1, <1>3 DEF Cyclic
  <2> QED
    BY <1>1, <1>2, <1>3, <2>1 DEF Explored, FoundSoFar
<1> QED
  BY <1>8, <1>9, <1>10, <1>12, <1>13, <1>14 DEF Explored

\* The frame's node reached nothing before it: what was stacked from it on is
\* what it is on a cycle with.
LEMMA RootHasItsKnot ==
  ASSUME Ordered, Explored, NEW t \in Gray, low[t] = index[t],
         \A h \in Gray : h = t \/ index[h] < index[t], Looked(t) = Children(t)
  PROVE  LET component == {v \in Stacked : index[t] <= index[v]} IN
         /\ component = Knot(t)
         /\ \A v \in component : Looked(v) = Children(v) /\ Children(v) \cap Stacked \subseteq component
<1> DEFINE component == {v \in Stacked : index[t] <= index[v]}
           gone == Visited \ Stacked
<1>1. Gray \subseteq Stacked /\ Stacked \subseteq Visited
  BY DEF Ordered, InOrder, Gray, StackInOrder
<1>2. \A v \in Visited : index[v] \in Nat /\ low[v] \in Nat
  BY DEF Ordered, Numbered
<1>3. t \in component
  BY <1>1, <1>2
<1>4. \A v \in Visited : v \notin Gray => Looked(v) = Children(v)
  BY DEF Looked, LookedAt, Gray, Nodes
<1>5. \A v \in component : Looked(v) = Children(v)
  <2>1. ASSUME NEW v \in component, v \in Gray PROVE v = t
    BY <1>1, <1>2, <2>1
  <2> QED
    BY <1>1, <1>4, <2>1
<1>6. ASSUME NEW v \in component PROVE Children(v) \subseteq component \cup gone
  <2>1. Children(v) \subseteq Visited
    BY <1>1, <1>5 DEF Explored, Followed
  <2>2. Answers(t, v)
    BY <1>1, <1>2 DEF Answers
  <2>3. \A c \in Children(v) \cap Stacked : low[t] <= index[c]
    BY <1>5, <2>2 DEF Explored, LowCovers
  <2> QED
    BY <2>1, <2>3
<1>7. ASSUME NEW v \in gone PROVE Children(v) \subseteq gone
  BY <1>1, <1>4 DEF Explored, Followed
<1>8. From(t) \subseteq component \cup gone
  <2>1. \A v \in component \cup gone : Children(v) \subseteq component \cup gone
    BY <1>6, <1>7
  <2> HIDE DEF component, gone
  <2> QED
    BY <1>3, <2>1, FromLeast
<1>9. \A k \in gone : From(k) \subseteq gone
  <2> HIDE DEF gone
  <2> QED
    BY <1>7, FromLeast
<1>10. Knot(t) \subseteq component
  BY <1>1, <1>8, <1>9 DEF Knot
<1>11. ASSUME NEW v \in component PROVE v \in Knot(t)
  <2>1. v \in From(t)
    BY DEF Explored, Leads
  <2>2. PICK g \in Gray : index[g] <= index[v] /\ g \in From(v)
    BY DEF Explored, Returns
  <2>3. t \in From(g)
    <3>1. index[g] <= index[t]
      BY <1>1, <1>2
    <3> QED
      BY <1>1, <3>1 DEF Explored, Leads
  <2> QED
    BY <2>1, <2>2, <2>3, FromFrom DEF Knot
<1>12. \A v \in component : Children(v) \cap Stacked \subseteq component
  BY <1>6
<1> QED
  BY <1>5, <1>10, <1>11, <1>12

\* A knot of one node is a cycle if the node depends on itself.
LEMMA OneOrLoop ==
  ASSUME Ordered, NEW t, Knot(t) \subseteq Visited, t \in Knot(t)
  PROVE  /\ Cyclic(t) <=> Cardinality(Knot(t)) > 1 \/ t \in Children(t)
         /\ \A k \in Knot(t) : Cyclic(k) <=> Cyclic(t)
<1>1. <<t, t>> \in Forward(m.edges) <=> t \in Children(t)
  BY Arcs
<1>2. ASSUME NEW k \in Knot(t), k # t PROVE Cardinality(Knot(t)) > 1
  <2>1. IsFiniteSet(Knot(t)) /\ {k, t} \subseteq Knot(t)
    BY VisitedFinite, FS_Subset
  <2>2. IsFiniteSet({t}) /\ Cardinality({t}) = 1
    BY FS_Singleton
  <2>3. Cardinality({t} \cup {k}) = 2
    BY <1>2, <2>2, FS_AddElement
  <2>4. {t} \cup {k} \subseteq Knot(t)
    BY <2>1
  <2>5. Cardinality({t} \cup {k}) <= Cardinality(Knot(t)) /\ Cardinality(Knot(t)) \in Nat
    BY <2>1, <2>4, FS_Subset, FS_CardinalityType
  <2> QED
    BY <2>3, <2>5
<1>3. ASSUME NEW k \in Knot(t) PROVE Cyclic(k) <=> Cyclic(t)
  BY <1>2, OneKnot DEF Cyclic
<1> QED
  BY <1>1, <1>3 DEF Cyclic

LEMMA ReturnRoot ==
  ASSUME Ordered, Explored, Return, low[Frame.node] = index[Frame.node]
  PROVE  Ordered' /\ Explored'
<1> DEFINE t == Frame.node
           at == CHOOSE i \in 1..Len(stack) : stack[i] = t
           component == {v \in Stacked : index[t] <= index[v]}
<1>1. /\ m' = m /\ index' = index /\ Visited' = Visited
      /\ t \in Gray /\ \A h \in Gray : h = t \/ index[h] < index[t]
      /\ Gray' = Gray \ {t} /\ \A v : Looked(v)' = Looked(v)
      /\ Looked(t) = Children(t)
      /\ InOrder(Below) /\ work' = Below
      /\ low' \in [Visited -> Nat]
      /\ \A g \in Gray' : \/ low'[g] = low[g] /\ \E h \in Gray' : index[g] < index[h]
                          \/ low'[g] = Less(low[g], low[t]) /\ \A h \in Gray' : h = g \/ index[h] < index[g]
  BY ReturnIs
<1>2. Gray \subseteq Stacked /\ Stacked \subseteq Visited
  BY DEF Ordered, InOrder, Gray, StackInOrder
<1>3. {stack[i] : i \in at..Len(stack)} = component
  BY <1>1, <1>2, CutAt
<1>4. /\ stack' = SubSeq(stack, 1, at - 1)
      /\ found' = IF Cardinality(component) > 1 \/ t \in Children(t)
                  THEN found \cup {component} ELSE found
  BY <1>3 DEF Return
<1>5. /\ stack' \in Seq(m.nodes)
      /\ {stack'[i] : i \in 1..Len(stack')} = {v \in Stacked : index[v] < index[t]}
      /\ \A i, j \in 1..Len(stack') : i < j => index[stack'[i]] < index[stack'[j]]
  <2> DEFINE rest == SubSeq(stack, 1, at - 1)
  <2>1. /\ rest \in Seq(m.nodes)
        /\ {rest[i] : i \in 1..Len(rest)} = {v \in Stacked : index[v] < index[t]}
        /\ \A i, j \in 1..Len(rest) : i < j => index[rest[i]] < index[rest[j]]
    BY <1>1, <1>2, CutAt
  <2>2. stack' = rest
    BY <1>4
  <2> HIDE DEF rest
  <2> QED
    BY <2>1, <2>2
<1>6. \A v \in Visited : index[v] \in Nat /\ low[v] \in Nat
  BY DEF Ordered, Numbered
<1>7. /\ component = Knot(t)
      /\ \A v \in component : Looked(v) = Children(v) /\ Children(v) \cap Stacked \subseteq component
  BY <1>1, RootHasItsKnot
<1>8. low[t] = index[t]
  OBVIOUS
<1> HIDE DEF t, at
<1>9. Stacked' = Stacked \ component /\ Stacked' = {v \in Stacked : index[v] < index[t]}
  <2>1. Stacked' = {v \in Stacked : index[v] < index[t]}
    BY <1>5 DEF Stacked
  <2>2. \A v \in Stacked : index[v] < index[t] <=> ~(index[t] <= index[v])
    BY <1>1, <1>2, <1>6
  <2> QED
    BY <2>1, <2>2
<1>10. \A v : From(v)' = From(v) /\ Knot(v)' = Knot(v)
  BY <1>1, SameGraph
<1>11. Gray' \subseteq Stacked' /\ Stacked' \subseteq Stacked /\ \A g \in Gray' : index[g] < index[t]
  BY <1>1, <1>2, <1>9
<1> HIDE DEF component
<1>12. Ordered'
  <2>1. GraphTyped' /\ Numbered' /\ StackInOrder'
    <3>1. GraphTyped'
      BY <1>1, SameGraph DEF Ordered
    <3>2. Numbered'
      BY <1>1 DEF Ordered, Numbered
    <3>3. StackInOrder'
      BY <1>1, <1>2, <1>5, <1>11 DEF StackInOrder
    <3> QED
      BY <3>1, <3>2, <3>3
  <2>2. InOrder(work)'
    <3>1. Below \in Seq(Frames) /\ Rising(Below, index) /\ Leaving(Below)
      BY <1>1 DEF InOrder
    <3>2. work' \in Seq(Frames)' /\ Nodes(work)' \subseteq Stacked' /\ Rising(work, index)'
      BY <1>1, <1>11, <3>1, SameGraph DEF Gray, Rising
    <3>3. Leaving(work)'
      BY <1>1, <3>1, SameGraph DEF Leaving
    <3> QED
      BY <3>2, <3>3 DEF InOrder
  <2> QED
    BY <2>1, <2>2 DEF Ordered
<1>13. Followed'
  <2>1. ASSUME NEW v \in Visited
        PROVE  Looked(v) \subseteq Visited /\ (v \notin Stacked' => Looked(v) \cap Stacked' = {})
    <3>1. Looked(v) \subseteq Visited /\ (v \notin Stacked => Looked(v) \cap Stacked = {})
      BY DEF Explored, Followed
    <3>2. v \in component => Looked(v) \cap Stacked' = {}
      BY <1>7, <1>9
    <3> QED
      BY <1>9, <3>1, <3>2
  <2> QED
    BY <2>1, <1>1 DEF Followed
<1>14. Leads'
  BY <1>1, <1>10, <1>11 DEF Explored, Leads
<1>15. Returns'
  <2>1. ASSUME NEW v \in Stacked' PROVE \E g \in Gray' : index[g] <= index[v] /\ g \in From(v)
    <3>1. PICK g \in Gray : index[g] <= index[v] /\ g \in From(v)
      BY <1>11 DEF Explored, Returns
    <3>2. g # t
      BY <1>1, <1>2, <1>6, <1>9, <3>1
    <3> QED
      BY <1>1, <3>1, <3>2
  <2> QED
    BY <2>1, <1>1, <1>10 DEF Returns
<1>16. \A g \in Gray' : low[g] <= index[g] /\ low'[g] = low[g]
  <2>1. ASSUME NEW g \in Gray' PROVE low[g] <= index[g] /\ low'[g] = low[g]
    <3>1. low[g] <= index[g]
      BY <1>1 DEF Explored, LowIsReached
    <3>2. low[g] < low[t] /\ g \in Visited
      BY <1>1, <1>2, <1>6, <1>8, <1>11, <3>1
    <3> QED
      BY <1>1, <3>1, <3>2 DEF Less
  <2> QED
    BY <2>1
<1>17. LowIsReached'
  <2>1. ASSUME NEW g \in Gray' PROVE \E u \in Stacked' : index[u] = low[g] /\ u \in From(g)
    <3>1. PICK u \in Stacked : index[u] = low[g] /\ u \in From(g)
      BY <1>1 DEF Explored, LowIsReached
    <3>2. index[u] < index[t]
      BY <1>1, <1>2, <1>6, <1>11, <1>16, <3>1
    <3> QED
      BY <1>9, <3>1, <3>2
  <2> QED
    BY <2>1, <1>1, <1>10, <1>16 DEF LowIsReached
<1>18. LowCovers'
  <2>1. ASSUME NEW g \in Gray', NEW v \in Stacked', index[g] <= index[v],
               \A h \in Gray' : index[g] < index[h] => index[v] < index[h],
               NEW c \in Looked(v) \cap Stacked'
        PROVE  low'[g] <= index[c]
    <3>1. Answers(g, v)
      BY <1>1, <1>9, <2>1 DEF Answers
    <3> QED
      BY <1>1, <1>11, <1>16, <3>1 DEF Explored, LowCovers
  <2> QED
    BY <2>1, <1>1 DEF LowCovers, Answers
<1>19. FoundSoFar'
  <2>1. \A k : Cyclic(k)' <=> Cyclic(k)
    BY <1>1, <1>10 DEF Cyclic
  <2>2. Visited' \ Stacked' = (Visited \ Stacked) \cup component
    BY <1>1, <1>2, <1>7, <1>9 DEF component
  <2>3. t \in component
    BY <1>1, <1>2, <1>6 DEF component
  <2>4. component \subseteq Visited
    BY <1>2 DEF component
  <2>5. /\ Cyclic(t) <=> Cardinality(component) > 1 \/ t \in Children(t)
        /\ \A k \in component : Cyclic(k) <=> Cyclic(t)
    BY <1>7, <2>3, <2>4, OneOrLoop
  <2>6. \A k \in component : Knot(k) = component
    BY <1>7, OneKnot
  <2>7. found = {Knot(n) : n \in {k \in Visited \ Stacked : Cyclic(k)}}
    BY DEF Explored, FoundSoFar
  <2>8. found' = {Knot(n) : n \in {k \in (Visited \ Stacked) \cup component : Cyclic(k)}}
    <3>1. CASE Cyclic(t)
      <4>1. found' = found \cup {component}
        BY <1>4, <2>5, <3>1
      <4> QED
        BY <2>3, <2>5, <2>6, <2>7, <3>1, <4>1
    <3>2. CASE ~Cyclic(t)
      <4>1. found' = found
        BY <1>4, <2>5, <3>2
      <4> QED
        BY <2>5, <2>7, <3>2, <4>1
    <3> QED
      BY <3>1, <3>2
  <2> QED
    BY <1>10, <2>1, <2>2, <2>8 DEF FoundSoFar
<1> QED
  BY <1>12, <1>13, <1>14, <1>15, <1>17, <1>18, <1>19 DEF Explored

\* When no frame is left nothing is stacked, and the components are the knots.
LEMMA NothingStacked ==
  ASSUME Ordered, Explored, work = <<>>, m.nodes \subseteq Visited
  PROVE  found = Knots
<1>1. Gray = {}
  BY LastFrame DEF Ordered, Gray
<1>2. Stacked = {}
  BY <1>1 DEF Explored, Returns
<1>3. Visited = m.nodes
  BY DEF Ordered, Numbered
<1>4. found = {Knot(n) : n \in {k \in m.nodes : Cyclic(k)}}
  BY <1>2, <1>3 DEF Explored, FoundSoFar
<1> QED
  BY <1>4 DEF Knots, Knot, From, Cyclic

\* Nothing is searched before the report, and what is found then is whole.
CyclesInv ==
  /\ stage \notin {"cycles", "done"} =>
       work = <<>> /\ stack = <<>> /\ index = <<>> /\ low = <<>> /\ found = {}
  /\ stage \in {"cycles", "done"} => Ordered /\ Explored
  /\ stage = "done" => work = <<>> /\ m.nodes \subseteq Visited

\* Before the first node is visited.
LEMMA NothingVisited ==
  ASSUME GraphTyped', work' = <<>>, stack' = <<>>, index' = <<>>, low' = <<>>, found' = {}
  PROVE  Ordered' /\ Explored'
<1>1. Visited' = {} /\ Stacked' = {} /\ Gray' = {}
  BY EmptySeq DEF Visited, Stacked, Gray, Nodes
<1>2. Numbered'
  BY <1>1 DEF Numbered, Visited
<1>3. StackInOrder'
  BY <1>1, EmptySeq DEF StackInOrder
<1>4. InOrder(work)'
  <2>1. work' \in Seq(Frames') /\ Len(work') = 0 /\ Nodes(work)' = {}
    BY EmptySeq DEF Nodes
  <2> QED
    BY <2>1 DEF InOrder, Rising, Leaving
<1>5. Explored'
  BY <1>1 DEF Explored, Followed, Leads, Returns, LowIsReached, LowCovers, FoundSoFar
<1> QED
  BY <1>2, <1>3, <1>4, <1>5 DEF Ordered

LEMMA ViewsInitCycles == ViewsInit => CyclesInv
BY DEF ViewsInit, CyclesInv

LEMMA ReportStarts == ASSUME ShownIsMarked, CyclesInv, Report PROVE CyclesInv'
<1>1. Marked(m) /\ stage = "levelled" /\ stage' = "cycles"
  BY DEF Report, ShownIsMarked, Shown
<1>2. m' = [nodes |-> m.nodes, edges |-> {<<a[1], a[2], "any">> : a \in Forward(m.edges)}]
  BY DEF Report
<1>3. GraphTyped'
  <2>1. m'.nodes \subseteq Names
    BY <1>1, <1>2 DEF Marked
  <2>2. ASSUME NEW e \in m'.edges PROVE e[1] \in m'.nodes /\ e[2] \in m'.nodes
    <3>1. PICK x \in m.edges : e = <<x[1], x[2], "any">>
      BY <1>2 DEF Forward, Structural
    <3>2. x[1] \in m.nodes /\ x[2] \in m.nodes
      BY <1>1 DEF Marked
    <3> QED
      BY <1>2, <3>1, <3>2
  <2> QED
    BY <2>1, <2>2 DEF GraphTyped
<1>4. work' = <<>> /\ stack' = <<>> /\ index' = <<>> /\ low' = <<>> /\ found' = {}
  BY <1>1 DEF Report, CyclesInv, tarjan
<1>5. Ordered' /\ Explored'
  BY <1>3, <1>4, NothingVisited
<1> QED
  BY <1>1, <1>5 DEF CyclesInv

LEMMA ViewsStepCycles == ShownIsMarked /\ CyclesInv /\ [ViewsNext]_viewVars => CyclesInv'
<1> SUFFICES ASSUME ShownIsMarked, CyclesInv, [ViewsNext]_viewVars PROVE CyclesInv'
  OBVIOUS
<1>1. CASE Under \/ Choose \/ Level
  <2>1. stage \notin {"cycles", "done"} /\ stage' \notin {"cycles", "done"} /\ UNCHANGED tarjan
    BY <1>1 DEF Under, Choose, Level, Take, Skip
  <2> QED
    BY <2>1 DEF CyclesInv, tarjan
<1>2. CASE Report
  BY <1>2, ReportStarts
<1>3. CASE NextRoot \/ NextChild \/ Return
  <2>1. stage = "cycles" /\ stage' = stage
    BY <1>3 DEF NextRoot, NextChild, Return
  <2>2. Ordered /\ Explored
    BY <2>1 DEF CyclesInv
  <2>3. Ordered' /\ Explored'
    BY <1>3, <2>2, NextRootExplores, NextChildExplores, ReturnUp, ReturnRoot
  <2> QED
    BY <2>1, <2>3 DEF CyclesInv
<1>4. CASE Done \/ UNCHANGED viewVars
  <2>1. UNCHANGED <<m, work, stack, index, low, found>>
    BY <1>4 DEF Done, viewVars, tarjan
  <2>2. Ordered /\ Explored => Ordered' /\ Explored'
    <3>1. Visited' = Visited /\ Stacked' = Stacked
      BY <2>1 DEF Visited, Stacked
    <3>2. /\ Gray' = Gray /\ \A v : Looked(v)' = Looked(v)
      BY <2>1, SameGraph DEF Gray, Looked
    <3>3. \A v : From(v)' = From(v) /\ Knot(v)' = Knot(v)
      BY <2>1, SameGraph
    <3>4. Ordered => Ordered'
      <4>1. InOrder(work) => InOrder(work)'
        BY <2>1, <3>1, SameGraph DEF InOrder, Nodes, Rising, Leaving
      <4> QED
        BY <2>1, <3>1, <4>1, SameGraph DEF Ordered, Numbered, StackInOrder
    <3>5. \A g, v : Answers(g, v)' <=> Answers(g, v)
      BY <2>1, <3>2 DEF Answers
    <3>6. \A k : Cyclic(k)' <=> Cyclic(k)
      BY <2>1, <3>3 DEF Cyclic
    <3> QED
      BY <2>1, <3>1, <3>2, <3>3, <3>4, <3>5, <3>6
      DEF Explored, Followed, Leads, Returns, LowIsReached, LowCovers, FoundSoFar
  <2>3. stage \in {"cycles", "done"} <=> stage' \in {"cycles", "done"}
    BY <1>4 DEF Done, viewVars
  <2>4. stage' = "done" => work = <<>> /\ m.nodes \subseteq Visited
    BY <1>4 DEF Done, viewVars, CyclesInv
  <2>5. Visited' = Visited
    BY <2>1 DEF Visited
  <2> QED
    BY <2>1, <2>2, <2>3, <2>4, <2>5 DEF CyclesInv
<1> QED
  BY <1>1, <1>2, <1>3, <1>4 DEF ViewsNext

\* Whatever the map and the views taken of it, when the search is done it has
\* found the components that are cycles, each whole, and nothing else.
THEOREM CyclesAreAlwaysTheKnots == ViewsSpec => []CyclesAreTheKnots
<1>1. CyclesInv => CyclesAreTheKnots
  BY NothingStacked DEF CyclesInv, CyclesAreTheKnots
<1> QED
  BY <1>1, ViewsInitMarked, ViewsStepMarked, ViewsInitCycles, ViewsStepCycles, PTL DEF ViewsSpec
=============================================================================
