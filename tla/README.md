# A TLA+ model of clif

clif (`cmd/clif`, formerly cfmleditor-lsp) is a language server and command-line
tool for CFML.  These modules model the parts of it whose correctness depends on
the order things happen in: the processes that share a project's daemon, the
state one LSP session keeps per document, the diagnostics it publishes, the
symbol index every session shares, everybody who writes it, the caches in front
of it, and the code map a command builds and stores.  Parsing, formatting and
linting of CFML text are functions of their input and are not modelled beyond
what the rest of the system asks of them.

## The system: inventory

| Part | State it keeps | Operations | Talks to | What is hard | What makes it correct |
|---|---|---|---|---|---|
| Daemon lifecycle (`cmd/clif/main.go` runServer, `internal/daemon`) | the connection tracker's count and channel, the socket file, the listener, one connection per editor | dial, become daemon, bind, accept, count, depart, drain, cancel, unlink, exit | the kernel's sockets; every session | processes race for one file name; a zero count is transient; shutdown races arrivals; killed daemons | one daemon per project, reachable by its name; it goes when its editors have gone and not before |
| Document sync (`internal/server` handler.go, server.go) | per open document: text, ParseResult, function ranges, change counters, a pending-reparse flag, timers, a lock; the completion cache | didOpen, didChange, didClose, didSave, deferred reparse, cache rebuild, restart | index, completion cache, diagnostics | timers and background goroutines against notifications; work done outside the document lock | whoever holds the lock sees a parse of the current text; a closed document leaves nothing behind; the index catches up |
| Diagnostics (`internal/server` diagnostics.go, scan.go, handler.go) | per file and source the last diagnostics, which sources ran, the open set, known-issues files, in-flight lint scans | store, publish, open, close, run a scan, cancel one, load a report | the client; cflint; the parser | publish after unlock; check then publish; a scan outliving its document or its successor | the client shows what the store holds; the newest scan wins |
| Workspace index (`internal/index`) | symbols by name and by file, calls by component, file and scope, entities, includes, a write generation | index a file, remove it, remove a folder, shift lines, replace a function's calls, look up | every session of a daemon | several maps describing one fact; identity across maps | the views agree; removing a file removes all of it |
| Workspace scan and watched files (`internal/server` workspace.go, watchedfiles.go) | worker slots, a result channel, the set of roots | scan a root, apply a watched change, add or remove a folder | index, open documents, resolver | results applied after the state they were computed from has changed | the open buffer wins over the disk |
| Resolver and its caches (`internal/resolve`, `internal/path`, `internal/server` source_invalidation.go, routes.go) | resolvers, discovered files, mapping and route tables, per-name answers | build lazily, look up, invalidate by path or wholly | index, disk | a lookup that began before an invalidation stores after it | after an invalidation no answer from before it is served |
| JSON-RPC hand-off (`internal/server` server.go) | who reads the connection | handle inline, hand the reader role over, call the client | the client | a call to the client from the reading goroutine | the server never waits for a reply nobody reads |
| Code map build and store (`internal/codemap` build.go, `internal/codemap/store`, `cmd/clif/graph.go`) | the listed files, the fingerprint of the indexed components, workers, a results channel, a collector; a SQLite database: pending rows, file_cache, the saved map | list, index, scan, merge, save a row, flush, load, replace the map, prune | the index, the disk, the MCP server | workers finish in any order; batches, failed transactions, killed commands; files edited meanwhile | the map is the files', whatever the order and the cache; a cached row is the scan of what it is keyed by |
| Code map views (`internal/codemap` views.go) | the map and the marks on its nodes | annotate, narrow, roll up, list cycles | `clif graph` | marks about the whole graph that outlive a narrowing; an iterative Tarjan search | what is shown agrees with what is marked; the cycles are the strongly connected components |
| Logging to the client (`internal/log`, logsink.go) | one sink for the whole process | attach, detach, log | every session | a process-wide sink, one session of several | a session's log lines reach a client that is there |
| Parser, incremental edits, formatter (`internal/parser`, `internal/formatter`, `internal/textdiff`, `internal/conv`) | a ParseResult per document | parse, apply an edit in place, format | document sync | equivalence of incremental and full parse | same answer as from scratch |
| Analyses (`internal/refs`, `deps`, `graph`, `unresolved`, `knownissues`, `route`, `codemap`) | none beyond a run | one pass over the index | CLI, MCP, scan | traversal of cyclic graphs | terminates, visits each once |
| Linters (`internal/cflint`, `internal/lint`) | a runner, a semaphore | scan a file or a tree | diagnostics, CLI | bounded concurrency, cancellation | a cancelled scan says so |
| Completion caches (`internal/server` completion.go) | per file and per function scope, completion items keyed by content hash | rebuild on open, save and after an edit, invalidate | document sync, parser | the key and the content are taken from different texts | items served are those of the text they are keyed by |
| CLI and MCP server (`cmd/clif`) | configuration | parse arguments, run one command | all of the above | file replacement, locking of a lazy linter | a file is replaced whole or not at all |
| Configuration (`internal/config`) | none after the start | search, read, merge | everything | none | a function of the files |
| Generated tables (`internal/docs`) | constant data | look up | hover, completion | none | - |

## How the modules fit together

| Module | What it is |
|---|---|
| `Drain` | abstract: sessions join and leave, a wait ends only at a count of zero and ends if that zero lasts |
| `ConnTracker` | `internal/daemon/conntracker.go` with its channels and its waiter; implements `Drain` |
| `Daemon`, `MCDaemon` | several clif processes, one socket file; uses the tracker through what `Drain` promises of it |
| `DocSync`, `MCDocSync` | one document in one session |
| `Diagnostics`, `MCDiagnostics` | the diagnostic store of one session and everybody who publishes from it |
| `FileTable` | abstract: for each file, whether it is indexed and what it declares |
| `Index`, `MCIndex` | `internal/index`'s two views and the per-function references; implements `FileTable` |
| `ReadLoop` | the connection of a session: one reader, handlers that run on it, requests to the client |
| `Workspace`, `MCWorkspace` | who writes closed files into the index: scans, folder walks, watched changes, lookups; composes `ReadLoop` |
| `SourceCaches`, `MCSourceCaches` | what a session remembers of the files it resolved a component from, and the reports that drop it |
| `CodeMap`, `MCCodeMap` | `clif graph --db`: the build, the row cache, the stored map |
| `CodeMapViews`, `MCCodeMapViews` | what `clif graph` does with a map once it is built |
| `ConnTracker_proofs`, `Daemon_proofs`, `DocSync_proofs`, `Diagnostics_proofs`, `Index_proofs`, `Workspace_proofs`, `SourceCaches_proofs`, `CodeMap_proofs` | theorems |

`Drain` and `FileTable` are the abstract specifications; `Daemon` uses the tracker
as `Drain` describes it.  `Workspace` reads files into an index of one reading per
file, which is `FileTable` seen from outside; `DocSync` has the same scans and
watched changes at an open document; `SourceCaches` has the resolver that both ask.
`CodeMapViews` starts from any map `CodeMap` may return.

Parameters are CONSTANTS, their assumptions are named ASSUMEs beside them.  The
MC modules only add symmetry sets and concrete values.  In each module a
definition whose comment begins with "Mutant" is a plausible mistake in the code
it stands beside; it is used by no specification.

### ConnTracker and Drain

State: `count`, `done` and `closed` are `ConnTracker`'s fields (a channel is its
serial number, `closed` the channels that have been closed); `phase` is where
each session's goroutine is; `waiter`, `held` and `cancelled` are
`WaitForLastClient`'s program counter, the channel its select holds, and its
context.  `Add` and `Remove` hold `ct.mu` throughout and are one action each.
`ReadDone` is separate from `Wake` because `ct.Done()` is evaluated once, on
entering the select: this is where a wake-up could be lost.

`Drain` forgets the channels.  The refinement maps `active` to the sessions
between Add and Remove, and every program counter between `boot` and `returned`
to "waiting".

### Daemon

Each editor window starts one process.  `role` is which branch of `runServer`
it took, `srv` where its Serve goroutine is, `path` which process's socket the
file name leads to, `at`/`sess` the connections, `count`/`drain` the tracker and
the waiter, `cancelled` the daemon's context.  Order inside Serve is kept:
`RemovePath` and `Listen` are two steps, as are `Unlink` and `CloseListener`
(UnixListener.Close removes the name first), so that other processes come
between.  A dial finds the socket by name and is answered by the kernel's
backlog, before anyone accepts.  `ServeFails` is any of Serve's system calls
failing, whose error runServer discards; `Crash` is a killed process, which
leaves its socket file.

### DocSync

A text is a record of its revision and the revision its signatures date from, so
the model can tell "the parse is of this text" from "the index has these
signatures" without any text in it.  `doc`, `parse`, `ranges`, `pending`,
`changes` are the maps `documents`, `parseResults`, `funcRanges`,
`reparsePending`, `changeCount` at one URI; `reparseTimer` and `cacheTimer` the
two timers; `entry` the mutex in `docLocks`, numbered, so that a document which
gets another mutex after a close would be seen; `act` is what each goroutine is
doing and, for those that captured a ParseResult pointer, whether it is still
the one in the map.

`Ask` and `Enter` are lockDocOnly and lockDoc (with its flush); the body of each
handler is the one action that follows and releases.  What runs without the
document's lock - watched files, scans, `clif.restartDaemon` - is cut at every
place where another goroutine could see a difference (`CheckOpen`, `ReadFile`,
`ApplyIndexResult`, `DropFileCaches`, `InvalidateFile`).  Work done while holding
the lock is merged into one step where it commutes with all lock-free steps;
those places are named in the comments.

Left out: the branches of handleDidChange that apply a global or full edit to an
existing parse at once (they are dead: such edits are deferred first); in a
deferred batch, the in-function edits already applied to the parse before the
deferral (the parse lags the text either way, and pending says so); the gates on
file kind (ORM, binary, include paths); line numbers.

### Diagnostics

`lint`, `parse` and `listed` are a file's `bySource`: CFLint's findings, the
parser's, and the known-issues files (reports) with entries for it.  A finding is
the revision of the text it was found in, 0 when there is none, so that an older
result can be told from a newer one.  `ran`, `known`, `open`, `cancels` are the
store's and the server's fields of those names; `shown` is the client.
`Emit` is storeDiagnostics: under the store's lock it makes the change and takes
the file's merged set out; `Notify` is the send, a step of its own because the
lock is released first.  `Reader` is the goroutine that reads the connection and
runs didOpen and didClose; CFLint scans, workspace parse scans and report loads
run in `Slots`.  A scan is cut at registering, reading the file, looking whether
it was cancelled (`Linted`), recording that it ran, storing, sending, and its
deferred delete; a load at each of its three critical sections, and at the
question whether the file is open.

Three history variables name the cases in which the code does not do what it
says, so that the properties can say it does in all others: `crossed`, files two
publishers had in hand at once; `late`, files closed while a scan could still
record; `doubled`, reports loaded by two goroutines at once.  That the editor
writes the file before it says so is one step, `DidSave`.

### Index and FileTable

An entry is a record that includes the address it lives at, because the code
tells entries apart by pointer.  `named` is the union of the name buckets
(`funcs`, `comprefs`), `filed` is `fileFuncs`/`fileRefs`, `scoped` is
`scopeRefs`, `indexed` the keys of `fileFuncs`.  Definitions and references are
kept and removed alike, so one set stands for both; references have a scope.
Entries equal in everything, address included, are one entry.  A new entry takes
the lowest address nothing refers to: which one it is makes no difference to
equality of pointers.  Every operation holds `idx.mu` throughout and is one
action.  `KeyOf` is uriKey, `UnderRaw` and `UnderKey` the two prefix tests
RemoveFilesUnder makes.

The refinement reads each file's rows off the name buckets - what a lookup by
name finds - and FileTable's operations then say what every write may do to
them.

### ReadLoop and Workspace

`inbox` is what the client has sent, `serving` the message whose handler runs on
the goroutine that reads, `apart` the handlers that handed the reading over
(`jsonrpc2.Async` in `Server.call`), `call` what was asked of the client.  A reply
is a message like any other: whoever waits for it on the reading goroutine waits
for ever, which `NeverStuck` would show.

`Workspace` EXTENDS it with a session that has no `workspacePaths` of its own and
watches files.  Time is the number of changes of the disk so far; a reading is
what was at a file and when, and the index holds a reading per file.  `scan`,
`batch` and `walk` are the goroutines of indexWorkspace and
applyWatchedFileChanges and the walk of indexRoot, which runs on its handler;
each is cut between reading a file and filing what was read, because no lock is
held between the two.  `Room` is how many readings of a scan can wait, in a
worker's hands or in the result channel (8 workers and 64 places in the code).
`demand` is EnsureIndexed, one lookup at a time.  A walk that comes to a name
whose file is gone ends silently (`Collect`, `CutWalk`).  `gc` is the process's
garbage collector setting with indexingGC's counter and saved value.

`newest`, `unseen` and `gc.own` are history: the time of the newest reading filed,
the last change that nobody watched or that a cut walk left out, and what the
collector was set to at the start.  `OnlyOvertakenLags` needs the first two to say
that everything else catches up.  `Go` takes any idle goroutine of the model's
supply by CHOOSE, because they are interchangeable.  Open documents are DocSync's.

### SourceCaches

One component is asked for by several goroutines.  `mappings` is the process-wide
appMappingsCache, `extends` what the index recorded, `resolver` the session's;
resolvers are objects in `heap` with their roots, the cached path and the names
their DirCache has listed, so that a resolver replaced while a query holds it goes
on answering that query.  A query is cut where the code holds no lock: looking up
the path, reading the mapping, keeping it, searching, storing, reading and
recording what the file extends.  A report is applyWatchedFileChanges followed by
the invalidation in its order: the files one by one, then the resolver (dropped
as a whole, or asked for and its paths and listings made anew), then the mappings.
`late` is history: whether the query that stored a value was overlapped by a change
or a report.  The search is one step: it reads directories and not the caches
that a report drops, and a change under it makes the query overlapped anyway.

Folders are naturals in the order the code walks them; that of some of them one
comes first is a lemma (`LowestIs`).

### CodeMap

A file's text is a value; `Funcs`, `Calls`, `Refs`, `Incls` say what a parse finds
in it.  A hash is the text hashed and the fingerprint the texts of the components
indexed.  `pc` is where buildGraph is, `worker` each goroutine of Build, `results`
the channel, `coll` the collector, `pending` the cache's buffer; `rows` and
`stored` are the database and are all that outlives `Crash`, with the files.
A graph has the nodes the file owns and those it only names (`prov`), because
collector.merge treats them differently.  `scanned` and `merged` are history: what
a parse of each text that was read gives, and which graphs arrived.  A worker that
fills the buffer takes it away and writes it as one transaction, which commits or
is gone as a whole; scanFile, buildGraph and PruneCache all go on after an error,
Store.Save does not.  A row that cannot be read or decoded is a miss: `Parse` may
then parse a file the table has a row for, and buffers a row that replaces it.

`KeyDecides` states what the key leaves out: that no two files hold one text,
that nothing included or named comes and goes, and that commands have the same
flags.  RowsAreScans and MapIsTheFiles depend on it; see Findings.

### CodeMapViews

Ids are numbers in the order of the strings they stand for, because the code
breaks ties by that order.  `Annotate` is markIslands, markReachable and
markRoots; the views are operators on maps with the code's name, applied in
applyGraphViews's order: Under, then one of from, live and detached, then a
level.  A breadth-first search is the least set with its start in it that no arc
leaves (`Seen`); `Cycles` is modelled by its steps - frames with the children not
looked at, stack, numbers - and compared with the definition of a strongly
connected component.  `ViewsAssumption` says of the maps that come in that an edge
has its ends among the nodes, which collector.finish sees to and MapIsTheFiles
states of the map that Build returns.
Its theorems are in CodeMap_proofs, which extends both modules; they share no
state.

## The runs

| Run | Instance | What it shows |
|---|---|---|
| `conn_tracker` | the daemon's own session and four sockets, each once | the counter is right; the current channel is closed exactly at zero; the waiter never sleeps on a channel nobody will close; tracker and waiter implement Drain, liveness included |
| `daemon_serial` | four processes, one at a time, one crash | at most one daemon hosts the project; the name leads to whoever accepts; nobody is left deaf; no shutdown removes a successor's name |
| `daemon_live` | three processes, all at once, one failing system call | an answered dial is settled; a daemon deserted for good exits |
| `doc_sync` | two background goroutines, three revisions, batches of two edits, bursts of more than one change, disk, scan and restart | lock holders read a parse of the text; one holder; a closed document leaves no parse, ranges, timers, owed reparse or function scope; an owed reparse is scheduled |
| `doc_sync_live` | one background goroutine, four revisions | the index catches up with the text |
| `diagnostics` | one file, one open-only CFLint report, two background goroutines, three revisions of which only the second has anything to find | at rest the client shows what the store holds, unless publishes crossed or a report was loaded twice at once; a report's bookkeeping covers its entries; a close takes CFLint's findings with it, and CFLint's findings hide the report's, unless a scan was past cancelling |
| `index` | two files, one with two spellings, one folder, one name, one function, three lines, three addresses | the views agree, one generation of a function's references is kept, every write is one of FileTable's |
| `workspace` | one folder with two files, one of them written or deleted twice; the first scan and one request - a reindex, a format, or the folder closed or opened - with two scans, two batches and a lookup | a settled index is the disk, but for readings that were overtaken or never made; the collector's setting is restored; nobody waits for what only he can read |
| `source_caches` | one folder and one mapped directory, two queries, two reporters, three resolvers, two changes | what is stale after all changes were reported was stored by a query that overlapped one |
| `code_map` | a component of two texts, a page of two, a page that comes and goes, a component outside; two workers, batches of two, two commands with one edit and one failure or crash | rows are scans of what they are keyed by; the map is the files'; an unchanged rebuild parses nothing; a command ends |
| `code_map_views` | a page, two components with a function each and an external: all choices of ten edges and a remote entry, all orders of views | marks agree with what is shown; a scope keeps its neighbours; cycles are the strongly connected components that are not a single node without a loop |
| `doc_sync_scan` | as `doc_sync` | a violation: a statement of the code's own documentation that the code does not keep; see Findings |

Bounds.  Four processes are a daemon shutting down, its successor, a proxy, and
a fourth that dials while they change over; the properties speak of pairs.
Concurrent starts need no more than three: two that race and one that arrives.
Four sockets make several transient zeros and re-armings in one wait.  Three
revisions are an opened text, an edit deferred or applied in place, and a change
after it, with another revision of the disk's before them; two slots are a timer
that fired beside a scan or a rebuild.  `Burst` is 1 where the code has a larger
threshold: the branch is what matters.  Three lines let an entry move either way
past one that stays; three addresses hold both files and the write that replaces
one of them.  For diagnostics, one file is enough because no operation relates
two; two goroutines are a scan beside its successor, a load, or a parse scan,
with didOpen and didClose between them; the second save brings findings and
the third takes them away.  In the workspace, two changes are a deletion
and a re-creation or two versions, one read by each of two goroutines that file
in the other order; the second file is what a cut walk leaves out, and what
makes a scan wait with `Room` at 1.  One request beside the first scan lets a
second scan, a folder and a reader's hand-over each meet it; two requests, a
larger room and other collector settings were explored with one file.  In the
source caches, two changes are one to overlap a query and one to be reported
after it, and three resolvers are the session's, a replaced one still in a
query's hands and the one between.  In the code map a buffer of two rows is
filled once and left half full once, a channel with room for one graph per
worker fills up, and two commands are a build and a rebuild on its rows.
The bound on addresses, like those on revisions, changes, edits and commands,
stops a behaviour in a state the program could go on from, hence CHECK_DEADLOCK
FALSE where it is given; the index never stops.

Fairness.  Daemon: goroutines are scheduled and timers fire (weak fairness of
starting, accepting, counting, departing and draining); nothing makes an editor
start or close, a call fail, or Serve finish its shutdown before the process is
gone.  ConnTracker: the waiter alone.  DocSync: goroutines are scheduled and
armed timers fire; strong fairness for taking the mutex, because Go's mutex hands
over to its longest waiter once one has waited a millisecond; strong fairness of
the timers only because the model has a bound on goroutines and the code does
not.  Client notifications, scans, saves and restarts are never obliged to come.
CodeMap: the goroutines of a command that runs are scheduled; nobody has to edit,
run or kill one.  Workspace states no fairness: `NeverStuck` is an invariant about
what could move next, with the guards of the steps spelled out (`CanMove`) and not
with ENABLED, so that it can be proved.  `MovesAreSteps` of MCWorkspace says that
the guards are exactly what is enabled; named as an invariant in WorkspaceAll.cfg it
holds on all 5,081,278 states.

## What is proved

With TLAPS, for all values of the constants that satisfy the ASSUMEs:

- `TrackerCorrect`, `RefinesDrain`.  The inductive invariant adds to the checked
  ones that every closed channel is the current one or an older one: without it
  a fresh channel might already be closed.  The refinement theorem is Drain's
  safety part.
- `CountersCorrect`: the daemon's counter is its sessions, with any number of
  processes, crashes and failures; the strengthening is that a session beyond
  "none" belongs to a daemon, so a step at one daemon moves no other's count.
- `OneReachableDaemon`, `UnlinksOnlyItsOwn`, `SubsequentAlwaysConnect`: assuming
  `SerialStarts`, for any crashes and failing calls.  `SerialInv` says one process
  starts at a time, a listening socket (cancelled or not) has the name, and from a
  failed dial to the bind nobody listens.  The assumption is needed: with
  SerialStarts FALSE TLC finds OneDaemon violated.  A call of Serve that fails leaves
  a daemon deaf, and a second one beside it, so what is proved through failures is
  that one daemon at most answers (`OneAnswers`); OneDaemon and NeverDeaf are
  proved as long as none failed (`faults = 0`).
- `DesertedDaemonMoves`, `SessionsAreAttended`: with no assumption on starts, crashes or
  failures, what the liveness of the daemon rests on.  A state from which a
  deserted daemon has no step towards its exit, or a process that dialled waits for
  a daemon that is gone or cannot come to it, is a lost wakeup, and that is a
  matter of invariants: `Drained` says that the drain begins with the daemon's own session and that a
  daemon whose drain still waits has a session counted, so no zero passed it by;
  `Attended`, that a session that is not over has a daemon, and one that was not
  accepted a socket that will be.  A session whose dial was answered does depend on
  steps of another process, its daemon's: what is proved is that the daemon's next
  step for it is free to be taken (`ServedNext`), and that until it is counted the
  session only comes further, one stage at a step, or is cut (`SessionStep`) - out of the
  backlog only when the socket stops listening, once accepted only with the
  daemon's process.  These are the premises of `DialIsSettled` other than fairness.
  That the step is taken is the scheduler's part, and `DaemonExits` and
  `DialIsSettled` add it, model-checked.  `GuardsAreSteps` of MCDaemon says the guards
  are what is enabled; named in DaemonLive.cfg, with a crash besides the failing call,
  it holds on all 358,838 states.
- `DaemonIsADrain`: each daemon of Daemon, from its launch to its end, takes a step of
  Drain or none at every step of the system, its sessions being Drain's
  connections; so what ConnTracker is shown to implement is what the daemons
  rely on.  An instance of Drain for each process; the end of a process is not a
  step of its drain.
- `DocumentSafe`: type correctness, mutual exclusion, nothing left behind by a
  close, an owed reparse is scheduled.  The strengthening is `Ticketed`: whoever
  waits for or holds a mutex of the document holds the one in the map - which is
  why handleDidClose must not remove it.
- `ReadersCurrent`: assuming `Plain`, that edits inside a function leave its
  signatures alone.  `Tracks` (a parse not marked as lagging is of the text) is
  not preserved alone; it needs `PaidOnEntry` (no one holds the lock through
  lockDoc with a reparse owed) and `OneHolder`.  With "escape" among the EditKinds,
  Plain fails and TLC finds the property violated.
- `OwedIsAlwaysPaid`: assuming `ParseStays`, that the file does not change beside the
  editor and nobody restarts (scans may run).  An owed reparse is settled without
  bringing up the index only if there is no parse to bring up; `OpenIsParsed` says
  there is one as long as nothing drops it (`OnlyScans`).  The assumption is the
  finding below turned round: with "restart" in Externals TLC finds the property
  violated.
- `IndexBehindIsOwed`: assuming `Plain` and `Externals = {}`, the instance of the run
  that checks `IndexCatchesUp`.  An index that is behind has a reparse owed
  (`IndexTracks`), and an owed one is scheduled; what is left to the run is that
  goroutines and timers get their turn.  A scan or a report that found the
  document closed breaks it, which is what `doc_sync_scan` shows.
- `CloseIsClean`, `NeverTwiceUnlessLate`.  The invariant has four parts beside
  the types: nobody may still record findings of a closed file; its findings are
  gone or the reader is about to clear them; whoever is about to record has said
  that CFLint ran and no report has outrun it since; an open file's findings
  hide the reports' entries.  The third rests on the first: a fresh report takes
  `ran` only from closed files.
- `BookkeepingCovers`: for any number of reports, of either kind.  The invariant says
  what a load of a report makes of the files it is done with: before it publishes,
  `known` is the set of files with entries; while it does, a file it is done with
  has an entry if the report names it today.  One goroutine at most has a report in
  hand unless `doubled` says so.
- `ClientAlwaysAgrees`.  `AgreedOn` says of each file whose publishes did not cross
  that one goroutine at most has a merged set of it in hand; that once nobody is
  about to change the set (`Settled`), the one in hand is the store's; and that if
  none will be sent, the store's is what the client shows.  A file with entries of
  a report that was loaded twice at once is set aside, and so are those of
  `Uncovered`, which the proof attempt brought up: with two CFLint reports,
  loading one of workspace scope takes back the run that hides another's entries
  and publishes only its own files, so the other's are back in the store and not
  in the editor (diagnostics.go:330-350).  With one CFLint report Uncovered is
  empty.
- `ViewsAlwaysAgree`, `IndexRefinesTable`, `EachWriteIsItsOwn`: assuming
  `SpelledAlike`, that a folder's URI is spelled like its files'.  The invariant
  is TypeOK, ViewsAgree and NothingAccumulates together: dropping a function's
  references wherever they are is right only because the remembered set is
  exactly the filed one.  `ImplementsFileTable` asks that some operation of
  FileTable explains each step; `EachWriteIsItsOwn` that it is the one named by
  the write's own arguments.  With `UnderRaw <- ClientRaw`, which MCIndex
  defines, SpelledAlike fails and TLC finds ViewsAgree violated.
- `CacheHoldsScans`, `MapIsAlwaysTheFiles`: assuming `KeyDecides`.  The invariant
  follows every file through the build - listed, in one worker's hands, in the
  channel, merged - and says that it is in exactly one of those places, that the
  graph carried is the scan of the text read, and that the collector holds
  exactly the graphs merged, an owner's details on every node that has an
  owner.  The first part is what makes the third independent of the order.
  `CodeMapTyped` needs no assumption.
- `BuildsWindDown`: with no assumption but that the files are finitely many.  `StepsLeft`
  counts the components to read, five steps for each file to take, fewer for one that
  is loaded, written or sent, one for each graph in the channel, and the stages of
  buildGraph.  Each step of the command, of a worker or of the collector lowers it,
  an edit leaves it; and while a command runs a guard of one of them holds
  (`WorkerGoesOn`, `CommandGoesOn`): a worker that waits for room in the channel
  leaves the collector something to take, because the channel has room for one
  graph at least.  `GuardsAreSteps` of MCCodeMap says the guards are what is enabled;
  named in CodeMapAll.cfg it holds on all 220,692 states.  With the fairness of
  FairSpec that is `BuildEnds`, which TLC checks.
- `RebuildIsAlwaysCached`: with no assumption on the key.  As long as nothing was
  edited or failed (`Quiet`), `FirstBuild` says of each listed file that it is still
  to scan or that its row is in the table, in the buffer or in a worker's batch;
  the flush brings them all into the table (`Cached`), where writes and the prune
  keep them, and a later build reads the same texts, has the same fingerprint and
  finds a row for every file (`Parsed`).
- `LiveAlwaysLive`, `ScopeAlwaysKeepsNeighbours`: for any maps, scopes and starts.
  The invariant, `ShownIsMarked`, says of a map that is shown that its islands,
  reachable nodes and roots are those of its own nodes and edges, and what view of
  the one before it is.  The rest is about the views: what --live leaves is closed
  under the walk (`LiveRuns`), nothing of an entry is left by --detached
  (`DetachedIsDead`), the nodes whose package runs are closed under the walk
  (`PackageRuns`), the two ends of an edge reach each other (`OneIsland`), and an
  island without a free node has a lowest one (`Rooted`).
- `CyclesAreAlwaysTheKnots`: for any such map, whatever the views before the
  report.  The invariant, `CyclesInv`, is Tarjan's argument in ten parts.  A node
  of a frame leads to all that was stacked after it (`Leads`), and whatever is
  stacked leads back to a frame's node that was there before it (`Returns`); a
  frame's low number is reached (`LowIsReached`), and is as low as any arc into
  the stack from the nodes it answers for, those stacked since it and before the
  next frame (`LowCovers`); what left the stack leads nowhere back to it
  (`Followed`); and what is listed is the cyclic knots of what left the stack
  (`FoundSoFar`).  When a frame is done and reached nothing lower, `Returns` and
  `Leads` put what is stacked from it on into one knot, `LowCovers` and
  `Followed` keep the rest out (`RootHasItsKnot`); when it did reach lower, there
  is a parent to be told (`ReturnUp`).  At the end no frame is left, so by
  `Returns` nothing is stacked.
- `OnlyOverlappedIsStaleAlways`: for any number of places, queries, reporters and
  changes.  The invariant says, of every value stored or in a query's hands that
  nothing overlapped, that it is right or that a report which will drop it is on
  its way - still to come, or being applied and not there yet.  It is
  proved per cache (`QueriesAreRight`, `MappingsAreRight`, `ExtendsAreRight`,
  `ResolverIsRight`); the case that matters is a resolver that is no longer the
  session's, whose store nobody reads again.
- `CollectorAlwaysRestored`: for any number of scans, any setting of the process
  and any order.  `Counted` says the counter is the number of scans and walks
  that run; `Saved` that what was saved is the process's own setting.
- `OnlyOvertakenEverLags`: for any folders, files, scans, walks and batches.
  `Dated`: no reading or event is of the future.  `OnTheirWay`: whatever was read
  and not yet filed, and whatever a reported deletion makes believed, is what the
  disk holds, or was overtaken: something newer is known of the file, filed, read,
  reported, or missed.  `Indexed` says the same of what is in the index, unless
  the file is about to be filed for the first time since its folder was opened.  When
  all is settled nothing is on its way, and what the property sets aside is left.

- `NeverEverStuck`: for the same.  The message that the reading goroutine handles
  holds it, and only it delivers the client's replies.  `MInv` has three parts: a
  reply that the client sent is in the mail, and delivering it takes no handler
  (`RepliesCome`); the message to format is in one place, on the reading
  goroutine, handed over or in the mail (`FormatsOnce`), so a format that was handed
  over finds its predecessor done; and a scan or a batch that is under way is at one
  of its steps (`WorkersAreBusy`).  A request that is asked can be answered, one
  that is answered has its reply in the mail, and the mail is read unless a
  handler that can go on has the reader.

Two lemmas stand for induction, which no installed prover can apply: of any finite
sets one has no other of them within it (`Smallest`, from the library's
well-foundedness of strict inclusion), so a set of numbers has a lowest one
(`LowestIs`).

Only model-checked: `DaemonExits`, `DialIsSettled`, `IndexCatchesUp`, `BuildEnds` and
the liveness of Drain (liveness under fairness is out of the prover's reach; for the
first four, the theorems about what can be taken next are the part without
fairness).  No module here has RECURSIVE operators, which the prover cannot use.

## Findings

`doc_sync_scan` is a run whose property is a sentence of the repository and whose
counterexample is a run of the code: a scan or a watched change that found the
document closed overwrites what didOpen indexed meanwhile (an open buffer
outranks the disk).

These are reproduced by changing a configuration, as named:

- Two processes that start together both fail to dial; the second removes the name
  of the first, and an editor started then finds no daemon though one accepts
  (README.md: subsequent sessions connect).  `SubsequentSessionsConnect` of Daemon,
  with DaemonLive.cfg.
- An edit that closes its function early is taken for one inside it, and no
  reparse follows (lockDoc: never a parse that lags).  `ReadersSeeTheText`, with
  "escape" in EditKinds of DocSyncAll.cfg.
- A restart, or a drop of a file's caches, between a deferred edit and its reparse
  loses the reparse (scheduleReparse: current within reparseDelay).
  `OwedReparseIsPaid` of DocSync, under DocSyncLive.cfg with "restart" in Externals.
- RemoveFilesUnder with a folder spelled another way than its files leaves the
  views disagreeing.  `ViewsAgree`, with `UnderRaw <- ClientRaw` in IndexAll.cfg.
- A row of the code map's cache is keyed by the fingerprint and the text.  A file
  copied or moved within the tree is served the graph of the path its row was made
  for, and its functions are attributed to the old path (the comment on Cache in build.go
  gives the whole two-part key, and the path is not in it).  `MapIsTheFiles`,
  with `Twins = TRUE` in CodeMapAll.cfg.  The flags that decide entry and utility
  marks and whether unresolved calls are kept are not in the key either; `Flags`
  with a second value shows it.

Seen on reading, without a run of their own:

- WaitForLastClient's comment says a client arriving during the zero extends the
  wait; the count is only sampled after the grace period, so sessions that came
  and went in between do not (`conntracker.go`).
- runServer's comment says the drain does not end on a zero a client is already
  arriving into; a client accepted and not yet counted, or still in the backlog,
  at the final look is cut off (`main.go`).  `DialIsSettled` says that it is cut
  and not left hanging.
- Two processes starting together also let one, shutting down, unlink the
  other's socket; `UnlinksOwn` is checked and proved for serial starts only.
- didOpen's rebuild that runs after didClose re-creates the completion entry of
  a closed document; handleDidClose says the cache goes with the document.
- Diagnostics: a finished scan's deferred delete removes the cancel function of
  its successor, so a third save cannot cancel the second, whose older result
  may be published last.  A scan that is past its check when the file is closed
  records its findings for the closed file, and a report loaded afterwards is
  listed beside them, which supersededBy's comment rules out; `late` names these
  files.  Two publishers of a file may send in the other order than they changed
  the store, and the client keeps the older set; `crossed` names those.  With
  two CFLint reports, loading one forgets the runs on closed files and so
  un-hides the other's entries without publishing them.
- A deletion of an open file removes it from the index; the comment says saving
  the buffer brings it back, but handleDidSave does not index.
- RemoveFilesUnder's prefix has no trailing slash, so a folder takes with it the
  files of a sibling whose name it begins.
- Workspace: a deletion and a re-creation reported in two batches may be filed in
  the other order and leave an existing file out of the index until it changes
  again (`newest`).  A file that vanishes while nobody watches stays in the index:
  a reindex does not remove it, though handleInitialized's comment has clif.reindex
  refresh such an index, and cmdRestartDaemon, which speaks of clearing all
  caches, does not clear the index (`unseen`).  A folder closed while a scan is
  reading it gets its files back.  A file or directory that is gone or unreadable
  ends the whole walk; collectCFCFiles does not even log it (workspace.go).
  EnsureIndexed can file a file again while its deletion is being applied.
- Source caches: opening and closing folders invalidates nothing, and a resolver
  keeps the roots it was built with; the comments on invalidateResolver and
  routeResolver say of the route resolver, dropped with it, that it closes over the
  workspace roots and must not answer from a workspace that no longer exists.
  What a file extends is read and recorded without a lock, so a re-index between
  the two is overwritten; a path worked out with old mappings can be stored
  after the paths were dropped, because the mappings are dropped last.  `late` marks
  both.
- Views: `--under X --detached` calculates reachability again on the narrowed map,
  so that code entered from outside X looks detached.  At the file level Collapse
  drops the entry mark of a remote function, where the comment in views.go says that
  entry-ness survives a merge.  An island with a root and a cycle that the root
  does not reach has no drawing root for the cycle.
- The log sink is one for the process (logsink.go): with several sessions, the
  last to attach gets the lines of all, and the first to end stops them for all.

## What is not modelled

- The parser, the formatter, the differ, the linters' findings and the analyses
  (`refs`, `deps`, `unresolved`, `knownissues`, `route`): sequential functions of
  their input, with no state between calls; the orders in which the rest of the
  system calls them are modelled, their results are values.  They and the
  generated tables of `internal/docs` are most of the repository's lines, which
  is why the modules stand for a small share of them.
- The index's records beside definitions and references; the resolver's answers
  other than paths, mappings and extends, which the same two operations drop, and
  context views; configured `workspacePaths` and globs, nested roots, and
  known-issues and mapping files among watched changes.
- Slow handlers that release the reader and go on beside it (releaseReadLoop), and
  cancellation of requests.
- The code map's routes, external callees and edge counts, and the queries over
  a stored map; the contents of `.clif.json`, which are in the fingerprint; two
  commands that build into one database at once; `--no-cache`, under which a command
  neither reads nor writes rows and still prunes those of other fingerprints.
- The log sink, the replacement of a file on disk by a command, and the contents
  of completion entries: planned below.
- A full listen backlog, which also fails a dial, and two editors of one project
  editing one file in two sessions of a daemon.

## Plan

Done, in the order of importance: `Drain`, `ConnTracker`, `Daemon` (a mistake
there costs every session of the project); `DocSync`; `Index` against `FileTable`;
`Diagnostics`; `Workspace` on `ReadLoop`; `SourceCaches`; `CodeMap`;
`CodeMapViews`; and their proofs.

Left, in this order:

1. `IndexRecords`: extends, delegates, entities and defaultEntities beside the
   two views, with what RemoveFilesUnder forgets.
2. `CompletionCache` (keys by content hash against undo), `LogSink`, `WriteInPlace`:
   one small protocol each.
3. `DocLines`: positions of incremental edits against a reference definition.
4. Slow handlers and configured paths in `Workspace`; two builds in `CodeMap`.
5. A second instance of Diagnostics with several reports.
