---------------------------- MODULE Diagnostics ----------------------------
(***************************************************************************)
(* What one session tells its client about files: the diagnostic store and *)
(* everybody who writes it (internal/server's diagnostics.go, scan.go and  *)
(* runDiagnostics).  CFLint runs on save, the workspace parse scan and the *)
(* loads of known-issues files (reports) are goroutines; didOpen and       *)
(* didClose run on the goroutine that reads the connection.  Whoever       *)
(* changes the store takes its lock, works out the file's merged set, lets *)
(* the lock go, and only then sends it: Emit and Notify.                   *)
(*                                                                         *)
(* Findings are a number: the revision of the text they were found in, 0   *)
(* for none.  A report's entries for a file are there or not.              *)
(***************************************************************************)
EXTENDS Naturals, FiniteSets

CONSTANTS
    Files,                \* CFML files
    Reports,              \* the known-issues files of the configuration
    LintReports,          \* those generated by CFLint
    OpenOnly,             \* those of scope "open"
    Slots,                \* goroutines that can run at once (a bound)
    Reader,               \* the goroutine that reads the connection
    None,                 \* no file, report or goroutine
    MaxRev,               \* revisions of a file that are saved (a bound)
    Clean                 \* the revisions in which nothing is to be found

ASSUME DiagnosticsAssumption ==
    /\ LintReports \subseteq Reports
    /\ OpenOnly \subseteq Reports
    /\ Reader \notin Slots
    /\ None \notin Files \cup Reports \cup Slots \cup {Reader}
    /\ MaxRev \in Nat \ {0}
    /\ Clean \subseteq 1..MaxRev

Actors == Slots \cup {Reader}

VARIABLES
    disk,                 \* file -> the revision saved last
    report,               \* report -> the files it has entries for
    open,                 \* st.open
    lint, parse,          \* file -> what bySource holds of CFLint and parser
    listed,               \* file -> the reports bySource holds entries of
    ran,                  \* the files whose ran names CFLint
    known,                \* report -> st.known
    cancels,              \* file -> the scan s.lintCancels can cancel
    shown,                \* file -> what the client shows
    act,                  \* what each goroutine is doing
    crossed,              \* history: files whose last publishes crossed
    late,                 \* history: files closed under a running scan
    doubled               \* history: reports loaded twice at once

outside == <<disk, report>>
store   == <<lint, parse, listed, ran, known, open>>
history == <<crossed, late, doubled>>
vars    == <<outside, store, cancels, shown, act, history>>

Message == [lint : 0..MaxRev, parse : 0..MaxRev, listed : SUBSET Reports]
Nothing == [lint |-> 0, parse |-> 0, listed |-> {}]

\* left: files still to be done.  content: the files of the report being
\* loaded.  reports: the ones still to be loaded.
Idle == [op |-> "none", at |-> "idle", file |-> None, rev |-> 0, msg |-> Nothing,
         left |-> {}, content |-> {}, report |-> None, reports |-> {},
         cancelled |-> FALSE]

Doing ==
    [op : {"none", "open", "close", "scan", "parse", "load"},
     at : {"idle", "start", "next", "read", "lint", "ran", "parsed", "store", "ask",
           "unlint", "unparse", "prev", "publish", "send", "finish"},
     file : Files \cup {None}, rev : 0..MaxRev, msg : Message,
     left : SUBSET Files, content : SUBSET Files,
     report : Reports \cup {None}, reports : SUBSET Reports,
     cancelled : BOOLEAN]

TypeOK ==
    /\ disk \in [Files -> 1..MaxRev]
    /\ report \in [Reports -> SUBSET Files]
    /\ open \subseteq Files
    /\ lint \in [Files -> 0..MaxRev]
    /\ parse \in [Files -> 0..MaxRev]
    /\ listed \in [Files -> SUBSET Reports]
    /\ ran \subseteq Files
    /\ known \in [Reports -> SUBSET Files]
    /\ cancels \in [Files -> Slots \cup {None}]
    /\ shown \in [Files -> Message]
    /\ act \in [Actors -> Doing]
    /\ crossed \subseteq Files /\ late \subseteq Files /\ doubled \subseteq Reports

Init ==
    /\ disk = [f \in Files |-> 1]
    /\ report \in [Reports -> SUBSET Files]
    /\ open = {}
    /\ lint = [f \in Files |-> 0]
    /\ parse = [f \in Files |-> 0]
    /\ listed = [f \in Files |-> {}]
    /\ ran = {}
    /\ known = [r \in Reports |-> {}]
    /\ cancels = [f \in Files |-> None]
    /\ shown = [f \in Files |-> Nothing]
    /\ act = [a \in Actors |-> Idle]
    /\ crossed = {} /\ late = {} /\ doubled = {}

\* Mutant of Found: a clean run is not turned into an empty list.
FoundNil(rev) == IF rev \in Clean THEN None ELSE rev

Found(rev) == IF rev \in Clean THEN 0 ELSE rev

Free == {s \in Slots : act[s] = Idle}
At(a, op, at) == act[a].op = op /\ act[a].at = at

-----------------------------------------------------------------------------
(* Store and publish *)

\* mergedLocked: an open-only report is left out while the file is closed, and
\* a CFLint report once CFLint itself has run on the file.
Merged(f) ==
    [lint |-> lint[f], parse |-> parse[f],
     listed |-> {r \in listed[f] : /\ r \in OpenOnly => f \in open
                                   /\ r \in LintReports => f \notin ran}]

\* Somebody else has a set for f in hand.
Unsent(a, f) ==
    \E b \in Actors \ {a} : act[b].at \in {"ask", "send"} /\ act[b].file = f

\* Goroutine a, whose job it is, has made its change to f and takes the merged
\* set out of the lock, to send it or, at "ask", to see whether anybody wants it.
Emit(a, job, f, at) ==
    /\ act' = [act EXCEPT ![a] =
                 [job EXCEPT !.at = at, !.file = f, !.msg = Merged(f)']]
    /\ crossed' = IF Unsent(a, f) THEN crossed \cup {f}
                  ELSE IF at = "send" THEN crossed \ {f} ELSE crossed

\* Where a goroutine goes on after it has sent what it had in hand.
Resume(a) ==
    LET next == [act[a] EXCEPT !.msg = Nothing, !.file = None] IN
    CASE act[a].op = "scan"  -> [act[a] EXCEPT !.at = "finish", !.msg = Nothing, !.rev = 0]
      [] act[a].op = "load"  -> [next EXCEPT !.at = "publish"]
      [] act[a].op = "parse" -> [next EXCEPT !.at = "next", !.rev = 0]
      [] OTHER -> Idle

Notify(a) ==
    /\ act[a].at = "send"
    /\ shown' = [shown EXCEPT ![act[a].file] = act[a].msg]
    /\ act' = [act EXCEPT ![a] = Resume(a)]
    /\ UNCHANGED <<outside, store, cancels, history>>

-----------------------------------------------------------------------------
(* didOpen and didClose *)

\* Mutant of DiagnosticsOpened: the open-only entries are not shown.
OpenedSilently(f) ==
    /\ open' = open \cup {f}
    /\ UNCHANGED <<act, crossed>>

\* diagnosticsOpened publishes if an open-only report has entries.
DiagnosticsOpened(f) ==
    /\ open' = open \cup {f}
    /\ IF listed[f] \cap OpenOnly # {}
       THEN Emit(Reader, [Idle EXCEPT !.op = "open"], f, "send")
       ELSE UNCHANGED <<act, crossed>>

DidOpen(f) ==
    /\ act[Reader] = Idle
    /\ f \notin open
    /\ UNCHANGED <<outside, lint, parse, listed, ran, known, cancels, shown, late, doubled>>
    /\ DiagnosticsOpened(f)

\* A scan of f that may still record what it finds.
Scanning(s, f) ==
    /\ act[s].op = "scan" /\ act[s].file = f
    /\ act[s].at \in {"start", "read", "lint"} => ~act[s].cancelled
    /\ act[s].at \in {"start", "read", "lint", "ran", "store"}

DiagnosticsClosed(f) ==
    /\ act[Reader] = Idle
    /\ f \in open
    /\ open' = open \ {f}
    /\ act' = [act EXCEPT ![Reader] =
                 [Idle EXCEPT !.op = "close", !.at = "unlint", !.file = f]]
    /\ late' = IF \E s \in Slots : Scanning(s, f) THEN late \cup {f} ELSE late \ {f}
    /\ UNCHANGED <<outside, lint, parse, listed, ran, known, cancels, shown,
                   crossed, doubled>>

ClearLint ==
    /\ At(Reader, "close", "unlint")
    /\ lint' = [lint EXCEPT ![act[Reader].file] = 0]
    /\ act' = [act EXCEPT ![Reader].at = "unparse"]
    /\ UNCHANGED <<outside, parse, listed, ran, known, open, cancels, shown, history>>

ClearParse(f) ==
    /\ At(Reader, "close", "unparse") /\ act[Reader].file = f
    /\ parse' = [parse EXCEPT ![f] = 0]
    /\ UNCHANGED <<outside, lint, listed, ran, known, open, cancels, shown, late, doubled>>
    /\ Emit(Reader, act[Reader], f, "send")

-----------------------------------------------------------------------------
(* CFLint on save *)

ScanJob(f) == [Idle EXCEPT !.op = "scan", !.at = "start", !.file = f]
LoadJob(R) == [Idle EXCEPT !.op = "load", !.at = "next", !.reports = R]

\* The editor saves f and says so.  A file a report has entries for has the
\* reports loaded again, since their lines may have moved.
DidSave(f) ==
    /\ act[Reader] = Idle
    /\ f \in open
    /\ disk[f] < MaxRev
    /\ disk' = [disk EXCEPT ![f] = @ + 1]
    /\ \E s \in Free :
         \/ /\ listed[f] = {}
            /\ act' = [act EXCEPT ![s] = ScanJob(f)]
         \/ /\ listed[f] # {}
            /\ \E t \in Free \ {s} :
                 act' = [act EXCEPT ![s] = ScanJob(f), ![t] = LoadJob(Reports)]
    /\ UNCHANGED <<report, store, cancels, shown, history>>

\* The scan in flight is cancelled, and this one can be from now on.  To a scan
\* that has looked, in Linted, being cancelled makes no difference any more.
Register(s) ==
    LET f == act[s].file IN
    /\ At(s, "scan", "start")
    /\ cancels' = [cancels EXCEPT ![f] = s]
    /\ act' = [a \in Actors |->
                 IF a = s THEN [act[s] EXCEPT !.at = "read"]
                 ELSE IF a = cancels[f] /\ act[a].at \in {"read", "lint"}
                 THEN [act[a] EXCEPT !.cancelled = TRUE]
                 ELSE act[a]]
    /\ UNCHANGED <<outside, store, shown, history>>

ReadText(s) ==
    /\ At(s, "scan", "read")
    /\ act' = [act EXCEPT ![s].at = "lint", ![s].rev = disk[act[s].file]]
    /\ UNCHANGED <<outside, store, cancels, shown, history>>

\* Mutant of Silenced: a cancelled scan's answer is used if there is one.
NeverSilenced(s) == FALSE

Silenced(s) == act[s].cancelled

\* The scan ends: cancelled, in an error, or with an answer.
Linted(s) ==
    /\ At(s, "scan", "lint")
    /\ \/ act' = [act EXCEPT ![s].at = "finish", ![s].rev = 0, ![s].cancelled = FALSE]
       \/ /\ ~Silenced(s)
          /\ act' = [act EXCEPT ![s].at = "ran", ![s].cancelled = FALSE]
    /\ UNCHANGED <<outside, store, cancels, shown, history>>

DiagnosticsRan(s) ==
    /\ At(s, "scan", "ran")
    /\ ran' = ran \cup {act[s].file}
    /\ act' = [act EXCEPT ![s].at = "store"]
    /\ UNCHANGED <<outside, lint, parse, listed, known, open, cancels, shown, history>>

StoreLint(s, f) ==
    /\ At(s, "scan", "store") /\ act[s].file = f
    /\ lint' = [lint EXCEPT ![f] = Found(act[s].rev)]
    /\ UNCHANGED <<outside, parse, listed, ran, known, open, cancels, shown, late, doubled>>
    /\ Emit(s, act[s], f, "send")

\* The deferred delete takes the entry whoever's it is.
FinishScan(s) ==
    /\ At(s, "scan", "finish")
    /\ cancels' = [cancels EXCEPT ![act[s].file] = None]
    /\ act' = [act EXCEPT ![s] = Idle]
    /\ UNCHANGED <<outside, store, shown, history>>

-----------------------------------------------------------------------------
(* The workspace parse scan *)

ScanWorkspace(s) ==
    /\ act[Reader] = Idle /\ s \in Free
    /\ act' = [act EXCEPT ![s] = [Idle EXCEPT !.op = "parse", !.at = "next", !.left = Files]]
    /\ UNCHANGED <<outside, store, cancels, shown, history>>

ParseFile(s) ==
    /\ At(s, "parse", "next")
    /\ \/ /\ act[s].left = {}
          /\ act' = [act EXCEPT ![s] = Idle]
       \/ \E f \in act[s].left :
            act' = [act EXCEPT ![s].left = @ \ {f}, ![s].file = f, ![s].rev = disk[f],
                      ![s].at = IF Found(disk[f]) = 0 THEN "parsed" ELSE "store"]
    /\ UNCHANGED <<outside, store, cancels, shown, history>>

\* A file that parses has its errors withdrawn, if any are recorded.
ParsesClean(s) ==
    /\ At(s, "parse", "parsed")
    /\ \/ /\ parse[act[s].file] # 0
          /\ act' = [act EXCEPT ![s].at = "store"]
       \/ /\ parse[act[s].file] = 0
          /\ act' = [act EXCEPT ![s].at = "next", ![s].file = None, ![s].rev = 0]
    /\ UNCHANGED <<outside, store, cancels, shown, history>>

StoreParse(s, f) ==
    /\ At(s, "parse", "store") /\ act[s].file = f
    /\ parse' = [parse EXCEPT ![f] = Found(act[s].rev)]
    /\ UNCHANGED <<outside, lint, listed, ran, known, open, cancels, shown, late, doubled>>
    /\ Emit(s, act[s], f, "send")

-----------------------------------------------------------------------------
(* Known-issues files *)

\* An edit, a deletion, or an export that writes the report.
ReportChanges(r, C) ==
    /\ C # report[r]
    /\ report' = [report EXCEPT ![r] = C]
    /\ UNCHANGED <<disk, store, cancels, shown, act, history>>

\* At the start all of them, later the one the client or an export reports.
Reload(s, R) ==
    /\ s \in Free
    /\ act' = [act EXCEPT ![s] = LoadJob(R)]
    /\ UNCHANGED <<outside, store, cancels, shown, history>>

\* Mutant of Outrun: a fresh report is newer than the run on an open file too.
OutrunAll == {}

\* What a fresh CFLint report leaves of ran: the runs on open files.
Outrun == ran \cap open

\* loadKnownIssuesFile, up to its first unlock.
BeginLoad(s, r) ==
    /\ At(s, "load", "next")
    /\ r \in act[s].reports
    /\ ran' = IF r \in LintReports THEN Outrun ELSE ran
    /\ act' = [act EXCEPT ![s].at = "read", ![s].report = r, ![s].reports = @ \ {r}]
    /\ doubled' = IF \E t \in Slots \ {s} : act[t].report = r
                  THEN doubled \cup {r} ELSE doubled
    /\ UNCHANGED <<outside, lint, parse, listed, known, open, cancels, shown,
                   crossed, late>>

ReadReport(s) ==
    /\ At(s, "load", "read")
    /\ act' = [act EXCEPT ![s].at = "prev", ![s].content = report[act[s].report]]
    /\ UNCHANGED <<outside, store, cancels, shown, history>>

\* Mutant of Published: what an edit removed is left as it is.
PublishedNow(s) == act[s].content

\* The files to publish to: those published to before, and those of today.
Published(s) == known[act[s].report] \cup act[s].content

ReadPrevious(s) ==
    /\ At(s, "load", "prev")
    /\ act' = [act EXCEPT ![s].at = "publish", ![s].left = Published(s)]
    /\ UNCHANGED <<outside, store, cancels, shown, history>>

\* What is gone is withdrawn first.
PublishEntries(s, f) ==
    LET r == act[s].report IN
    /\ At(s, "load", "publish")
    /\ f \in act[s].left
    /\ f \in act[s].content => act[s].left \subseteq act[s].content
    /\ listed' = [listed EXCEPT ![f] = IF f \in act[s].content THEN @ \cup {r} ELSE @ \ {r}]
    /\ UNCHANGED <<outside, lint, parse, ran, known, open, cancels, shown, late, doubled>>
    /\ Emit(s, [act[s] EXCEPT !.left = @ \ {f}], f,
            IF r \in OpenOnly THEN "ask" ELSE "send")

\* Entries of an open-only report are sent if the file is open by now.
AskOpen(s) ==
    /\ act[s].at = "ask"
    /\ act' = [act EXCEPT ![s] = IF @.file \in open THEN [@ EXCEPT !.at = "send"]
                                 ELSE Resume(s)]
    /\ UNCHANGED <<outside, store, cancels, shown, history>>

EndLoad(s) ==
    /\ At(s, "load", "publish")
    /\ act[s].left = {}
    /\ known' = [known EXCEPT ![act[s].report] = act[s].content]
    /\ act' = [act EXCEPT ![s] = IF @.reports = {} THEN Idle ELSE LoadJob(@.reports)]
    /\ UNCHANGED <<outside, lint, parse, listed, ran, open, cancels, shown, history>>

-----------------------------------------------------------------------------
Handle ==
    \/ \E f \in Files : DidOpen(f) \/ DidSave(f) \/ DiagnosticsClosed(f) \/ ClearParse(f)
    \/ ClearLint

Scan(s) ==
    \/ Register(s) \/ ReadText(s) \/ Linted(s) \/ DiagnosticsRan(s)
    \/ FinishScan(s)
    \/ \E f \in Files : StoreLint(s, f)

Parse(s) == ParseFile(s) \/ ParsesClean(s) \/ \E f \in Files : StoreParse(s, f)

Load(s) ==
    \/ \E r \in Reports : BeginLoad(s, r)
    \/ ReadReport(s) \/ ReadPrevious(s)
    \/ \E f \in Files : PublishEntries(s, f)
    \/ AskOpen(s) \/ EndLoad(s)

Next ==
    \/ Handle
    \/ \E a \in Actors : Notify(a)
    \/ \E s \in Slots : Scan(s) \/ Parse(s) \/ Load(s) \/ ScanWorkspace(s)
    \/ \E s \in Slots, R \in {Reports} \cup {{r} : r \in Reports} : Reload(s, R)
    \/ \E r \in Reports, C \in SUBSET Files : ReportChanges(r, C)

Spec == Init /\ [][Next]_vars

-----------------------------------------------------------------------------
(* Properties *)

\* Nobody is working on any file.
Quiet == \A a \in Actors : act[a] = Idle

\* The CFLint reports of workspace scope, if there is another CFLint report:
\* loading that takes back the run that hides the entries of this one, of which
\* nothing is published.
Uncovered == {r \in LintReports \ OpenOnly : LintReports # {r}}

\* diagnosticsFor: "the merged set the server last published": the client
\* shows what the store holds, unless the last publishes of the file crossed
\* between the store's lock and the connection, or a report it is in was
\* loaded twice at once or can be uncovered by another.
ClientAgrees ==
    Quiet => \A f \in Files \ crossed :
               listed[f] \cap (doubled \cup Uncovered) = {} => shown[f] = Merged(f)

\* A report's bookkeeping covers its entries, so that the next load can
\* withdraw every one of them.
KnownCoversEntries ==
    Quiet => \A r \in Reports \ doubled : known[r] = {f \in Files : r \in listed[f]}

\* "Closing a file clears its CFLint diagnostics", scans cancelled before the
\* close included, unless one was running that could still record its answer.
ClosedHasNoLint == Quiet => \A f \in Files \ (open \cup late) : lint[f] = 0

\* A file's issues from CFLint and from a CFLint report both.
Twice(f) == Merged(f).lint # 0 /\ Merged(f).listed \cap LintReports # {}

\* Once CFLint has run, the reports' entries stay hidden as long as its own
\* are there, whatever is loaded, opened and closed meanwhile.
TwiceOnlyWhenLate == Quiet => \A f \in Files \ late : ~Twice(f)

=============================================================================
