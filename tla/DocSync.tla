------------------------------ MODULE DocSync ------------------------------
(***************************************************************************)
(* One document in one session: internal/server's handlers for it, the     *)
(* reparse didChange defers, the two timers, the goroutines the handlers   *)
(* start, and the watched-file and workspace scans that touch the same     *)
(* state without the document's lock.                                      *)
(*                                                                         *)
(* A text is its revision and the revision its signatures date from: an    *)
(* edit inside a function body makes a new revision with the old           *)
(* signatures.  A ParseResult is the text its scopes and functions         *)
(* describe.  What is done holding the document's lock is two actions,     *)
(* Enter (with the flush lockDoc does) and the operation's own, which also *)
(* releases; everything that takes no lock may come between and around.    *)
(***************************************************************************)
EXTENDS Naturals, FiniteSets

CONSTANTS
    Slots,                \* goroutines that can run at once (a bound)
    Reader,               \* the goroutine that reads the connection
    EditKinds,            \* "func", "global", and "escape": see Apply
    Externals,            \* which of "disk", "scan", "restart" happen
    Burst,                \* changes in a window before it is a burst
    MaxRev                \* revisions that are made at most (a bound)

ASSUME DocAssumption ==
    /\ Reader \notin Slots
    /\ EditKinds \subseteq {"func", "global", "escape"}
    /\ Burst \in Nat
    /\ MaxRev \in Nat \ {0}

Actors == Slots \cup {Reader}
Text   == [rev : 0..MaxRev, sig : 0..MaxRev]
NoText == [rev |-> 0, sig |-> 0]

VARIABLES
    disk,                 \* the file, NoText when there is none
    doc,                  \* s.documents
    parse,                \* s.parseResults: the text it describes
    ranges,               \* s.funcRanges: the text they were taken from
    pending,              \* s.reparsePending
    changes,              \* s.changeCount, 0 when there is no entry
    reparseTimer,         \* the reindex timer is armed
    cacheTimer,           \* the cache timer is armed, and its captured text
    index,                \* the signatures the index holds, 0 for none
    comp,                 \* s.compCache: revision of file and function scope
    entry,                \* s.docLocks' mutex for the document, 0 for none
    minted,               \* mutexes made
    lastRev,              \* revisions made
    act                   \* what each goroutine is doing

texts == <<disk, lastRev>>
held  == <<doc, parse, ranges, pending, changes>>
locks == <<entry, minted>>
vars  == <<texts, held, reparseTimer, cacheTimer, index, comp, locks, act>>

NoCache == [file |-> 0, func |-> 0]

\* live: the captured ParseResult is still the one in s.parseResults;
\* otherwise own is the text it stopped at.
Idle == [op |-> "none", at |-> "idle", mutex |-> 0, own |-> NoText, live |-> FALSE]

Handlers   == {"open", "change", "close", "query"}
Background == {"reparse", "cache", "opened", "saved"}
Lockless   == {"changed", "deleted", "scan"}

\* didChange and didClose take the lock with lockDocOnly.
Flushing == {"open", "query"} \cup Background

Doing ==
    [op : {"none"} \cup Handlers \cup Background \cup Lockless,
     at : {"idle", "start", "waiting", "in", "checked", "read", "drop", "invalidate"},
     mutex : Nat, own : Text, live : BOOLEAN]

TypeOK ==
    /\ disk \in Text /\ doc \in Text /\ parse \in Text
    /\ ranges \in Text /\ cacheTimer \in Text
    /\ pending \in BOOLEAN /\ reparseTimer \in BOOLEAN
    /\ changes \in 0..(Burst + 1)
    /\ index \in 0..MaxRev
    /\ comp \in [file : 0..MaxRev, func : 0..MaxRev]
    /\ entry \in Nat
    /\ minted \in Nat
    /\ lastRev \in 0..MaxRev
    /\ act \in [Actors -> Doing]

Init ==
    /\ disk = [rev |-> 1, sig |-> 1]
    /\ lastRev = 1
    /\ doc = NoText /\ parse = NoText /\ ranges = NoText
    /\ pending = FALSE /\ reparseTimer = FALSE /\ cacheTimer = NoText
    /\ changes = 0
    /\ index \in {0, 1}
    /\ comp = NoCache
    /\ entry = 0
    /\ minted = 0
    /\ act = [a \in Actors |-> Idle]

Open == doc # NoText

\* A job occupies a free slot; a goroutine that finishes leaves its own.
Job(op, own, live) ==
    [op |-> op, at |-> "start", mutex |-> 0, own |-> own, live |-> live]
Free == {s \in Slots : act[s] = Idle}

\* s.parseResults loses its entry: whoever captured the pointer keeps it.
Detached(f) ==
    [a \in Actors |-> IF f[a].live
                      THEN [f[a] EXCEPT !.live = FALSE, !.own = parse]
                      ELSE f[a]]

-----------------------------------------------------------------------------
(* The document's lock *)

\* lockDocOnly's first half: under s.mu, the map's mutex or a new one.  The
\* reparse timer's goroutine first forgets the change window.
Ask(a) ==
    /\ act[a].at = "start"
    /\ act[a].op \in Handlers \cup Background
    /\ minted' = IF entry = 0 THEN minted + 1 ELSE minted
    /\ entry' = IF entry = 0 THEN minted + 1 ELSE entry
    /\ act' = [act EXCEPT ![a].at = "waiting", ![a].mutex = entry']
    /\ changes' = IF act[a].op = "reparse" THEN 0 ELSE changes
    /\ UNCHANGED <<texts, doc, parse, ranges, pending, reparseTimer,
                   cacheTimer, index, comp>>

Holders == {a \in Actors : act[a].at = "in"}

\* Mutants of Flush: the owed reparse is forgotten unless the parse was
\* asked for; and the function ranges and the parse are caught up, the index
\* is not.
FlushForgets ==
    /\ pending' = FALSE
    /\ UNCHANGED <<parse, ranges, index>>

FlushParseOnly ==
    /\ pending' = FALSE
    /\ LET due == pending /\ Open /\ parse # NoText IN
       /\ parse' = IF due THEN doc ELSE parse
       /\ ranges' = IF due THEN doc ELSE ranges
       /\ UNCHANGED index

\* flushReparse.  Its writes to the ranges and the index are one step with
\* the rest: they commute with every step that takes no lock.
Flush ==
    /\ pending' = FALSE
    /\ LET due == pending /\ Open /\ parse # NoText IN
       /\ parse' = IF due THEN doc ELSE parse
       /\ ranges' = IF due THEN doc ELSE ranges
       /\ index' = IF due THEN doc.sig ELSE index

\* The mutex is taken; lockDoc also brings the parse up to date.
Enter(a) ==
    /\ act[a].at = "waiting"
    /\ \A b \in Holders : act[b].mutex # act[a].mutex
    /\ act' = [act EXCEPT ![a].at = "in"]
    /\ IF act[a].op \in Flushing THEN Flush
       ELSE UNCHANGED <<parse, ranges, pending, index>>
    /\ UNCHANGED <<texts, doc, changes, reparseTimer, cacheTimer, comp, locks>>

-----------------------------------------------------------------------------
(* The reader: notifications and requests, one at a time *)

\* The client opens what is closed; everything else is about an open document.
\* What makes a text waits for a revision to be left.
Receive(op) ==
    /\ act[Reader] = Idle
    /\ Open <=> op # "open"
    /\ op \in {"open", "change"} => lastRev < MaxRev
    /\ act' = [act EXCEPT ![Reader] = Job(op, NoText, FALSE)]
    /\ UNCHANGED <<texts, held, reparseTimer, cacheTimer, index, comp, locks>>

\* A text nobody has had before, its signatures new as well.
NewText == [rev |-> lastRev + 1, sig |-> lastRev + 1]

\* handleDidOpen: the text on disk, or unsaved work the editor kept.
DidOpen(s) ==
    /\ act[Reader].op = "open" /\ act[Reader].at = "in"
    /\ s \in Free
    /\ \/ doc' = disk /\ disk # NoText /\ UNCHANGED lastRev
       \/ doc' = NewText /\ lastRev < MaxRev /\ lastRev' = lastRev + 1
    /\ parse' = doc'
    /\ ranges' = doc'
    /\ index' = doc'.sig
    /\ act' = [act EXCEPT ![Reader] = Idle, ![s] = Job("opened", NoText, TRUE)]
    /\ UNCHANGED <<disk, pending, changes, reparseTimer, cacheTimer, comp, locks>>

\* The changes of one notification, in order.
Notifications == UNION {[1..n -> EditKinds] : n \in 1..2}
InFunction(c) == \A i \in DOMAIN c : c[i] # "global"

\* Mutant of Apply: every change of the notification makes a text of its own.
ApplyEach(c) == [rev |-> lastRev + Cardinality(DOMAIN c), sig |-> doc.sig]

\* The edited text.  An edit inside a function body keeps the signatures,
\* unless it closes the function early ("escape").
Apply(c) ==
    [rev |-> lastRev + 1,
     sig |-> IF \A i \in DOMAIN c : c[i] = "func" THEN doc.sig ELSE lastRev + 1]

\* editsInPlace, and handleDidChange's own check of the changes that follow.
EditsInPlace(c) == parse # NoText /\ ~pending /\ InFunction(c)

\* Mutant of ScheduleReparse: only the first change of a window arms the timer.
ScheduleReparseOnce ==
    /\ pending' = TRUE
    /\ reparseTimer' = (reparseTimer \/ changes = 0)

\* scheduleReparse: mark, and (re)arm the timer.
ScheduleReparse ==
    /\ pending' = TRUE
    /\ reparseTimer' = TRUE

\* handleDidChange with changes c.  fresh: the last window is over.  many:
\* more than 50 changes.  A text that arrives with a reparse owed, or needs
\* one, is applied alone; with no parse the whole text is parsed; an edit
\* inside functions is made in the parse itself.
DidChange(c, fresh, many) ==
    LET n     == IF fresh \/ changes = 0 THEN 1 ELSE changes + 1
        rapid == many \/ (n > Burst /\ ~EditsInPlace(c))
    IN
    /\ act[Reader].op = "change" /\ act[Reader].at = "in"
    /\ lastRev < MaxRev
    /\ lastRev' = lastRev + 1
    /\ changes' = IF n > Burst THEN Burst + 1 ELSE n
    /\ doc' = Apply(c)
    /\ \/ /\ rapid \/ (parse # NoText /\ ~EditsInPlace(c))
          /\ ScheduleReparse
          /\ UNCHANGED <<parse, ranges, index, cacheTimer>>
       \/ /\ ~rapid /\ parse = NoText
          /\ parse' = doc'
          /\ ranges' = doc'
          /\ index' = doc'.sig
          /\ UNCHANGED <<pending, reparseTimer, cacheTimer>>
       \/ /\ ~rapid /\ EditsInPlace(c)
          /\ parse' = [doc' EXCEPT !.sig = parse.sig]
          /\ cacheTimer' = doc'
          /\ UNCHANGED <<pending, reparseTimer, ranges, index>>
    /\ act' = [act EXCEPT ![Reader] = Idle]
    /\ UNCHANGED <<disk, comp, locks>>

\* Mutant of ForgetLock: the mutex goes with the document.
DropLock == entry' = 0

ForgetLock == UNCHANGED entry

\* handleDidClose, as far as its release of the lock.
DidClose ==
    /\ act[Reader].op = "close" /\ act[Reader].at = "in"
    /\ doc' = NoText /\ parse' = NoText /\ ranges' = NoText
    /\ pending' = FALSE /\ reparseTimer' = FALSE /\ cacheTimer' = NoText
    /\ changes' = 0
    /\ comp' = NoCache
    /\ ForgetLock
    /\ act' = [Detached(act) EXCEPT ![Reader] = Idle]
    /\ UNCHANGED <<texts, index, minted>>

\* Any handler that answers from the parse: hover, symbols, definition.
Query ==
    /\ act[Reader].op = "query" /\ act[Reader].at = "in"
    /\ act' = [act EXCEPT ![Reader] = Idle]
    /\ UNCHANGED <<texts, held, reparseTimer, cacheTimer, index, comp, locks>>

\* handleDidSave: the editor has written the file; only the completion
\* cache's rebuild concerns this module.
DidSave(s) ==
    /\ act[Reader] = Idle /\ Open
    /\ s \in Free
    /\ disk' = doc
    /\ act' = [act EXCEPT ![s] = Job("saved", NoText, FALSE)]
    /\ UNCHANGED <<lastRev, held, reparseTimer, cacheTimer, index, comp, locks>>

-----------------------------------------------------------------------------
(* Timers and background goroutines *)

FireReparse(s) ==
    /\ reparseTimer /\ s \in Free
    /\ reparseTimer' = FALSE
    /\ act' = [act EXCEPT ![s] = Job("reparse", NoText, FALSE)]
    /\ UNCHANGED <<texts, held, cacheTimer, index, comp, locks>>

FireCache(s) ==
    /\ cacheTimer # NoText /\ s \in Free
    /\ cacheTimer' = NoText
    /\ act' = [act EXCEPT ![s] = Job("cache", cacheTimer, FALSE)]
    /\ UNCHANGED <<texts, held, reparseTimer, index, comp, locks>>

\* The reparse timer's goroutine releases what lockDoc took.
Reparsed(s) ==
    /\ act[s].op = "reparse" /\ act[s].at = "in"
    /\ act' = [act EXCEPT ![s] = Idle]
    /\ UNCHANGED <<texts, held, reparseTimer, cacheTimer, index, comp, locks>>

\* Mutant of RebuildFunc: the ranges are not asked whether there is a function.
RebuildFuncAlways(s) ==
    comp' = [comp EXCEPT !.func = act[s].own.rev]

\* rebuildCompletionCache: the edited function's variables, from the parse or,
\* without one, from the text the timer was armed with.
RebuildFunc(s) ==
    comp' = IF ranges = NoText THEN comp
            ELSE [comp EXCEPT !.func = IF parse # NoText THEN parse.rev
                                                         ELSE act[s].own.rev]

CacheRebuilt(s) ==
    /\ act[s].op = "cache" /\ act[s].at = "in"
    /\ RebuildFunc(s)
    /\ act' = [act EXCEPT ![s] = Idle]
    /\ UNCHANGED <<texts, held, reparseTimer, cacheTimer, index, locks>>

\* didOpen's goroutine: the file scope, from the ParseResult didOpen made.
OpenRebuilt(s) ==
    /\ act[s].op = "opened" /\ act[s].at = "in"
    /\ comp' = [comp EXCEPT !.file = IF act[s].live THEN parse.rev ELSE act[s].own.rev]
    /\ act' = [act EXCEPT ![s] = Idle]
    /\ UNCHANGED <<texts, held, reparseTimer, cacheTimer, index, locks>>

\* Mutant of Reparse: the text is not asked whether it is still there.
ReparseUnasked == IF parse # NoText THEN parse ELSE disk

\* rebuildFileCompletionCache's ParseResult: the cached one, else a new one of
\* the text, if the document is still open.
Reparse == IF parse # NoText THEN parse ELSE doc

SaveRebuilt(s) ==
    /\ act[s].op = "saved" /\ act[s].at = "in"
    /\ parse' = Reparse
    /\ comp' = IF Reparse = NoText THEN comp ELSE [comp EXCEPT !.file = Reparse.rev]
    /\ act' = [act EXCEPT ![s] = Idle]
    /\ UNCHANGED <<texts, doc, ranges, pending, changes, reparseTimer,
                   cacheTimer, index, locks>>

-----------------------------------------------------------------------------
(* What happens to the file and the workspace without the document's lock *)

\* Something other than the editor replaces or deletes the file.  (The last
\* revision is left to the reader.)
DiskChanges ==
    /\ "disk" \in Externals
    /\ \/ disk' = NewText /\ lastRev + 1 < MaxRev /\ lastRev' = lastRev + 1
       \/ disk # NoText /\ disk' = NoText /\ UNCHANGED lastRev
    /\ UNCHANGED <<held, reparseTimer, cacheTimer, index, comp, locks, act>>

\* The client reports the file; each notification is applied by a goroutine.
Watched(s) ==
    /\ "disk" \in Externals
    /\ s \in Free
    /\ act' = [act EXCEPT ![s] =
                 Job(IF disk = NoText THEN "deleted" ELSE "changed", NoText, FALSE)]
    /\ UNCHANGED <<texts, held, reparseTimer, cacheTimer, index, comp, locks>>

\* clif.reindex: a workspace scan reaches the file.
Reindex(s) ==
    /\ "scan" \in Externals
    /\ act[Reader] = Idle /\ s \in Free
    /\ act' = [act EXCEPT ![s] = Job("scan", NoText, FALSE)]
    /\ UNCHANGED <<texts, held, reparseTimer, cacheTimer, index, comp, locks>>

\* clif.restartDaemon: the caches are emptied and a scan starts.
Restart(s) ==
    /\ "restart" \in Externals
    /\ act[Reader] = Idle /\ s \in Free
    /\ parse' = NoText /\ ranges' = NoText
    /\ comp' = NoCache
    /\ act' = [Detached(act) EXCEPT ![s] = Job("scan", NoText, FALSE)]
    /\ UNCHANGED <<texts, doc, pending, changes, reparseTimer, cacheTimer,
                   index, locks>>

\* A deletion is applied whether or not the document is open.
RemoveDeleted(s) ==
    /\ act[s].op = "deleted" /\ act[s].at = "start"
    /\ index' = 0
    /\ act' = [act EXCEPT ![s].at = "drop"]
    /\ UNCHANGED <<texts, held, reparseTimer, cacheTimer, comp, locks>>

\* getDocument: an open document is the editor's to report.
CheckOpen(s) ==
    /\ act[s].op \in {"changed", "scan"} /\ act[s].at = "start"
    /\ act' = [act EXCEPT ![s] = IF Open THEN Idle ELSE [@ EXCEPT !.at = "checked"]]
    /\ UNCHANGED <<texts, held, reparseTimer, cacheTimer, index, comp, locks>>

\* The file is read.  A watched file that cannot be is removed from the
\* index; the scan skips it.
ReadFile(s) ==
    /\ act[s].at = "checked"
    /\ \/ /\ disk # NoText
          /\ act' = [act EXCEPT ![s].at = "read", ![s].own = disk]
          /\ UNCHANGED index
       \/ /\ disk = NoText /\ act[s].op = "changed"
          /\ index' = 0
          /\ act' = [act EXCEPT ![s].at = "drop"]
       \/ /\ disk = NoText /\ act[s].op = "scan"
          /\ act' = [act EXCEPT ![s] = Idle]
          /\ UNCHANGED index
    /\ UNCHANGED <<texts, held, reparseTimer, cacheTimer, comp, locks>>

\* applyIndexResult; the watched-file path then drops the file's caches.
ApplyIndexResult(s) ==
    /\ act[s].at = "read"
    /\ index' = act[s].own.sig
    /\ act' = [act EXCEPT ![s] = IF @.op = "scan" THEN Idle
                                 ELSE [@ EXCEPT !.at = "drop", !.own = NoText]]
    /\ UNCHANGED <<texts, held, reparseTimer, cacheTimer, comp, locks>>

\* dropFileCaches: first the server's maps, then the completion cache.
DropFileCaches(s) ==
    /\ act[s].at = "drop"
    /\ parse' = NoText /\ ranges' = NoText
    /\ act' = [Detached(act) EXCEPT ![s].at = "invalidate"]
    /\ UNCHANGED <<texts, doc, pending, changes, reparseTimer, cacheTimer,
                   index, comp, locks>>

InvalidateFile(s) ==
    /\ act[s].at = "invalidate"
    /\ comp' = NoCache
    /\ act' = [act EXCEPT ![s] = Idle]
    /\ UNCHANGED <<texts, held, reparseTimer, cacheTimer, index, locks>>

-----------------------------------------------------------------------------
Handle ==
    \/ \E op \in Handlers : Receive(op)
    \/ \E s \in Slots : DidOpen(s) \/ DidSave(s)
    \/ \E c \in Notifications, fresh, many \in BOOLEAN : DidChange(c, fresh, many)
    \/ DidClose
    \/ Query

Rebuild(s) == Reparsed(s) \/ CacheRebuilt(s) \/ OpenRebuilt(s) \/ SaveRebuilt(s)

Scan(s) ==
    \/ RemoveDeleted(s) \/ CheckOpen(s) \/ ReadFile(s) \/ ApplyIndexResult(s)
    \/ DropFileCaches(s) \/ InvalidateFile(s)

Next ==
    \/ Handle
    \/ DiskChanges
    \/ \E a \in Actors : Ask(a) \/ Enter(a)
    \/ \E s \in Slots :
         \/ FireReparse(s) \/ FireCache(s)
         \/ Rebuild(s) \/ Scan(s)
         \/ Watched(s) \/ Reindex(s) \/ Restart(s)

Spec == Init /\ [][Next]_vars

\* A goroutine that can run does, a handler finishes, an armed timer fires.
\* Go's mutex hands itself to whoever has waited longest once anyone has
\* waited a millisecond, hence strong fairness for Enter; the timers' strong
\* fairness is for the slots, which the code does not have.
FairSpec ==
    /\ Spec
    /\ \A a \in Actors : WF_vars(Ask(a)) /\ SF_vars(Enter(a))
    /\ WF_vars(Handle /\ act[Reader].at = "in")
    /\ \A s \in Slots : WF_vars(Rebuild(s) \/ Scan(s))
    /\ SF_vars(\E s \in Slots : FireReparse(s))
    /\ SF_vars(\E s \in Slots : FireCache(s))

-----------------------------------------------------------------------------
(* Properties *)

\* lockDoc's promise: whoever takes the lock with it reads a parse of the text
\* the client has, whatever was deferred, dropped or saved meanwhile.
ReadersSeeTheText ==
    \A a \in Holders :
        act[a].op \in Flushing /\ Open /\ parse # NoText => parse = doc

\* The document's lock excludes, across any number of closes and reopens, the
\* goroutines of an earlier opening from those of a later one.
OneHolder == \A a, b \in Holders : a = b

\* didClose, whatever is still running, leaves no parse, no ranges, no owed
\* reparse, no armed timer and no function scope behind, and nothing that was
\* running brings one back.
ClosedHoldsNothing ==
    ~Open => /\ parse = NoText /\ ranges = NoText
             /\ ~pending /\ changes = 0
             /\ ~reparseTimer /\ cacheTimer = NoText
             /\ comp.func = 0

\* An owed reparse does not depend on anybody asking: a timer is armed for it
\* or has fired and its goroutine is on its way.
OwedIsScheduled ==
    pending => \/ reparseTimer
               \/ \E s \in Slots : act[s].op = "reparse" /\ act[s].at \in {"start", "waiting"}

\* The index describes the open document again after any run of edits, with or
\* without a request to ask for it.
IndexCatchesUp == (Open /\ index # doc.sig) ~> (~Open \/ index = doc.sig)

\* scheduleReparse: "The timer covers the case where nothing asks, so the
\* index is current within reparseDelay": when the owed reparse of a document
\* that stays open is settled, the index describes the document.
OwedReparseIsPaid ==
    [][pending /\ ~pending' /\ Open /\ doc' = doc => index' = doc.sig]_vars

\* applyWatchedFileChange: "An open document's buffer outranks what is on
\* disk".  While a document stays as it is, the index only moves towards it.
BufferOutranksDisk ==
    [][Open /\ doc' = doc /\ index' # index => index' = doc.sig]_vars

=============================================================================
