---------------------------- MODULE SourceCaches ----------------------------
(***************************************************************************)
(* What a session remembers about the files it resolved a component from.  *)
(* Three caches are filled by whoever asks, after reading without a lock:  *)
(* the application's mappings, which the sessions of a process share       *)
(* (path.LoadAppMappings), a resolver's paths and directory listings       *)
(* (resolve.Resolver), and what a file extends (the index).  They are      *)
(* dropped when the client reports that files changed.                     *)
(*                                                                         *)
(* One component is asked for, from one directory, by several goroutines:  *)
(* handlers, timers, scans and commands.  A place is a directory where the *)
(* component may be.  Resolvers are objects of the heap; one that nobody   *)
(* refers to any more is swept.                                            *)
(***************************************************************************)
EXTENDS Naturals, FiniteSets

CONSTANTS
  Folders,      \* directories the editor may have open, naturals from 1
  Targets,      \* directories the application may map to, naturals from 1
  Parents,      \* what a component may say it extends
  Discovery,    \* places whose files bean discovery depends on
  Queries,      \* goroutines that ask
  Reporters,    \* goroutines that apply a report of changed files
  Resolvers,    \* resolver objects
  Nothing,      \* no mapping, no file, no path, no object, not cached
  MaxChanges    \* bound on the changes to files and folders

\* Where the component may be.
Places == Folders \cup Targets

\* The folders have an order: of some of them, one comes first.
Lowest(S) == CHOOSE p \in S : \A k \in S : p <= k

ASSUME SourcesAssumption ==
  /\ Places \subseteq Nat \ {0} /\ Discovery \subseteq Places /\ MaxChanges \in Nat
  /\ Nothing \notin Places \cup Parents \cup Resolvers

\* A cached value, or that nothing is cached, and whether it was found by a
\* query that a change or a report overlapped (the code does not know that).
Entry(Values) == [known : BOOLEAN, value : Values \cup {Nothing}, late : BOOLEAN]

VARIABLES
  files,      \* [Places -> what the file there extends, or Nothing]
  mapping,    \* where Application.cfc maps the component's prefix, or Nothing
  roots,      \* the folders the editor has open
  changes,    \* how many changes were made
  news,       \* places, or Application: changed and not yet reported
  mappings,   \* appMappingsCache
  extends,    \* Index.extends
  resolver,   \* Server.resolver
  heap,       \* [Resolvers -> [roots, path, listing]]: listing is the DirCache
  query,      \* [Queries -> [pc, r, map, found, late]]
  report      \* [Reporters -> [pc, batch, todo, r]]

disk == <<files, mapping, roots, changes>>
vars == <<disk, news, mappings, extends, resolver, heap, query, report>>

-----------------------------------------------------------------------------
Application == 0    \* Application.cfc and what it takes its mappings from
Unknown == [known |-> FALSE, value |-> Nothing, late |-> FALSE]
Known(v, late) == [known |-> TRUE, value |-> v, late |-> late]
Idle == [pc |-> "idle", r |-> Nothing, map |-> Nothing,
         found |-> Nothing, late |-> FALSE]
Waiting == [pc |-> "idle", batch |-> {}, todo |-> {}, r |-> Nothing]

\* componentPathUncached: the mapping is tried first, then the roots in order,
\* on what is known to be there.
Answer(map, among, there) ==
  IF map \in there THEN map
  ELSE IF among \cap there # {} THEN Lowest(among \cap there) ELSE Nothing

There == {p \in Places : files[p] # Nothing}

\* No change waits to be reported, and no report is being applied.
Quiet == news = {} /\ \A w \in Reporters : report[w].pc = "idle"

\* A resolver that has nothing cached, and the places its listings hold.
Fresh(among) == [roots |-> among, path |-> Unknown, listing |-> [names |-> {}, late |-> FALSE]]

\* Resolvers that somebody refers to, and the heap without the others.
Held == {resolver} \cup {query[q].r : q \in Queries} \cup {report[w].r : w \in Reporters}
Swept(h) == [r \in Resolvers |-> IF r \in Held' THEN h[r] ELSE Fresh({})]

\* Whoever is asking now is overlapped.
Overlapped == [q \in Queries |-> IF query[q].pc = "idle" THEN query[q]
                                 ELSE [query[q] EXCEPT !.late = TRUE]]

\* getResolver: r is the session's resolver, built if there is none, with the
\* roots of that moment.
GetResolver(r) ==
  \/ resolver # Nothing /\ r = resolver /\ UNCHANGED <<resolver, heap>>
  \/ /\ resolver = Nothing /\ r \in Resolvers \ Held
     /\ resolver' = r
     /\ heap' = [heap EXCEPT ![r] = Fresh(roots)]

Init ==
  /\ files \in [Places -> Parents \cup {Nothing}] /\ mapping \in Targets \cup {Nothing}
  /\ roots \in SUBSET Folders /\ changes = 0 /\ news = {}
  /\ mappings = Unknown /\ extends = [p \in Places |-> Unknown]
  /\ resolver = Nothing
  /\ heap = [r \in Resolvers |-> Fresh({})]
  /\ query = [q \in Queries |-> Idle]
  /\ report = [w \in Reporters |-> Waiting]

-----------------------------------------------------------------------------
(* The files and the editor.                                               *)

\* A component is written, changed or deleted.
ChangeFile(p) ==
  /\ changes < MaxChanges /\ changes' = changes + 1
  /\ \E what \in (Parents \cup {Nothing}) \ {files[p]} : files' = [files EXCEPT ![p] = what]
  /\ news' = news \cup {p}
  /\ query' = Overlapped
  /\ UNCHANGED <<mapping, roots, mappings, extends, resolver, heap, report>>

\* Application.cfc, or a file it takes its mappings from, is changed.
ChangeApplication ==
  /\ changes < MaxChanges /\ changes' = changes + 1
  /\ mapping' \in (Targets \cup {Nothing}) \ {mapping}
  /\ news' = news \cup {Application}
  /\ query' = Overlapped
  /\ UNCHANGED <<files, roots, mappings, extends, resolver, heap, report>>

\* handleDidChangeWorkspaceFolders, as far as the caches: a resolver keeps the
\* roots it was built with.
ChangeFolders ==
  /\ changes < MaxChanges /\ changes' = changes + 1
  /\ \E p \in Folders : roots' = IF p \in roots THEN roots \ {p} ELSE roots \cup {p}
  /\ UNCHANGED <<files, mapping, news, mappings, extends, resolver, heap, query, report>>

-----------------------------------------------------------------------------
(* ComponentPath, and what the file it finds extends.                      *)

Ask(q) ==
  /\ query[q].pc = "idle"
  /\ \E r \in Resolvers :
       GetResolver(r) /\ query' = [query EXCEPT ![q] =
                           [Idle EXCEPT !.pc = "look", !.r = r, !.late = ~Quiet]]
  /\ UNCHANGED <<disk, news, mappings, extends, report>>

\* The path is cached, or has to be worked out.
Look(q) ==
  /\ query[q].pc = "look"
  /\ LET e == heap[query[q].r].path IN
       query' = [query EXCEPT ![q] =
         IF e.known THEN [@ EXCEPT !.pc = "parent", !.found = e.value, !.late = query[q].late \/ e.late]
         ELSE [@ EXCEPT !.pc = "mapping"]]
  /\ UNCHANGED <<disk, news, mappings, extends, resolver, heap, report>>

\* LoadAppMappings: cached, or read from the application's files.
GetMapping(q) ==
  /\ query[q].pc = "mapping"
  /\ query' = [query EXCEPT ![q] =
       IF mappings.known
       THEN [@ EXCEPT !.pc = "search", !.map = mappings.value, !.late = query[q].late \/ mappings.late]
       ELSE [@ EXCEPT !.pc = "keep", !.map = mapping]]
  /\ UNCHANGED <<disk, news, mappings, extends, resolver, heap, report>>

KeepMapping(q) ==
  /\ query[q].pc = "keep"
  /\ mappings' = Known(query[q].map, query[q].late)
  /\ query' = [query EXCEPT ![q].pc = "search"]
  /\ UNCHANGED <<disk, news, extends, resolver, heap, report>>

\* The directories are listed through the resolver's DirCache: a listing in
\* which a name was found is kept and believed, a directory in which it was not
\* is listed again.
Search(q) ==
  /\ query[q].pc = "search"
  /\ LET r     == query[q].r
         l     == heap[r].listing
         there == There \cup l.names
         found == Answer(query[q].map, heap[r].roots, there)
         late  == query[q].late \/ l.late
     IN /\ query' = [query EXCEPT ![q] = [@ EXCEPT !.pc = "store", !.map = Nothing,
                                                  !.found = found, !.late = late]]
        /\ heap' = [heap EXCEPT ![r].listing = [names |-> l.names \cup ({found} \cap there),
                                                late |-> late]]
  /\ UNCHANGED <<disk, news, mappings, extends, resolver, report>>

Store(q) ==
  /\ query[q].pc = "store"
  /\ heap' = [heap EXCEPT ![query[q].r].path = Known(query[q].found, query[q].late)]
  /\ query' = [query EXCEPT ![q].pc = "parent"]
  /\ UNCHANGED <<disk, news, mappings, extends, resolver, report>>

\* declaredExtendsOf: recorded, or read from the file and parsed.  `map` holds
\* what was read.
LookExtends(q) ==
  /\ query[q].pc = "parent"
  /\ LET p == query[q].found IN
       query' = [query EXCEPT ![q] =
         IF p = Nothing \/ files[p] = Nothing \/ extends[p].known THEN Idle
         ELSE [@ EXCEPT !.pc = "record", !.r = Nothing, !.map = files[p]]]
  /\ UNCHANGED <<disk, news, mappings, extends, resolver, report>>
  /\ heap' = Swept(heap)

\* Index.SetExtends.
RecordExtends(q) ==
  /\ query[q].pc = "record"
  /\ extends' = [extends EXCEPT ![query[q].found] = Known(query[q].map, query[q].late)]
  /\ query' = [query EXCEPT ![q] = Idle]
  /\ UNCHANGED <<disk, news, mappings, resolver, heap, report>>

-----------------------------------------------------------------------------
(* applyWatchedFileChanges, a goroutine for each notification.             *)

Report(w) ==
  /\ report[w].pc = "idle"
  /\ \E batch \in (SUBSET news) \ {{}} :
       /\ news' = news \ batch
       /\ report' = [report EXCEPT ![w] = [pc |-> "files", batch |-> batch,
                                           todo |-> batch \cap Places, r |-> Nothing]]
  /\ query' = Overlapped
  /\ UNCHANGED <<disk, mappings, extends, resolver, heap>>

\* The file is indexed again, or removed: either forgets what it extends.
Refile(w) ==
  /\ report[w].pc = "files"
  /\ \E p \in report[w].todo :
       /\ extends' = [extends EXCEPT ![p] = Unknown]
       /\ report' = [report EXCEPT ![w].todo = @ \ {p}]
  /\ query' = Overlapped
  /\ UNCHANGED <<disk, news, mappings, resolver, heap>>

\* Application files, and what discovery read, replace the resolver.
Discovered(batch) == batch \cap ({Application} \cup Discovery) # {}

DropResolver(w) ==
  /\ report[w].pc = "files" /\ report[w].todo = {}
  /\ Discovered(report[w].batch)
  /\ resolver' = Nothing
  /\ report' = [report EXCEPT ![w].pc = "mappings"]
  /\ query' = Overlapped
  /\ UNCHANGED <<disk, news, mappings, extends>>
  /\ heap' = Swept(heap)

\* Other files drop what it remembers: first it is asked for,
FindResolver(w) ==
  /\ report[w].pc = "files" /\ report[w].todo = {}
  /\ ~Discovered(report[w].batch)
  /\ \E r \in Resolvers :
       GetResolver(r) /\ report' = [report EXCEPT ![w].pc = "paths", ![w].r = r]
  /\ query' = Overlapped
  /\ UNCHANGED <<disk, news, mappings, extends>>

\* Mutant of InvalidatePaths: the listings are kept.
InvalidatePathsOnly(w) ==
  /\ report[w].pc = "paths"
  /\ report' = [report EXCEPT ![w].pc = "mappings", ![w].r = Nothing]
  /\ query' = Overlapped
  /\ UNCHANGED <<disk, news, mappings, extends, resolver>>
  /\ heap' = Swept([heap EXCEPT ![report[w].r].path = Unknown])

\* then its paths and its listings go.
InvalidatePaths(w) ==
  /\ report[w].pc = "paths"
  /\ report' = [report EXCEPT ![w].pc = "mappings", ![w].r = Nothing]
  /\ query' = Overlapped
  /\ UNCHANGED <<disk, news, mappings, extends, resolver>>
  /\ heap' = Swept([heap EXCEPT ![report[w].r] = Fresh(@.roots)])

InvalidateAppMappingsCache(w) ==
  /\ report[w].pc = "mappings"
  /\ mappings' = Unknown
  /\ report' = [report EXCEPT ![w] = Waiting]
  /\ query' = Overlapped
  /\ UNCHANGED <<disk, news, extends, resolver, heap>>

-----------------------------------------------------------------------------
Asking(q) == \/ Ask(q) \/ Look(q) \/ GetMapping(q) \/ KeepMapping(q)
             \/ Search(q) \/ Store(q) \/ LookExtends(q) \/ RecordExtends(q)
Applying(w) == \/ Report(w) \/ Refile(w) \/ DropResolver(w) \/ FindResolver(w)
               \/ InvalidatePaths(w) \/ InvalidateAppMappingsCache(w)

Next == \/ \E p \in Places : ChangeFile(p)
        \/ ChangeApplication \/ ChangeFolders
        \/ \E q \in Queries : Asking(q)
        \/ \E w \in Reporters : Applying(w)

Spec == Init /\ [][Next]_vars

-----------------------------------------------------------------------------
(* Properties.                                                             *)

\* What a resolver, a query and a report consist of.
ResolverState == [roots : SUBSET Folders, path : Entry(Places),
                  listing : [names : SUBSET Places, late : BOOLEAN]]
QueryState ==
  [pc : {"idle", "look", "mapping", "keep", "search", "store", "parent", "record"},
   r : Resolvers \cup {Nothing}, map : Places \cup Parents \cup {Nothing},
   found : Places \cup {Nothing}, late : BOOLEAN]
ReportState ==
  [pc : {"idle", "files", "paths", "mappings"}, batch : SUBSET (Places \cup {Application}),
   todo : SUBSET Places, r : Resolvers \cup {Nothing}]

\* Type correctness: resolvers hold places, queries and reports what they read.
TypeOK ==
  /\ files \in [Places -> Parents \cup {Nothing}] /\ mapping \in Targets \cup {Nothing}
  /\ roots \in SUBSET Folders /\ changes \in Nat
  /\ news \in SUBSET (Places \cup {Application})
  /\ mappings \in Entry(Targets) /\ extends \in [Places -> Entry(Parents)]
  /\ resolver \in Resolvers \cup {Nothing}
  /\ heap \in [Resolvers -> ResolverState]
  /\ query \in [Queries -> QueryState] /\ report \in [Reporters -> ReportState]

\* An entry is about the files as they are, or was found by a query that a
\* change or its report overlapped.
Right(e, truth) == e.known /\ ~e.late => e.value = truth

\* When every change was reported and applied, a cached mapping, path or
\* extends that is not what the files say was stored by a query that ran while
\* a change was made or a report applied: the reports leave no other way, in
\* whatever order they drop the caches, and a resolver that was replaced stores
\* where nobody looks.
OnlyOverlappedIsStale ==
  Quiet =>
    /\ Right(mappings, mapping)
    /\ \A p \in Places : Right(extends[p], files[p])
    /\ resolver # Nothing => Right(heap[resolver].path, Answer(mapping, heap[resolver].roots, There))

================================================================================
