------------------------ MODULE SourceCaches_proofs ------------------------
(* A stale entry needs a query that a change or its report overlapped, for   *)
(* any folders, files, queries and reports.                                  *)
EXTENDS SourceCaches, FiniteSetTheorems, WellFoundedInduction, TLAPS

\* What every query that runs now has of the session's resolver.
Asks == {"look", "mapping", "keep", "search", "store", "parent"}

PhasesTyped ==
  /\ \A q \in Queries : /\ query[q].pc \in Asks => query[q].r \in Resolvers
                        /\ query[q].pc = "keep" => query[q].map \in Targets \cup {Nothing}
                        /\ query[q].pc = "record" => query[q].map \in Parents \cup {Nothing}
  /\ \A w \in Reporters : report[w].pc = "paths" => report[w].r \in Resolvers

\* A query that nothing overlapped runs in quiet, with the session's resolver,
\* and holds what the files say.
QueriesAreRight ==
  \A q \in Queries : query[q].pc # "idle" /\ ~query[q].late =>
    /\ Quiet
    /\ query[q].pc \in Asks => query[q].r = resolver
    /\ query[q].pc \in {"keep", "search"} => query[q].map = mapping
    /\ query[q].pc = "store" =>
         query[q].found = Answer(mapping, heap[resolver].roots, There)
    /\ query[q].pc = "record" => query[q].map = files[query[q].found]

MappingsAreRight == Quiet => Right(mappings, mapping)

\* What a file extends is still to be forgotten.
ToForget(p) == p \in news \/ \E w \in Reporters : report[w].pc = "files" /\ p \in report[w].todo
ExtendsAreRight == \A p \in Places : ToForget(p) \/ Right(extends[p], files[p])

\* What the session's resolver remembers is still to be dropped.
ToDrop == \/ news # {}
          \/ \E w \in Reporters : \/ report[w].pc = "files"
                                  \/ report[w].pc = "paths" /\ report[w].r = resolver
ResolverIsRight ==
  resolver # Nothing => \/ ToDrop
                        \/ /\ Right(heap[resolver].path,
                                    Answer(mapping, heap[resolver].roots, There))
                           /\ heap[resolver].listing.late \/ heap[resolver].listing.names \subseteq There

IInv == /\ TypeOK /\ PhasesTyped
        /\ QueriesAreRight /\ MappingsAreRight /\ ExtendsAreRight /\ ResolverIsRight

-----------------------------------------------------------------------------
(* The answer.                                                             *)

\* Of any finite sets one has no other within it: this stands for induction.
LEMMA Smallest ==
  ASSUME NEW X, NEW all, all # {}, \A T \in all : T \subseteq X /\ IsFiniteSet(T)
  PROVE  \E T \in all : \A U \in all : U \subseteq T => U = T
<1>1. all \subseteq FiniteSubsetsOf(X)
  BY DEF FiniteSubsetsOf
<1>2. ASSUME NEW Y PROVE IsWellFoundedOn(StrictSubsetOrdering(Y), FiniteSubsetsOf(Y))
  BY FS_StrictSubsetOrderingWellFounded
<1>3. ASSUME NEW R, NEW S, IsWellFoundedOn(R, S), NEW T, T \subseteq S, T # {}
      PROVE  \E x \in T : \A y \in T : ~ (<<y, x>> \in R)
  BY <1>3, WFMin
<1>4. \E T \in all : \A U \in all : ~ (<<U, T>> \in StrictSubsetOrdering(X))
  BY <1>1, <1>2, <1>3, Zenon
<1> QED
  BY <1>1, <1>4 DEF StrictSubsetOrdering, FiniteSubsetsOf

\* A non-empty set of numbers has a lowest one.
LEMMA LowestIs ==
  ASSUME NEW S, S \subseteq Nat, S # {}
  PROVE  Lowest(S) \in S /\ \A j \in S : Lowest(S) <= j
<1> DEFINE upto(k) == {j \in S : j <= k}
           all == {upto(k) : k \in S}
<1>1. \A T \in all : T \subseteq Nat /\ IsFiniteSet(T)
  <2>1. ASSUME NEW k \in S PROVE IsFiniteSet(upto(k))
    <3>1. k \in Nat /\ IsFiniteSet(0..k)
      BY FS_Interval
    <3>2. ASSUME NEW j \in upto(k) PROVE j \in 0..k
      <4>1. j \in Nat /\ j <= k
        OBVIOUS
      <4> QED
        BY <3>1, <4>1
    <3> QED
      BY <3>1, <3>2, FS_Subset
  <2> QED
    BY <2>1
<1>2. PICK T \in all : \A U \in all : U \subseteq T => U = T
  <2>1. all # {}
    OBVIOUS
  <2> HIDE DEF all
  <2> QED
    BY <1>1, <2>1, Smallest
<1>3. PICK k \in S : T = upto(k)
  OBVIOUS
<1>4. ASSUME NEW j \in S PROVE k <= j
  <2>1. SUFFICES ASSUME j < k PROVE FALSE
    OBVIOUS
  <2>2. upto(j) \subseteq T
    <3> SUFFICES ASSUME NEW i \in S, i <= j PROVE i <= k
      BY <1>3
    <3> QED
      BY <2>1
  <2>3. k \in T /\ k \notin upto(j)
    BY <1>3, <2>1
  <2>4. upto(j) \in all
    OBVIOUS
  <2> HIDE DEF all, upto
  <2> QED
    BY <1>2, <2>2, <2>3, <2>4
<1> QED
  BY <1>4 DEF Lowest

\* An answer is a place where the component is, or none.
LEMMA AnswerIsThere ==
  ASSUME NEW map, NEW among \in SUBSET Folders, NEW there \in SUBSET Places
  PROVE  Answer(map, among, there) \in there \cup {Nothing}
<1>1. ASSUME among \cap there # {}  PROVE  Lowest(among \cap there) \in among \cap there
  <2>1. among \cap there \subseteq Nat /\ among \cap there # {}
    BY <1>1, SourcesAssumption DEF Places
  <2> QED
    BY <2>1, LowestIs
<1> QED
  BY <1>1 DEF Answer

-----------------------------------------------------------------------------
(* Types.                                                                  *)

LEMMA InitTyped == Init => TypeOK /\ PhasesTyped
<1>1. (\A S : Unknown \in Entry(S)) /\ Fresh({}) \in ResolverState
  BY DEF Unknown, Entry, Fresh, ResolverState
<1>2. Idle \in QueryState /\ Waiting \in ReportState /\ Idle.pc = "idle" /\ Waiting.pc = "idle"
  BY DEF Idle, Waiting, QueryState, ReportState
<1> QED
  BY <1>1, <1>2 DEF Init, TypeOK, PhasesTyped, Asks

\* Marking queries as overlapped changes nothing else of them.
LEMMA OverlappedTyped ==
  ASSUME TypeOK
  PROVE  /\ Overlapped \in [Queries -> QueryState]
         /\ \A q \in Queries : /\ Overlapped[q].pc = query[q].pc /\ Overlapped[q].r = query[q].r
                               /\ Overlapped[q].map = query[q].map
                               /\ Overlapped[q].pc # "idle" => Overlapped[q].late
  BY DEF TypeOK, Overlapped, QueryState

LEMMA FreshTyped == \A among \in SUBSET Folders : Fresh(among) \in ResolverState
  BY DEF Fresh, Unknown, Entry, ResolverState

\* Sweeping leaves what somebody refers to.
LEMMA SweptTyped ==
  ASSUME NEW h \in [Resolvers -> ResolverState]
  PROVE  /\ Swept(h) \in [Resolvers -> ResolverState]
         /\ \A r \in Resolvers : r = resolver' => Swept(h)[r] = h[r]
  BY FreshTyped DEF Swept, Held

\* The resolver that getResolver gives.
LEMMA GetResolverTyped ==
  ASSUME TypeOK, NEW r \in Resolvers, GetResolver(r)
  PROVE  /\ resolver' = r /\ heap' \in [Resolvers -> ResolverState]
         /\ resolver # Nothing => resolver' = resolver /\ heap' = heap
         /\ resolver = Nothing => heap' = [heap EXCEPT ![r] = Fresh(roots)]
  BY FreshTyped DEF GetResolver, TypeOK

\* Places and values that the states hold.
LEMMA PlacesAndNothing ==
  /\ Targets \subseteq Places /\ Folders \subseteq Places
  /\ Nothing \notin Places /\ Nothing \notin Resolvers /\ 0 \notin Places
  BY SourcesAssumption DEF Places

\* A step of one query.
LEMMA QueryStep ==
  ASSUME TypeOK, NEW q \in Queries, NEW now \in QueryState, query' = [query EXCEPT ![q] = now]
  PROVE  /\ query' \in [Queries -> QueryState] /\ query'[q] = now
         /\ \A k \in Queries \ {q} : query'[k] = query[k]
  BY DEF TypeOK

\* A step of one report.
LEMMA ReportStep ==
  ASSUME TypeOK, NEW w \in Reporters, NEW now \in ReportState,
         report' = [report EXCEPT ![w] = now]
  PROVE  /\ report' \in [Reporters -> ReportState] /\ report'[w] = now
         /\ \A k \in Reporters \ {w} : report'[k] = report[k]
  BY DEF TypeOK

-----------------------------------------------------------------------------
(* Preservation of the types.                                              *)

LEMMA NextTyped ==
  ASSUME TypeOK, PhasesTyped, [Next]_vars
  PROVE  TypeOK' /\ PhasesTyped'
<1> USE PlacesAndNothing
<1>1. CASE UNCHANGED vars
  BY <1>1 DEF vars, disk, TypeOK, PhasesTyped
<1>2. ASSUME NEW p \in Places, ChangeFile(p)  PROVE TypeOK' /\ PhasesTyped'
  BY <1>2, OverlappedTyped DEF ChangeFile, TypeOK, PhasesTyped
<1>3. CASE ChangeApplication
  <2>1. query' \in [Queries -> QueryState] /\ PhasesTyped'
    BY <1>3, OverlappedTyped DEF ChangeApplication, PhasesTyped
  <2>2. mapping' \in Targets \cup {Nothing} /\ changes' \in Nat
        /\ news' \in SUBSET (Places \cup {Application})
    BY <1>3 DEF ChangeApplication, TypeOK
  <2> QED
    BY <1>3, <2>1, <2>2 DEF ChangeApplication, TypeOK
<1>4. CASE ChangeFolders
  BY <1>4 DEF ChangeFolders, TypeOK, PhasesTyped
<1>5. ASSUME NEW q \in Queries, Ask(q)  PROVE TypeOK' /\ PhasesTyped'
  <2> DEFINE now(r) == [Idle EXCEPT !.pc = "look", !.r = r, !.late = ~Quiet]
  <2>1. PICK r \in Resolvers : GetResolver(r) /\ query' = [query EXCEPT ![q] = now(r)]
    BY <1>5 DEF Ask
  <2>2. now(r) \in QueryState /\ now(r).pc = "look" /\ now(r).r = r
    BY DEF Quiet, Idle, QueryState
  <2> HIDE DEF now
  <2>3. QED
    BY <1>5, <2>1, <2>2, GetResolverTyped, QueryStep DEF Ask, disk, TypeOK, PhasesTyped
<1>6. ASSUME NEW q \in Queries, Look(q)  PROVE TypeOK' /\ PhasesTyped'
  <2> DEFINE e == heap[query[q].r].path
             now == IF e.known
                    THEN [query[q] EXCEPT !.pc = "parent", !.found = e.value, !.late = query[q].late \/ e.late]
                    ELSE [query[q] EXCEPT !.pc = "mapping"]
  <2>1. query[q] \in QueryState /\ query[q].r \in Resolvers /\ query[q].pc = "look"
    BY <1>6 DEF Look, TypeOK, PhasesTyped, Asks
  <2>2. e \in Entry(Places)
    BY <2>1 DEF TypeOK, ResolverState
  <2>3. now \in QueryState /\ now.r = query[q].r
    BY <2>1, <2>2 DEF QueryState, Entry
  <2> HIDE DEF now
  <2>4. query' = [query EXCEPT ![q] = now]
    BY <1>6 DEF Look, now
  <2> QED
    BY <1>6, <2>1, <2>3, <2>4, QueryStep DEF Look, disk, TypeOK, PhasesTyped, Asks
<1>7. ASSUME NEW q \in Queries, GetMapping(q)  PROVE TypeOK' /\ PhasesTyped'
  <2> DEFINE now == IF mappings.known
                    THEN [query[q] EXCEPT !.pc = "search", !.map = mappings.value,
                                          !.late = query[q].late \/ mappings.late]
                    ELSE [query[q] EXCEPT !.pc = "keep", !.map = mapping]
  <2>1. query[q] \in QueryState /\ query[q].r \in Resolvers
    BY <1>7 DEF GetMapping, TypeOK, PhasesTyped, Asks
  <2>2. mappings \in Entry(Targets) /\ mapping \in Targets \cup {Nothing}
    BY DEF TypeOK
  <2>3. now \in QueryState /\ now.r = query[q].r /\ now.pc # "record"
        /\ (now.pc = "keep" => now.map = mapping)
    BY <2>1, <2>2 DEF QueryState, Entry
  <2> HIDE DEF now
  <2>4. query' = [query EXCEPT ![q] = now]
    BY <1>7 DEF GetMapping, now
  <2> QED
    BY <1>7, <2>1, <2>2, <2>3, <2>4, QueryStep DEF GetMapping, disk, TypeOK, PhasesTyped, Asks
<1>8. ASSUME NEW q \in Queries, KeepMapping(q)  PROVE TypeOK' /\ PhasesTyped'
  <2> DEFINE now == [query[q] EXCEPT !.pc = "search"]
  <2>1. query[q] \in QueryState /\ query[q].r \in Resolvers
        /\ query[q].map \in Targets \cup {Nothing}
    BY <1>8 DEF KeepMapping, TypeOK, PhasesTyped, Asks
  <2>2. now \in QueryState /\ now.r = query[q].r /\ now.pc = "search"
    BY <2>1 DEF QueryState
  <2>3. Known(query[q].map, query[q].late) \in Entry(Targets)
    BY <2>1 DEF QueryState, Entry, Known
  <2> HIDE DEF now
  <2>4. query' = [query EXCEPT ![q] = now]
    BY <1>8 DEF KeepMapping, now
  <2> QED
    BY <1>8, <2>1, <2>2, <2>3, <2>4, QueryStep DEF KeepMapping, disk, TypeOK, PhasesTyped, Asks
<1>9. ASSUME NEW q \in Queries, Search(q)  PROVE TypeOK' /\ PhasesTyped'
  <2> DEFINE r == query[q].r
             l == heap[r].listing
             there == There \cup l.names
             found == Answer(query[q].map, heap[r].roots, there)
             late == query[q].late \/ l.late
             now == [query[q] EXCEPT !.pc = "store", !.map = Nothing, !.found = found, !.late = late]
             names == l.names \cup ({found} \cap there)
  <2>1. query[q] \in QueryState /\ r \in Resolvers
    BY <1>9 DEF Search, TypeOK, PhasesTyped, Asks
  <2>2. heap[r] \in ResolverState /\ there \in SUBSET Places /\ heap[r].roots \in SUBSET Folders
    BY <2>1 DEF TypeOK, There, ResolverState
  <2>3. found \in Places \cup {Nothing}
    BY <2>2, AnswerIsThere
  <2>4. names \in SUBSET Places /\ late \in BOOLEAN
    BY <2>1, <2>2 DEF QueryState, ResolverState
  <2> HIDE DEF found, late
  <2>5. now \in QueryState /\ now.r = r /\ now.pc = "store"
    BY <2>1, <2>3, <2>4 DEF QueryState
  <2>6. /\ query' = [query EXCEPT ![q] = now]
        /\ heap' = [heap EXCEPT ![r].listing = [names |-> names, late |-> late]]
    BY <1>9 DEF Search, found, late
  <2> HIDE DEF now, there, names, l
  <2>7. [heap[r] EXCEPT !.listing = [names |-> names, late |-> late]] \in ResolverState
    BY <2>2, <2>4 DEF ResolverState
  <2>8. heap' = [heap EXCEPT ![r] = [heap[r] EXCEPT !.listing = [names |-> names, late |-> late]]]
    BY <2>6
  <2>9. heap' \in [Resolvers -> ResolverState]
    BY <2>1, <2>7, <2>8 DEF TypeOK
  <2>10. query' \in [Queries -> QueryState]
    BY <2>5, <2>6, QueryStep
  <2>11. TypeOK'
    BY <1>9, <2>9, <2>10 DEF Search, disk, TypeOK
  <2>12. report' = report
    BY <1>9 DEF Search
  <2>13. PhasesTyped'
    BY <2>1, <2>5, <2>6, <2>12, QueryStep DEF PhasesTyped, Asks
  <2> QED
    BY <2>11, <2>13
<1>10. ASSUME NEW q \in Queries, Store(q)  PROVE TypeOK' /\ PhasesTyped'
  <2> DEFINE now == [query[q] EXCEPT !.pc = "parent"]
  <2>1. query[q] \in QueryState /\ query[q].r \in Resolvers
    BY <1>10 DEF Store, TypeOK, PhasesTyped, Asks
  <2>2. now \in QueryState /\ now.r = query[q].r /\ now.pc = "parent"
    BY <2>1 DEF QueryState
  <2>3. Known(query[q].found, query[q].late) \in Entry(Places)
    BY <2>1 DEF QueryState, Entry, Known
  <2> DEFINE kept == [heap[query[q].r] EXCEPT !.path = Known(query[q].found, query[q].late)]
  <2>4. kept \in ResolverState
    BY <2>1, <2>3 DEF TypeOK, ResolverState
  <2>6. heap' = [heap EXCEPT ![query[q].r] = kept]
    BY <1>10 DEF Store
  <2> HIDE DEF kept
  <2>7. heap' \in [Resolvers -> ResolverState]
    BY <2>1, <2>4, <2>6 DEF TypeOK
  <2> HIDE DEF now
  <2>5. query' = [query EXCEPT ![q] = now]
    BY <1>10 DEF Store, now
  <2> QED
    BY <1>10, <2>1, <2>2, <2>5, <2>7, QueryStep DEF Store, disk, TypeOK, PhasesTyped, Asks
<1>11. ASSUME NEW q \in Queries, LookExtends(q)  PROVE TypeOK' /\ PhasesTyped'
  <2> DEFINE p == query[q].found
             now == IF p = Nothing \/ files[p] = Nothing \/ extends[p].known THEN Idle
                    ELSE [query[q] EXCEPT !.pc = "record", !.r = Nothing, !.map = files[p]]
  <2>1. query[q] \in QueryState /\ p \in Places \cup {Nothing}
    BY DEF TypeOK, QueryState
  <2>2. p # Nothing => files[p] \in Parents \cup {Nothing}
    BY <2>1 DEF TypeOK
  <2>3. /\ now \in QueryState
        /\ now.pc = "idle" \/ (now.pc = "record" /\ now.map \in Parents \cup {Nothing})
    BY <2>1, <2>2 DEF QueryState, Idle
  <2> HIDE DEF now
  <2>4. query' = [query EXCEPT ![q] = now] /\ heap' = Swept(heap)
    BY <1>11 DEF LookExtends, now
  <2>5. heap' \in [Resolvers -> ResolverState]
    BY <2>4, SweptTyped DEF TypeOK
  <2> QED
    BY <1>11, <2>3, <2>4, <2>5, QueryStep DEF LookExtends, disk, TypeOK, PhasesTyped, Asks
<1>12. ASSUME NEW q \in Queries, RecordExtends(q)  PROVE TypeOK' /\ PhasesTyped'
  <2>1. query[q] \in QueryState /\ query[q].map \in Parents \cup {Nothing}
    BY <1>12 DEF RecordExtends, TypeOK, PhasesTyped
  <2>2. Known(query[q].map, query[q].late) \in Entry(Parents)
    BY <2>1 DEF QueryState, Entry, Known
  <2>3. Idle \in QueryState /\ Idle.pc = "idle"
    BY DEF Idle, QueryState
  <2>4. extends' \in [Places -> Entry(Parents)]
    BY <1>12, <2>2 DEF RecordExtends, TypeOK
  <2> QED
    BY <1>12, <2>3, <2>4, QueryStep DEF RecordExtends, disk, TypeOK, PhasesTyped, Asks
<1>13. ASSUME NEW w \in Reporters, Report(w)  PROVE TypeOK' /\ PhasesTyped'
  <2>1. PICK batch \in (SUBSET news) \ {{}} :
          /\ news' = news \ batch
          /\ report' = [report EXCEPT ![w] = [pc |-> "files", batch |-> batch,
                                             todo |-> batch \cap Places, r |-> Nothing]]
    BY <1>13 DEF Report
  <2>2. [pc |-> "files", batch |-> batch, todo |-> batch \cap Places, r |-> Nothing] \in ReportState
    BY <2>1 DEF TypeOK, ReportState
  <2> QED
    BY <1>13, <2>1, <2>2, ReportStep, OverlappedTyped DEF Report, disk, TypeOK, PhasesTyped
<1>14. ASSUME NEW w \in Reporters, Refile(w)  PROVE TypeOK' /\ PhasesTyped'
  <2>1. PICK p \in report[w].todo : /\ extends' = [extends EXCEPT ![p] = Unknown]
                                    /\ report' = [report EXCEPT ![w].todo = @ \ {p}]
    BY <1>14 DEF Refile
  <2>2. report[w] \in ReportState
    BY DEF TypeOK
  <2>3. [report[w] EXCEPT !.todo = @ \ {p}] \in ReportState
        /\ [report[w] EXCEPT !.todo = @ \ {p}].pc = "files"
    BY <1>14, <2>2 DEF ReportState, Refile
  <2>4. Unknown \in Entry(Parents)
    BY DEF Unknown, Entry
  <2>5. report' = [report EXCEPT ![w] = [report[w] EXCEPT !.todo = @ \ {p}]]
    BY <2>1
  <2>6. extends' \in [Places -> Entry(Parents)]
    BY <2>1, <2>4 DEF TypeOK
  <2>7. report' \in [Reporters -> ReportState] /\ query' \in [Queries -> QueryState]
    BY <1>14, <2>3, <2>5, ReportStep, OverlappedTyped DEF Refile
  <2>8. TypeOK'
    BY <1>14, <2>6, <2>7 DEF Refile, disk, TypeOK
  <2>9. PhasesTyped'
    BY <1>14, <2>3, <2>5, ReportStep, OverlappedTyped DEF Refile, PhasesTyped
  <2> QED
    BY <2>8, <2>9
<1>15. ASSUME NEW w \in Reporters, DropResolver(w)  PROVE TypeOK' /\ PhasesTyped'
  <2>1. report[w] \in ReportState
    BY DEF TypeOK
  <2>2. [report[w] EXCEPT !.pc = "mappings"] \in ReportState
        /\ [report[w] EXCEPT !.pc = "mappings"].pc = "mappings"
    BY <2>1 DEF ReportState
  <2>3. report' = [report EXCEPT ![w] = [report[w] EXCEPT !.pc = "mappings"]]
    BY <1>15 DEF DropResolver
  <2> QED
    BY <1>15, <2>2, <2>3, ReportStep, OverlappedTyped, SweptTyped
       DEF DropResolver, disk, TypeOK, PhasesTyped
<1>16. ASSUME NEW w \in Reporters, FindResolver(w)  PROVE TypeOK' /\ PhasesTyped'
  <2>1. PICK r \in Resolvers :
          GetResolver(r) /\ report' = [report EXCEPT ![w].pc = "paths", ![w].r = r]
    BY <1>16 DEF FindResolver
  <2>2. report[w] \in ReportState
    BY DEF TypeOK
  <2>3. [report[w] EXCEPT !.pc = "paths", !.r = r] \in ReportState
        /\ [report[w] EXCEPT !.pc = "paths", !.r = r].r = r
    BY <2>2 DEF ReportState
  <2>4. report' = [report EXCEPT ![w] = [report[w] EXCEPT !.pc = "paths", !.r = r]]
    BY <2>1
  <2>5. heap' \in [Resolvers -> ResolverState] /\ resolver' \in Resolvers
    BY <2>1, GetResolverTyped
  <2>6. report' \in [Reporters -> ReportState] /\ query' \in [Queries -> QueryState]
    BY <1>16, <2>3, <2>4, ReportStep, OverlappedTyped DEF FindResolver
  <2>7. TypeOK'
    BY <1>16, <2>5, <2>6 DEF FindResolver, disk, TypeOK
  <2>8. query' = Overlapped
    BY <1>16 DEF FindResolver
  <2>9. PhasesTyped'
    BY <2>3, <2>4, <2>8, ReportStep, OverlappedTyped DEF PhasesTyped
  <2> QED
    BY <2>7, <2>9
<1>17. ASSUME NEW w \in Reporters, InvalidatePaths(w)  PROVE TypeOK' /\ PhasesTyped'
  <2>1. [heap EXCEPT ![report[w].r] = Fresh(@.roots)] \in [Resolvers -> ResolverState]
    BY FreshTyped DEF TypeOK, ResolverState
  <2>2. report[w] \in ReportState
    BY DEF TypeOK
  <2>3. [report[w] EXCEPT !.pc = "mappings", !.r = Nothing] \in ReportState
        /\ [report[w] EXCEPT !.pc = "mappings", !.r = Nothing].pc = "mappings"
    BY <2>2 DEF ReportState
  <2>4. report' = [report EXCEPT ![w] = [report[w] EXCEPT !.pc = "mappings", !.r = Nothing]]
    BY <1>17 DEF InvalidatePaths
  <2>5. heap' \in [Resolvers -> ResolverState]
    BY <1>17, <2>1, SweptTyped DEF InvalidatePaths
  <2>6. report' \in [Reporters -> ReportState] /\ query' \in [Queries -> QueryState]
    BY <1>17, <2>3, <2>4, ReportStep, OverlappedTyped DEF InvalidatePaths
  <2>7. TypeOK'
    BY <1>17, <2>5, <2>6 DEF InvalidatePaths, disk, TypeOK
  <2>8. query' = Overlapped
    BY <1>17 DEF InvalidatePaths
  <2>9. PhasesTyped'
    BY <2>3, <2>4, <2>8, ReportStep, OverlappedTyped DEF PhasesTyped
  <2> QED
    BY <2>7, <2>9
<1>18. ASSUME NEW w \in Reporters, InvalidateAppMappingsCache(w)  PROVE TypeOK' /\ PhasesTyped'
  <2>1. Waiting \in ReportState /\ Waiting.pc = "idle" /\ Unknown \in Entry(Targets)
    BY DEF Waiting, ReportState, Unknown, Entry
  <2> QED
    BY <1>18, <2>1, ReportStep, OverlappedTyped
       DEF InvalidateAppMappingsCache, disk, TypeOK, PhasesTyped
<1> QED
  BY <1>1, <1>2, <1>3, <1>4, <1>5, <1>6, <1>7, <1>8, <1>9, <1>10, <1>11, <1>12, <1>13, <1>14,
     <1>15, <1>16, <1>17, <1>18 DEF Next, Asking, Applying

-----------------------------------------------------------------------------
(* What a change, or a step of a report, does to the caches.               *)

\* In quiet nothing is to be dropped or forgotten.
LEMMA QuietOwesNothing ==
  Quiet => ~ToDrop /\ \A p \in Places : ~ToForget(p)
  BY DEF Quiet, ToDrop, ToForget

\* A query that was overlapped is not trusted with anything.
LEMMA OverlappedAreExcused ==
  ASSUME TypeOK, query' = Overlapped
  PROVE  QueriesAreRight'
  BY OverlappedTyped DEF QueriesAreRight

\* The session's resolver and what it knows, when a step leaves both alone.
LEMMA ResolverKept ==
  ASSUME ResolverIsRight, UNCHANGED <<files, mapping>>, ToDrop => ToDrop',
         resolver' = resolver, resolver # Nothing => heap'[resolver] = heap[resolver]
  PROVE  ResolverIsRight'
  BY DEF ResolverIsRight, Right, There

LEMMA ChangeKeeps ==
  ASSUME IInv, \/ \E p \in Places : ChangeFile(p)
               \/ ChangeApplication \/ ChangeFolders
  PROVE  QueriesAreRight' /\ MappingsAreRight' /\ ExtendsAreRight' /\ ResolverIsRight'
<1>1. ASSUME NEW p \in Places, ChangeFile(p)
      PROVE  QueriesAreRight' /\ MappingsAreRight' /\ ExtendsAreRight' /\ ResolverIsRight'
  <2>1. QueriesAreRight'
    BY <1>1, OverlappedAreExcused DEF ChangeFile, IInv
  <2>2. news' # {} /\ p \in news' /\ news \subseteq news'
    BY <1>1 DEF ChangeFile
  <2>3. ExtendsAreRight'
    <3> SUFFICES ASSUME NEW k \in Places  PROVE (ToForget(k) \/ Right(extends[k], files[k]))'
      BY DEF ExtendsAreRight
    <3>1. CASE k = p
      BY <2>2, <3>1 DEF ToForget
    <3>2. CASE k # p
      <4>1. files'[k] = files[k] /\ extends' = extends /\ report' = report
        BY <1>1, <3>2 DEF ChangeFile, IInv, TypeOK
      <4>2. ToForget(k) => ToForget(k)'
        BY <2>2, <4>1 DEF ToForget
      <4> QED
        BY <4>1, <4>2 DEF IInv, ExtendsAreRight, Right
    <3> QED
      BY <3>1, <3>2
  <2> QED
    BY <2>1, <2>2, <2>3 DEF MappingsAreRight, Quiet, ResolverIsRight, ToDrop
<1>2. ASSUME ChangeApplication
      PROVE  QueriesAreRight' /\ MappingsAreRight' /\ ExtendsAreRight' /\ ResolverIsRight'
  <2>1. QueriesAreRight'
    BY <1>2, OverlappedAreExcused DEF ChangeApplication, IInv
  <2>2. news' # {} /\ news \subseteq news' /\ UNCHANGED <<files, extends, report>>
    BY <1>2 DEF ChangeApplication
  <2>3. ExtendsAreRight'
    BY <2>2 DEF IInv, ExtendsAreRight, ToForget, Right
  <2> QED
    BY <2>1, <2>2, <2>3 DEF MappingsAreRight, Quiet, ResolverIsRight, ToDrop
<1>3. ASSUME ChangeFolders
      PROVE  QueriesAreRight' /\ MappingsAreRight' /\ ExtendsAreRight' /\ ResolverIsRight'
  <2>1. UNCHANGED <<files, mapping, news, mappings, extends, resolver, heap, query, report>>
    BY <1>3 DEF ChangeFolders
  <2> QED
    BY <2>1 DEF IInv, QueriesAreRight, MappingsAreRight, ExtendsAreRight, ResolverIsRight,
                Quiet, Right, There, ToForget, ToDrop
<1> QED
  BY <1>1, <1>2, <1>3

LEMMA ReportKeeps ==
  ASSUME IInv, NEW w \in Reporters, Applying(w)
  PROVE  QueriesAreRight' /\ MappingsAreRight' /\ ExtendsAreRight' /\ ResolverIsRight'
<1>1. query' = Overlapped /\ UNCHANGED <<files, mapping>>
  BY DEF Applying, Report, Refile, DropResolver, FindResolver, InvalidatePaths,
         InvalidateAppMappingsCache, disk
<1>2. QueriesAreRight'
  BY <1>1, OverlappedAreExcused DEF IInv
<1>3. TypeOK
  BY DEF IInv
<1>4. ASSUME Report(w)  PROVE MappingsAreRight' /\ ExtendsAreRight' /\ ResolverIsRight'
  <2>1. PICK batch \in (SUBSET news) \ {{}} :
          /\ news' = news \ batch
          /\ report' = [report EXCEPT ![w] = [pc |-> "files", batch |-> batch,
                                             todo |-> batch \cap Places, r |-> Nothing]]
    BY <1>4 DEF Report
  <2>2. /\ report'[w].pc = "files" /\ report'[w].todo = batch \cap Places
        /\ \A k \in Reporters \ {w} : report'[k] = report[k]
    BY <2>1, <1>3 DEF TypeOK
  <2>3. report[w].pc = "idle" /\ extends' = extends
    BY <1>4 DEF Report
  <2>4. \A p \in Places : ToForget(p) => ToForget(p)'
    BY <2>1, <2>2, <2>3 DEF ToForget
  <2>5. ExtendsAreRight'
    BY <1>1, <2>3, <2>4 DEF IInv, ExtendsAreRight, Right
  <2> QED
    BY <2>2, <2>5 DEF MappingsAreRight, Quiet, ResolverIsRight, ToDrop
<1>5. ASSUME Refile(w)  PROVE MappingsAreRight' /\ ExtendsAreRight' /\ ResolverIsRight'
  <2>1. PICK p \in report[w].todo : /\ extends' = [extends EXCEPT ![p] = Unknown]
                                    /\ report' = [report EXCEPT ![w].todo = @ \ {p}]
    BY <1>5 DEF Refile
  <2>2. /\ report'[w].pc = "files" /\ report'[w].todo = report[w].todo \ {p}
        /\ \A k \in Reporters \ {w} : report'[k] = report[k]
    BY <1>3, <1>5, <2>1 DEF TypeOK, ReportState, Refile
  <2>3. news' = news
    BY <1>5 DEF Refile
  <2>4. ExtendsAreRight'
    <3> SUFFICES ASSUME NEW k \in Places  PROVE (ToForget(k) \/ Right(extends[k], files[k]))'
      BY DEF ExtendsAreRight
    <3>1. CASE k = p
      <4>1. extends'[k] = Unknown
        BY <1>3, <2>1, <3>1 DEF TypeOK
      <4> QED
        BY <4>1 DEF Right, Unknown
    <3>2. CASE k # p
      <4>1. extends'[k] = extends[k]
        BY <1>3, <2>1, <3>2 DEF TypeOK
      <4>2. ToForget(k) => ToForget(k)'
        BY <2>2, <2>3, <3>2 DEF ToForget
      <4> QED
        BY <1>1, <4>1, <4>2 DEF IInv, ExtendsAreRight, Right
    <3> QED
      BY <3>1, <3>2
  <2> QED
    BY <2>2, <2>4 DEF MappingsAreRight, Quiet, ResolverIsRight, ToDrop
<1>6. ASSUME DropResolver(w)  PROVE MappingsAreRight' /\ ExtendsAreRight' /\ ResolverIsRight'
  <2>1. /\ report'[w].pc = "mappings" /\ report[w].todo = {}
        /\ \A k \in Reporters \ {w} : report'[k] = report[k]
    BY <1>3, <1>6 DEF DropResolver, TypeOK, ReportState
  <2>2. resolver' = Nothing /\ UNCHANGED <<news, extends>>
    BY <1>6 DEF DropResolver
  <2>3. \A p \in Places : ToForget(p) => ToForget(p)'
    BY <2>1, <2>2 DEF ToForget
  <2>4. ExtendsAreRight'
    BY <1>1, <2>2, <2>3 DEF IInv, ExtendsAreRight, Right
  <2> QED
    BY <2>1, <2>2, <2>4 DEF MappingsAreRight, Quiet, ResolverIsRight
<1>7. ASSUME FindResolver(w)  PROVE MappingsAreRight' /\ ExtendsAreRight' /\ ResolverIsRight'
  <2>1. PICK r \in Resolvers :
          GetResolver(r) /\ report' = [report EXCEPT ![w].pc = "paths", ![w].r = r]
    BY <1>7 DEF FindResolver
  <2>2. resolver' = r
    BY <1>3, <2>1, GetResolverTyped
  <2>3. /\ report'[w].pc = "paths" /\ report'[w].r = r /\ report[w].todo = {}
        /\ \A k \in Reporters \ {w} : report'[k] = report[k]
    BY <1>3, <1>7, <2>1 DEF FindResolver, TypeOK, ReportState
  <2>4. UNCHANGED <<news, extends>>
    BY <1>7 DEF FindResolver
  <2>5. \A p \in Places : ToForget(p) => ToForget(p)'
    BY <2>3, <2>4 DEF ToForget
  <2>6. ExtendsAreRight'
    BY <1>1, <2>4, <2>5 DEF IInv, ExtendsAreRight, Right
  <2> QED
    BY <2>2, <2>3, <2>6 DEF MappingsAreRight, Quiet, ResolverIsRight, ToDrop
<1>8. ASSUME InvalidatePaths(w)  PROVE MappingsAreRight' /\ ExtendsAreRight' /\ ResolverIsRight'
  <2> DEFINE cleared == [heap EXCEPT ![report[w].r] = Fresh(@.roots)]
  <2>1. /\ report'[w].pc = "mappings" /\ report[w].pc = "paths"
        /\ \A k \in Reporters \ {w} : report'[k] = report[k]
    BY <1>3, <1>8 DEF InvalidatePaths, TypeOK, ReportState
  <2>2. UNCHANGED <<news, extends, resolver>> /\ heap' = Swept(cleared)
    BY <1>8 DEF InvalidatePaths
  <2>3. \A p \in Places : ToForget(p) => ToForget(p)'
    BY <2>1, <2>2 DEF ToForget
  <2>4. ExtendsAreRight'
    BY <1>1, <2>2, <2>3 DEF IInv, ExtendsAreRight, Right
  <2>5. cleared \in [Resolvers -> ResolverState]
    BY <1>3, FreshTyped DEF TypeOK, ResolverState
  <2>6. resolver # Nothing => heap'[resolver] = cleared[resolver]
    BY <1>3, <2>2, <2>5, SweptTyped DEF TypeOK
  <2>7. CASE report[w].r = resolver
    <3>1. resolver # Nothing => cleared[resolver] = Fresh(heap[resolver].roots)
      BY <1>3, <2>7 DEF TypeOK
    <3> HIDE DEF cleared
    <3>2. resolver' # Nothing => /\ ~heap'[resolver'].path.known
                                 /\ heap'[resolver'].listing.names = {}
      BY <2>2, <2>6, <3>1 DEF Fresh, Unknown
    <3>3. ResolverIsRight'
      BY <3>2 DEF ResolverIsRight, Right
    <3> QED
      BY <2>1, <2>4, <3>3 DEF MappingsAreRight, Quiet
  <2>8. CASE report[w].r # resolver
    <3>1. resolver # Nothing => cleared[resolver] = heap[resolver]
      BY <1>3, <2>8 DEF TypeOK
    <3>2. ToDrop => ToDrop'
      BY <2>1, <2>2, <2>8 DEF ToDrop
    <3>3. ResolverIsRight'
      BY <1>1, <2>2, <2>6, <3>1, <3>2, ResolverKept DEF IInv
    <3> QED
      BY <2>1, <2>4, <3>3 DEF MappingsAreRight, Quiet
  <2> QED
    BY <2>7, <2>8
<1>9. ASSUME InvalidateAppMappingsCache(w)
      PROVE  MappingsAreRight' /\ ExtendsAreRight' /\ ResolverIsRight'
  <2>1. /\ report[w].pc = "mappings" /\ \A k \in Reporters \ {w} : report'[k] = report[k]
        /\ mappings' = Unknown
    BY <1>3, <1>9 DEF InvalidateAppMappingsCache, TypeOK
  <2>2. UNCHANGED <<news, extends, resolver, heap>>
    BY <1>9 DEF InvalidateAppMappingsCache
  <2>3. (ToDrop => ToDrop') /\ \A p \in Places : ToForget(p) => ToForget(p)'
    BY <2>1, <2>2 DEF ToForget, ToDrop
  <2>4. ExtendsAreRight'
    BY <1>1, <2>2, <2>3 DEF IInv, ExtendsAreRight, Right
  <2>5. ResolverIsRight'
    BY <1>1, <2>2, <2>3, ResolverKept DEF IInv
  <2> QED
    BY <2>1, <2>4, <2>5 DEF MappingsAreRight, Right, Unknown
<1> QED
  BY <1>2, <1>4, <1>5, <1>6, <1>7, <1>8, <1>9 DEF Applying

-----------------------------------------------------------------------------
(* What a step of a query does to the caches.                              *)

\* The resolver stays, and so do its roots: a step of q leaves the other
\* queries right.
LEMMA OtherQueriesKept ==
  ASSUME IInv, NEW q \in Queries, NEW now \in QueryState, query' = [query EXCEPT ![q] = now],
         UNCHANGED <<files, mapping, news, report, resolver>>,
         resolver # Nothing => heap'[resolver].roots = heap[resolver].roots,
         now.pc # "idle" /\ ~now.late =>
           /\ Quiet
           /\ now.pc \in Asks => now.r = resolver
           /\ now.pc \in {"keep", "search"} => now.map = mapping
           /\ now.pc = "store" => /\ resolver # Nothing
                                  /\ now.found = Answer(mapping, heap[resolver].roots, There)
           /\ now.pc = "record" => now.map = files[now.found]
  PROVE  QueriesAreRight'
<1>1. query'[q] = now /\ \A k \in Queries \ {q} : query'[k] = query[k]
  BY QueryStep DEF IInv
<1>2. (Quiet' <=> Quiet) /\ There' = There
  BY DEF Quiet, There
<1> SUFFICES ASSUME NEW k \in Queries, query'[k].pc # "idle", ~query'[k].late
             PROVE  (/\ Quiet
                     /\ query[k].pc \in Asks => query[k].r = resolver
                     /\ query[k].pc \in {"keep", "search"} => query[k].map = mapping
                     /\ query[k].pc = "store" =>
                          query[k].found = Answer(mapping, heap[resolver].roots, There)
                     /\ query[k].pc = "record" => query[k].map = files[query[k].found])'
  BY DEF QueriesAreRight
<1>3. query'[k].pc = "store" => resolver # Nothing
  <2>1. CASE k = q
    BY <1>1, <2>1
  <2>2. CASE k # q
    BY <1>1, <2>2, PlacesAndNothing DEF IInv, PhasesTyped, QueriesAreRight, Asks
  <2> QED
    BY <2>1, <2>2
<1>4. CASE k = q
  BY <1>1, <1>2, <1>3, <1>4
<1>5. CASE k # q
  BY <1>1, <1>2, <1>3, <1>5 DEF IInv, QueriesAreRight
<1> QED
  BY <1>4, <1>5

LEMMA QueryKeeps ==
  ASSUME IInv, TypeOK', NEW q \in Queries, Asking(q)
  PROVE  QueriesAreRight' /\ MappingsAreRight' /\ ExtendsAreRight' /\ ResolverIsRight'
<1>1. UNCHANGED <<files, mapping, roots, news, report>>
  BY DEF Asking, Ask, Look, GetMapping, KeepMapping, Search, Store, LookExtends, RecordExtends, disk
<1>2. TypeOK /\ PhasesTyped /\ QueriesAreRight /\ MappingsAreRight /\ ExtendsAreRight /\ ResolverIsRight
  BY DEF IInv
<1>3. (Quiet' <=> Quiet) /\ There' = There /\ (\A p \in Places : ToForget(p)' <=> ToForget(p))
  BY <1>1 DEF Quiet, There, ToForget
<1>4. query[q] \in QueryState
  BY <1>2 DEF TypeOK
<1>5. ASSUME Ask(q)
      PROVE  QueriesAreRight' /\ MappingsAreRight' /\ ExtendsAreRight' /\ ResolverIsRight'
  <2>1. PICK r \in Resolvers :
          GetResolver(r) /\ query' = [query EXCEPT ![q] =
                           [Idle EXCEPT !.pc = "look", !.r = r, !.late = ~Quiet]]
    BY <1>5 DEF Ask
  <2>2. /\ query'[q].pc = "look" /\ query'[q].r = r /\ (query'[q].late <=> ~Quiet)
        /\ \A k \in Queries \ {q} : query'[k] = query[k]
    BY <1>2, <2>1 DEF TypeOK, Idle
  <2>3. UNCHANGED <<mappings, extends>>
    BY <1>5 DEF Ask
  <2>4. /\ resolver' = r
        /\ resolver # Nothing => resolver' = resolver /\ heap' = heap
        /\ resolver = Nothing => heap' = [heap EXCEPT ![r] = Fresh(roots)]
    BY <1>2, <2>1, GetResolverTyped
  <2>5. ResolverIsRight'
    <3>1. CASE resolver # Nothing
      <4>1. ToDrop => ToDrop'
        BY <1>1, <2>4, <3>1 DEF ToDrop
      <4> QED
        BY <1>1, <1>2, <2>4, <3>1, <4>1, ResolverKept
    <3>2. CASE resolver = Nothing
      <4>1. heap'[resolver'] = Fresh(roots)
        BY <1>2, <2>4, <3>2 DEF TypeOK
      <4> QED
        BY <4>1 DEF ResolverIsRight, Right, Fresh, Unknown
    <3> QED
      BY <3>1, <3>2
  <2>6. QueriesAreRight'
    <3> SUFFICES ASSUME NEW k \in Queries, query'[k].pc # "idle", ~query'[k].late
                 PROVE  (/\ Quiet
                         /\ query[k].pc \in Asks => query[k].r = resolver
                         /\ query[k].pc \in {"keep", "search"} => query[k].map = mapping
                         /\ query[k].pc = "store" =>
                              query[k].found = Answer(mapping, heap[resolver].roots, There)
                         /\ query[k].pc = "record" => query[k].map = files[query[k].found])'
      BY DEF QueriesAreRight
    <3>1. CASE k = q
      BY <1>3, <2>2, <2>4, <3>1
    <3>2. CASE k # q
      <4>1. query[k].pc \in Asks => resolver # Nothing
        BY <1>2, <2>2, <3>2, PlacesAndNothing DEF PhasesTyped, QueriesAreRight
      <4> QED
        BY <1>1, <1>2, <1>3, <2>2, <2>4, <3>2, <4>1 DEF QueriesAreRight, Asks
    <3> QED
      BY <3>1, <3>2
  <2> QED
    BY <1>1, <1>2, <1>3, <2>3, <2>5, <2>6 DEF MappingsAreRight, ExtendsAreRight, Right
<1>6. ASSUME Look(q)
      PROVE  QueriesAreRight' /\ MappingsAreRight' /\ ExtendsAreRight' /\ ResolverIsRight'
  <2> DEFINE e == heap[query[q].r].path
             now == IF e.known
                    THEN [query[q] EXCEPT !.pc = "parent", !.found = e.value,
                                          !.late = query[q].late \/ e.late]
                    ELSE [query[q] EXCEPT !.pc = "mapping"]
  <2>1. query[q].r \in Resolvers /\ query[q].pc = "look"
    BY <1>2, <1>6 DEF Look, PhasesTyped, Asks
  <2>2. e \in Entry(Places)
    BY <1>2, <2>1 DEF TypeOK, ResolverState
  <2>3. /\ now \in QueryState /\ now.pc \in {"parent", "mapping"} /\ now.r = query[q].r
        /\ ~now.late => ~query[q].late
    BY <1>4, <2>1, <2>2 DEF QueryState, Entry
  <2> HIDE DEF now
  <2>4. /\ query' = [query EXCEPT ![q] = now]
        /\ UNCHANGED <<files, mapping, news, report, resolver, heap, mappings, extends>>
    BY <1>6 DEF Look, now, disk
  <2>5. QueriesAreRight'
    <3>1. now.pc # "idle" /\ ~now.late => Quiet /\ now.r = resolver
      BY <1>2, <2>1, <2>3 DEF QueriesAreRight, Asks
    <3> QED
      BY <2>3, <2>4, <3>1, OtherQueriesKept
  <2> QED
    BY <1>2, <1>3, <2>4, <2>5, ResolverKept DEF MappingsAreRight, ExtendsAreRight, Right, ToDrop
<1>7. ASSUME GetMapping(q)
      PROVE  QueriesAreRight' /\ MappingsAreRight' /\ ExtendsAreRight' /\ ResolverIsRight'
  <2> DEFINE now == IF mappings.known
                    THEN [query[q] EXCEPT !.pc = "search", !.map = mappings.value,
                                          !.late = query[q].late \/ mappings.late]
                    ELSE [query[q] EXCEPT !.pc = "keep", !.map = mapping]
  <2>1. mappings \in Entry(Targets) /\ mapping \in Targets \cup {Nothing}
        /\ query[q].pc = "mapping"
    BY <1>2, <1>7 DEF TypeOK, GetMapping
  <2>2. /\ now \in QueryState /\ now.pc \in {"keep", "search"} /\ now.r = query[q].r
        /\ ~now.late => /\ ~query[q].late
                        /\ ~mappings.known => now.map = mapping
                        /\ mappings.known => ~mappings.late /\ now.map = mappings.value
    <3>1. CASE mappings.known
      BY <1>4, <2>1, <3>1, PlacesAndNothing DEF QueryState, Entry
    <3>2. CASE ~mappings.known
      BY <1>4, <2>1, <3>2, PlacesAndNothing DEF QueryState
    <3> QED
      BY <3>1, <3>2
  <2> HIDE DEF now
  <2>3. /\ query' = [query EXCEPT ![q] = now]
        /\ UNCHANGED <<files, mapping, news, report, resolver, heap, mappings, extends>>
    BY <1>7 DEF GetMapping, now, disk
  <2>4. QueriesAreRight'
    <3>1. ~now.late => Quiet /\ now.r = resolver
      BY <1>2, <2>1, <2>2 DEF QueriesAreRight, Asks
    <3>2. ~now.late => now.map = mapping
      BY <1>2, <2>2, <3>1 DEF MappingsAreRight, Right
    <3> QED
      BY <2>2, <2>3, <3>1, <3>2, OtherQueriesKept
  <2> QED
    BY <1>2, <1>3, <2>3, <2>4, ResolverKept DEF MappingsAreRight, ExtendsAreRight, Right, ToDrop
<1>8. ASSUME KeepMapping(q)
      PROVE  QueriesAreRight' /\ MappingsAreRight' /\ ExtendsAreRight' /\ ResolverIsRight'
  <2> DEFINE now == [query[q] EXCEPT !.pc = "search"]
  <2>1. /\ now \in QueryState /\ now.pc = "search" /\ now.r = query[q].r
        /\ now.map = query[q].map /\ now.late = query[q].late
    BY <1>4 DEF QueryState
  <2>2. /\ query' = [query EXCEPT ![q] = now] /\ query[q].pc = "keep"
        /\ UNCHANGED <<files, mapping, news, report, resolver, heap, extends>>
        /\ mappings' = Known(query[q].map, query[q].late)
    BY <1>8 DEF KeepMapping, disk
  <2> HIDE DEF now
  <2>3. ~query[q].late => Quiet /\ query[q].r = resolver /\ query[q].map = mapping
    BY <1>2, <2>2 DEF QueriesAreRight, Asks
  <2>4. QueriesAreRight'
    BY <2>1, <2>2, <2>3, OtherQueriesKept
  <2>5. MappingsAreRight'
    BY <2>2, <2>3 DEF MappingsAreRight, Right, Known
  <2> QED
    BY <1>2, <1>3, <2>2, <2>4, <2>5, ResolverKept DEF ExtendsAreRight, Right, ToDrop
<1>9. ASSUME Search(q)
      PROVE  QueriesAreRight' /\ MappingsAreRight' /\ ExtendsAreRight' /\ ResolverIsRight'
  <2> DEFINE r == query[q].r
             l == heap[r].listing
             there == There \cup l.names
             found == Answer(query[q].map, heap[r].roots, there)
             late == query[q].late \/ l.late
             now == [query[q] EXCEPT !.pc = "store", !.map = Nothing, !.found = found, !.late = late]
             names == l.names \cup ({found} \cap there)
             listed == [heap[r] EXCEPT !.listing = [names |-> names, late |-> late]]
  <2>1. query[q].pc = "search" /\ r \in Resolvers
    BY <1>2, <1>9 DEF Search, PhasesTyped, Asks
  <2>2. heap[r] \in ResolverState /\ there \in SUBSET Places
    BY <1>2, <2>1 DEF TypeOK, There, ResolverState
  <2>3. found \in Places \cup {Nothing} /\ late \in BOOLEAN
    BY <1>4, <2>2, AnswerIsThere DEF ResolverState, QueryState
  <2>4. ~late => /\ ~query[q].late /\ ~l.late /\ Quiet /\ r = resolver
                 /\ query[q].map = mapping /\ resolver # Nothing
    BY <1>2, <2>1, PlacesAndNothing DEF QueriesAreRight, Asks
  <2>5. ~late => l.names \subseteq There
    BY <1>2, <2>4, QuietOwesNothing DEF ResolverIsRight
  <2>6. ~late => there = There /\ found = Answer(mapping, heap[resolver].roots, There)
                 /\ names \subseteq There
    BY <2>4, <2>5
  <2>7. /\ query' = [query EXCEPT ![q] = now] /\ heap' = [heap EXCEPT ![r] = listed]
        /\ UNCHANGED <<files, mapping, news, report, resolver, mappings, extends>>
    BY <1>9 DEF Search, disk
  <2> HIDE DEF found, late
  <2>8. now \in QueryState /\ now.pc = "store" /\ now.r = r /\ now.found = found /\ now.late = late
    BY <1>4, <2>3 DEF QueryState
  <2> HIDE DEF now, names, there
  <2>9. /\ listed.roots = heap[r].roots /\ listed.path = heap[r].path
        /\ listed.listing.names = names /\ listed.listing.late = late
    BY <2>2 DEF ResolverState
  <2> HIDE DEF listed
  <2>10. /\ heap'[r] = listed
         /\ \A k \in Resolvers \ {r} : heap'[k] = heap[k]
    BY <1>2, <2>1, <2>7 DEF TypeOK
  <2>11. resolver # Nothing => /\ heap'[resolver].roots = heap[resolver].roots
                               /\ heap'[resolver].path = heap[resolver].path
    BY <1>2, <2>9, <2>10 DEF TypeOK
  <2>12. QueriesAreRight'
    BY <2>4, <2>6, <2>7, <2>8, <2>11, OtherQueriesKept
  <2>13. ResolverIsRight'
    <3>1. resolver # Nothing /\ ~ToDrop =>
            heap'[resolver].listing.late \/ heap'[resolver].listing.names \subseteq There
      <4>1. CASE resolver = r
        BY <2>6, <2>9, <2>10, <4>1
      <4>2. CASE resolver # r
        BY <1>2, <2>10, <4>2 DEF TypeOK, ResolverIsRight
      <4> QED
        BY <4>1, <4>2
    <3>2. ToDrop' <=> ToDrop
      BY <2>7 DEF ToDrop
    <3> QED
      BY <1>2, <1>3, <2>7, <2>11, <3>1, <3>2 DEF ResolverIsRight, Right
  <2> QED
    BY <1>2, <1>3, <2>7, <2>12, <2>13 DEF MappingsAreRight, ExtendsAreRight, Right
<1>10. ASSUME Store(q)
      PROVE  QueriesAreRight' /\ MappingsAreRight' /\ ExtendsAreRight' /\ ResolverIsRight'
  <2> DEFINE r == query[q].r
             now == [query[q] EXCEPT !.pc = "parent"]
             kept == [heap[r] EXCEPT !.path = Known(query[q].found, query[q].late)]
  <2>1. query[q].pc = "store" /\ r \in Resolvers
    BY <1>2, <1>10 DEF Store, PhasesTyped, Asks
  <2>2. now \in QueryState /\ now.pc = "parent" /\ now.r = r /\ now.late = query[q].late
    BY <1>4 DEF QueryState
  <2>3. ~query[q].late => /\ Quiet /\ r = resolver
                          /\ query[q].found = Answer(mapping, heap[resolver].roots, There)
    BY <1>2, <2>1 DEF QueriesAreRight, Asks
  <2>4. /\ kept.roots = heap[r].roots /\ kept.listing = heap[r].listing
        /\ kept.path = Known(query[q].found, query[q].late)
    BY <1>2, <2>1 DEF TypeOK, ResolverState
  <2> HIDE DEF now, kept
  <2>5. /\ query' = [query EXCEPT ![q] = now] /\ heap' = [heap EXCEPT ![r] = kept]
        /\ UNCHANGED <<files, mapping, news, report, resolver, mappings, extends>>
    BY <1>10 DEF Store, disk, now, kept
  <2>6. heap'[r] = kept /\ \A k \in Resolvers \ {r} : heap'[k] = heap[k]
    BY <1>2, <2>1, <2>5 DEF TypeOK
  <2>7. resolver # Nothing => /\ heap'[resolver].roots = heap[resolver].roots
                              /\ heap'[resolver].listing = heap[resolver].listing
    BY <1>2, <2>4, <2>6 DEF TypeOK
  <2>8. QueriesAreRight'
    BY <2>2, <2>3, <2>5, <2>7, OtherQueriesKept
  <2>9. ResolverIsRight'
    <3>1. resolver # Nothing /\ ~ToDrop =>
            Right(heap'[resolver].path, Answer(mapping, heap[resolver].roots, There))
      <4>1. CASE resolver = r
        BY <2>3, <2>4, <2>6, <4>1 DEF Right, Known
      <4>2. CASE resolver # r
        BY <1>2, <2>6, <4>2 DEF TypeOK, ResolverIsRight
      <4> QED
        BY <4>1, <4>2
    <3>2. ToDrop' <=> ToDrop
      BY <2>5 DEF ToDrop
    <3> QED
      BY <1>2, <1>3, <2>5, <2>7, <3>1, <3>2 DEF ResolverIsRight, Right
  <2> QED
    BY <1>2, <1>3, <2>5, <2>8, <2>9 DEF MappingsAreRight, ExtendsAreRight, Right
<1>11. ASSUME LookExtends(q)
      PROVE  QueriesAreRight' /\ MappingsAreRight' /\ ExtendsAreRight' /\ ResolverIsRight'
  <2> DEFINE p == query[q].found
             now == IF p = Nothing \/ files[p] = Nothing \/ extends[p].known THEN Idle
                    ELSE [query[q] EXCEPT !.pc = "record", !.r = Nothing, !.map = files[p]]
  <2>1. query[q].pc = "parent" /\ p \in Places \cup {Nothing}
    BY <1>4, <1>11 DEF LookExtends, QueryState
  <2>2. p # Nothing => files[p] \in Parents \cup {Nothing}
    BY <1>2, <2>1 DEF TypeOK
  <2>3. /\ now \in QueryState
        /\ \/ now.pc = "idle"
           \/ now.pc = "record" /\ now.map = files[p] /\ now.found = p /\ now.late = query[q].late
    BY <1>4, <2>1, <2>2 DEF QueryState, Idle
  <2>4. ~query[q].late => Quiet
    BY <1>2, <2>1 DEF QueriesAreRight
  <2> HIDE DEF now
  <2>5. /\ query' = [query EXCEPT ![q] = now] /\ heap' = Swept(heap)
        /\ UNCHANGED <<files, mapping, news, report, resolver, mappings, extends>>
    BY <1>11 DEF LookExtends, disk, now
  <2>6. resolver # Nothing => heap'[resolver] = heap[resolver]
    BY <1>2, <2>5, SweptTyped DEF TypeOK
  <2>7. QueriesAreRight'
    BY <2>3, <2>4, <2>5, <2>6, OtherQueriesKept DEF Asks
  <2> QED
    BY <1>2, <1>3, <2>5, <2>6, <2>7, ResolverKept DEF MappingsAreRight, ExtendsAreRight, Right, ToDrop
<1>12. ASSUME RecordExtends(q)
      PROVE  QueriesAreRight' /\ MappingsAreRight' /\ ExtendsAreRight' /\ ResolverIsRight'
  <2>1. query[q].pc = "record" /\ Idle \in QueryState /\ Idle.pc = "idle"
    BY <1>12 DEF RecordExtends, Idle, QueryState
  <2>2. /\ query' = [query EXCEPT ![q] = Idle]
        /\ extends' = [extends EXCEPT ![query[q].found] = Known(query[q].map, query[q].late)]
        /\ UNCHANGED <<files, mapping, news, report, resolver, mappings, heap>>
    BY <1>12 DEF RecordExtends, disk
  <2>3. QueriesAreRight'
    BY <2>1, <2>2, OtherQueriesKept
  <2>4. Right(Known(query[q].map, query[q].late), files[query[q].found])
    BY <1>2, <2>1 DEF QueriesAreRight, Right, Known
  <2>5. ExtendsAreRight'
    BY <1>2, <1>3, <2>2, <2>4 DEF ExtendsAreRight, Right, TypeOK
  <2> QED
    BY <1>2, <1>3, <2>2, <2>3, <2>5, ResolverKept DEF MappingsAreRight, Right, ToDrop
<1> QED
  BY <1>5, <1>6, <1>7, <1>8, <1>9, <1>10, <1>11, <1>12 DEF Asking

-----------------------------------------------------------------------------
(* The theorems.                                                           *)

LEMMA InitRight == Init => IInv
<1> SUFFICES ASSUME Init  PROVE IInv
  OBVIOUS
<1>1. \A q \in Queries : query[q].pc = "idle"
  BY DEF Init, Idle
<1>2. mappings.known = FALSE /\ \A p \in Places : extends[p].known = FALSE
  BY DEF Init, Unknown
<1> QED
  BY <1>1, <1>2, InitTyped DEF IInv, QueriesAreRight, MappingsAreRight, ExtendsAreRight,
     ResolverIsRight, Right, Init

LEMMA NextRight == IInv /\ [Next]_vars => IInv'
<1> SUFFICES ASSUME IInv, [Next]_vars  PROVE IInv'
  OBVIOUS
<1>1. TypeOK' /\ PhasesTyped'
  BY NextTyped DEF IInv
<1>2. CASE UNCHANGED vars
  BY <1>2 DEF vars, disk, IInv, TypeOK, PhasesTyped, QueriesAreRight, MappingsAreRight,
     ExtendsAreRight, ResolverIsRight, Quiet, Right, There, ToForget, ToDrop
<1>3. CASE \E p \in Places : ChangeFile(p)
  BY <1>1, <1>3, ChangeKeeps DEF IInv
<1>4. CASE ChangeApplication \/ ChangeFolders
  BY <1>1, <1>4, ChangeKeeps DEF IInv
<1>5. CASE \E q \in Queries : Asking(q)
  BY <1>1, <1>5, QueryKeeps DEF IInv
<1>6. CASE \E w \in Reporters : Applying(w)
  BY <1>1, <1>6, ReportKeeps DEF IInv
<1> QED
  BY <1>2, <1>3, <1>4, <1>5, <1>6 DEF Next

\* When nothing is left to report, what a resolver, the mappings' cache or the
\* index remembers and the files no longer say was stored by a query that a
\* change or a report overlapped: server.invalidateSourceFile and
\* applyWatchedFileChanges drop everything else, in the order they do it.
THEOREM OnlyOverlappedIsStaleAlways == Spec => []OnlyOverlappedIsStale
<1>1. IInv => OnlyOverlappedIsStale
  BY QuietOwesNothing DEF IInv, MappingsAreRight, ExtendsAreRight, ResolverIsRight,
     OnlyOverlappedIsStale
<1> QED
  BY <1>1, InitRight, NextRight, PTL DEF Spec

\* Type correctness.
THEOREM SourceCachesTyped == Spec => []TypeOK
<1>1. IInv => TypeOK
  BY DEF IInv
<1> QED
  BY <1>1, InitRight, NextRight, PTL DEF Spec

=============================================================================
