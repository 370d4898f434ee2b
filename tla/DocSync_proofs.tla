-------------------------- MODULE DocSync_proofs --------------------------
(***************************************************************************)
(* For any number of goroutines, revisions and burst length, and whatever  *)
(* happens to the file and the workspace meanwhile: the document's lock    *)
(* excludes, those who take it with lockDoc see a parse of the current     *)
(* text, a closed document holds nothing, an owed reparse is scheduled.    *)
(* And, as long as nothing takes the parse or the index from under the     *)
(* editor: it brings the index up to date, which is behind only then.      *)
(***************************************************************************)
EXTENDS DocSync, TLAPS

-----------------------------------------------------------------------------
(* Type correctness *)

LEMMA Texts ==
    ASSUME TypeOK
    PROVE  /\ NoText \in Text
           /\ lastRev < MaxRev => NewText \in Text /\ NewText # NoText
  BY DocAssumption DEF TypeOK, Text, NoText, NewText

LEMMA Records ==
    ASSUME NoText \in Text
    PROVE  /\ Idle \in Doing
           /\ \A op \in Handlers \cup Background \cup Lockless, own \in Text, live \in BOOLEAN :
                Job(op, own, live) \in Doing
  BY DEF Idle, Doing, Job

\* A goroutine that goes on stays well typed.
LEMMA Moves ==
    ASSUME NEW r \in Doing, NEW own \in Text
    PROVE  /\ [r EXCEPT !.at = "checked"] \in Doing
           /\ [r EXCEPT !.at = "drop"] \in Doing
           /\ [r EXCEPT !.at = "invalidate"] \in Doing
           /\ [r EXCEPT !.at = "read", !.own = own] \in Doing
           /\ [r EXCEPT !.at = "drop", !.own = own] \in Doing
<1>1. [r EXCEPT !.at = "checked"] \in Doing
  BY DEF Doing
<1>2. [r EXCEPT !.at = "drop"] \in Doing
  BY DEF Doing
<1>3. [r EXCEPT !.at = "invalidate"] \in Doing
  BY DEF Doing
<1>4. [r EXCEPT !.at = "read", !.own = own] \in Doing
  BY DEF Doing
<1>5. [r EXCEPT !.at = "drop", !.own = own] \in Doing
  BY DEF Doing
<1> QED
  BY <1>1, <1>2, <1>3, <1>4, <1>5

LEMMA DetachedType == TypeOK => Detached(act) \in [Actors -> Doing]
  BY DEF TypeOK, Detached, Doing

LEMMA TypeStep == TypeOK /\ [Next]_vars => TypeOK'
<1> SUFFICES ASSUME TypeOK, [Next]_vars PROVE TypeOK'
  OBVIOUS
<1>a. NoText \in Text /\ (lastRev < MaxRev => NewText \in Text)
  BY Texts
<1>b. /\ Idle \in Doing
      /\ \A op \in Handlers \cup Background \cup Lockless, own \in Text, live \in BOOLEAN :
           Job(op, own, live) \in Doing
  BY <1>a, Records
<1>c. \A a \in Actors : act[a] \in Doing
  BY DEF TypeOK
<1> USE <1>a, <1>b, <1>c, DetachedType, DocAssumption
    DEF TypeOK, Actors, Handlers, Background, Lockless
<1>1. CASE UNCHANGED vars
  BY <1>1 DEF vars, texts, held, locks
<1>2. ASSUME NEW op \in Handlers, Receive(op) PROVE TypeOK'
  BY <1>2 DEF Receive, Job, texts, held, locks
<1>3. ASSUME NEW s \in Slots, DidOpen(s) PROVE TypeOK'
  BY <1>3 DEF DidOpen, Free, locks, Text, NewText
<1>4. ASSUME NEW s \in Slots, DidSave(s) PROVE TypeOK'
  BY <1>4 DEF DidSave, Free, held, locks
<1>5. ASSUME NEW c \in Notifications, NEW fresh \in BOOLEAN, NEW many \in BOOLEAN,
             DidChange(c, fresh, many)
      PROVE TypeOK'
  <2>1. doc' \in Text
    BY <1>5 DEF DidChange, Apply, Text
  <2>2. changes' \in 0..(Burst + 1)
    BY <1>5 DEF DidChange
  <2>3. parse' \in Text /\ ranges' \in Text /\ cacheTimer' \in Text /\ index' \in 0..MaxRev
    BY <1>5, <2>1 DEF DidChange, Text
  <2>4. pending' \in BOOLEAN /\ reparseTimer' \in BOOLEAN
    BY <1>5 DEF DidChange, ScheduleReparse
  <2> QED
    BY <1>5, <2>1, <2>2, <2>3, <2>4 DEF DidChange, locks
<1>d. NoCache \in [file : 0..MaxRev, func : 0..MaxRev]
  BY DEF NoCache
<1>6. CASE DidClose
  <2>1. act' \in [Actors -> Doing]
    BY <1>6 DEF DidClose
  <2>2. doc' \in Text /\ parse' \in Text /\ ranges' \in Text /\ cacheTimer' \in Text
    BY <1>6 DEF DidClose
  <2>3. pending' \in BOOLEAN /\ reparseTimer' \in BOOLEAN
    BY <1>6 DEF DidClose
  <2>4. changes' \in 0..(Burst + 1)
    BY <1>6 DEF DidClose
  <2>5. comp' \in [file : 0..MaxRev, func : 0..MaxRev]
    BY <1>6, <1>d DEF DidClose
  <2>6. disk' \in Text /\ lastRev' \in 0..MaxRev /\ index' \in 0..MaxRev /\ entry' \in Nat /\ minted' \in Nat
    BY <1>6 DEF DidClose, texts, ForgetLock
  <2> QED
    BY <2>1, <2>2, <2>3, <2>4, <2>5, <2>6
<1>7. CASE Query
  BY <1>7 DEF Query, texts, held, locks
<1>8. CASE DiskChanges
  BY <1>8 DEF DiskChanges, held, locks
<1>9. ASSUME NEW a \in Actors, Ask(a) PROVE TypeOK'
  <2>1. entry' \in Nat /\ minted' \in Nat
    BY <1>9 DEF Ask
  <2>2. [act[a] EXCEPT !.at = "waiting", !.mutex = entry'] \in Doing
    BY <1>9, <2>1 DEF Doing
  <2>3. act' \in [Actors -> Doing]
    BY <1>9, <2>2 DEF Ask
  <2> QED
    BY <1>9, <2>1, <2>3 DEF Ask, texts
<1>10. ASSUME NEW a \in Actors, Enter(a) PROVE TypeOK'
  <2>1. [act[a] EXCEPT !.at = "in"] \in Doing
    BY <1>10 DEF Doing
  <2>2. act' \in [Actors -> Doing]
    BY <1>10, <2>1 DEF Enter
  <2>3. /\ parse' \in Text /\ ranges' \in Text
        /\ index' \in 0..MaxRev /\ pending' \in BOOLEAN
    BY <1>10 DEF Enter, Flush, Text
  <2> QED
    BY <1>10, <2>2, <2>3 DEF Enter, texts, locks
<1>11. ASSUME NEW s \in Slots, FireReparse(s) \/ FireCache(s) PROVE TypeOK'
  <2>1. CASE FireReparse(s)
    BY <2>1 DEF FireReparse, texts, held, locks
  <2>2. CASE FireCache(s)
    BY <2>2 DEF FireCache, texts, held, locks
  <2> QED
    BY <1>11, <2>1, <2>2
<1>12. ASSUME NEW s \in Slots, Rebuild(s) PROVE TypeOK'
  <2>1. act' \in [Actors -> Doing]
    BY <1>12 DEF Rebuild, Reparsed, CacheRebuilt, OpenRebuilt, SaveRebuilt
  <2>2. CASE Reparsed(s)
    BY <2>1, <2>2 DEF Reparsed, texts, held, locks
  <2>3. CASE CacheRebuilt(s)
    BY <2>1, <2>3 DEF CacheRebuilt, RebuildFunc, texts, held, locks, Text, Doing
  <2>4. CASE OpenRebuilt(s)
    BY <2>1, <2>4 DEF OpenRebuilt, texts, held, locks, Text, Doing
  <2>5. CASE SaveRebuilt(s)
    BY <2>1, <2>5 DEF SaveRebuilt, Reparse, texts, locks, Text
  <2> QED
    BY <1>12, <2>2, <2>3, <2>4, <2>5 DEF Rebuild
<1>13. ASSUME NEW s \in Slots, Scan(s) PROVE TypeOK'
  <2>1. \A r \in Doing, own \in Text :
          /\ [r EXCEPT !.at = "checked"] \in Doing
          /\ [r EXCEPT !.at = "drop"] \in Doing
          /\ [r EXCEPT !.at = "invalidate"] \in Doing
          /\ [r EXCEPT !.at = "read", !.own = own] \in Doing
          /\ [r EXCEPT !.at = "drop", !.own = own] \in Doing
    BY Moves
  <2>2. CASE RemoveDeleted(s)
    <3>1. act' \in [Actors -> Doing]
      BY <2>1, <2>2 DEF RemoveDeleted
    <3> QED
      BY <2>2, <3>1 DEF RemoveDeleted, texts, held, locks
  <2>3. CASE CheckOpen(s)
    BY <2>1, <2>3 DEF CheckOpen, texts, held, locks
  <2>4. CASE ReadFile(s)
    <3>0. /\ [act[s] EXCEPT !.at = "read", !.own = disk] \in Doing
          /\ [act[s] EXCEPT !.at = "drop"] \in Doing
      BY <2>1
    <3>1. act' \in [Actors -> Doing]
      BY <3>0, <2>4 DEF ReadFile
    <3> QED
      BY <2>4, <3>1 DEF ReadFile, texts, held, locks
  <2>5. CASE ApplyIndexResult(s)
    <3>1. act' \in [Actors -> Doing]
      BY <2>1, <2>5 DEF ApplyIndexResult
    <3>2. index' \in 0..MaxRev
      BY <2>5 DEF ApplyIndexResult, Doing, Text
    <3> QED
      BY <2>5, <3>1, <3>2 DEF ApplyIndexResult, texts, held, locks
  <2>6. CASE DropFileCaches(s)
    <3>1. act' \in [Actors -> Doing]
      BY <2>1, <2>6 DEF DropFileCaches
    <3> QED
      BY <2>6, <3>1 DEF DropFileCaches, texts, locks
  <2>7. CASE InvalidateFile(s)
    BY <1>d, <2>7 DEF InvalidateFile, texts, held, locks
  <2> QED
    BY <1>13, <2>2, <2>3, <2>4, <2>5, <2>6, <2>7 DEF Scan
<1>14. ASSUME NEW s \in Slots, Watched(s) \/ Reindex(s) \/ Restart(s) PROVE TypeOK'
  <2>1. CASE Watched(s)
    BY <2>1 DEF Watched, texts, held, locks
  <2>2. CASE Reindex(s)
    BY <2>2 DEF Reindex, texts, held, locks
  <2>3. CASE Restart(s)
    BY <1>d, <2>3 DEF Restart, texts, locks
  <2> QED
    BY <1>14, <2>1, <2>2, <2>3
<1> QED
  BY <1>1, <1>2, <1>3, <1>4, <1>5, <1>6, <1>7, <1>8, <1>9, <1>10, <1>11, <1>12,
     <1>13, <1>14 DEF Next, Handle

LEMMA TypeInit == Init => TypeOK
<1> SUFFICES ASSUME Init PROVE TypeOK
  OBVIOUS
<1>1. act \in [Actors -> Doing]
  BY DocAssumption DEF Init, Doing, Text, NoText, Idle
<1>2. /\ disk \in Text /\ doc \in Text /\ parse \in Text
              /\ ranges \in Text /\ cacheTimer \in Text
  BY DocAssumption DEF Init, Text, NoText
<1>3. /\ changes \in 0..(Burst + 1) /\ index \in 0..MaxRev /\ lastRev \in 0..MaxRev
              /\ comp \in [file : 0..MaxRev, func : 0..MaxRev]
  BY DocAssumption DEF Init, NoCache
<1>4. pending \in BOOLEAN /\ reparseTimer \in BOOLEAN /\ entry \in Nat /\ minted \in Nat
  BY DEF Init
<1> QED
  BY <1>1, <1>2, <1>3, <1>4 DEF TypeOK

-----------------------------------------------------------------------------
(* The lock *)

\* Whoever waits for a mutex, or holds one, has the one in s.docLocks.
Ticketed ==
    \A a \in Actors : act[a].at \in {"waiting", "in"} => entry # 0 /\ act[a].mutex = entry

LockInv == OneHolder /\ Ticketed

Same(a) ==
    /\ act'[a].at = act[a].at
    /\ act'[a].op = act[a].op
    /\ act'[a].mutex = act[a].mutex

\* Nobody comes to wait for the lock but by Ask, or to hold it but by Enter.
AtLock(a) == act'[a].at \in {"waiting", "in"} => Same(a)

LEMMA DetachedSame ==
    ASSUME TypeOK, NEW a \in Actors
    PROVE  /\ Detached(act)[a].at = act[a].at
           /\ Detached(act)[a].op = act[a].op
           /\ Detached(act)[a].mutex = act[a].mutex
  BY DEF TypeOK, Detached, Doing

LEMMA OtherSteps ==
    ASSUME TypeOK, [Next]_vars,
           \A a \in Actors : ~Ask(a) /\ ~Enter(a)
    PROVE  (\A a \in Actors : AtLock(a)) /\ entry' = entry
<1> DEFINE Goal == (\A a \in Actors : AtLock(a)) /\ entry' = entry
<1> USE DEF TypeOK, Actors
<1>1. CASE UNCHANGED vars
  BY <1>1 DEF vars, locks, AtLock, Same
<1>2. CASE Handle
  <2>1. Idle.at = "idle" /\ \A op, own, live : Job(op, own, live).at = "start"
    BY DEF Idle, Job
  <2>2. CASE DidClose
    BY <2>1, <2>2, DetachedSame DEF DidClose, ForgetLock, AtLock, Same, Detached
  <2>3. ASSUME NEW op \in Handlers, Receive(op) PROVE Goal
    BY <2>1, <2>3 DEF Receive, locks, AtLock, Same
  <2>4. ASSUME NEW s \in Slots, DidOpen(s) PROVE Goal
    BY <2>1, <2>4 DEF DidOpen, Free, locks, AtLock, Same
  <2>5. ASSUME NEW s \in Slots, DidSave(s) PROVE Goal
    BY <2>1, <2>5 DEF DidSave, Free, locks, AtLock, Same
  <2>6. ASSUME NEW c \in Notifications, NEW fresh \in BOOLEAN, NEW many \in BOOLEAN,
               DidChange(c, fresh, many)
        PROVE Goal
    BY <2>1, <2>6 DEF DidChange, locks, AtLock, Same
  <2>7. CASE Query
    BY <2>1, <2>7 DEF Query, locks, AtLock, Same
  <2> QED
    BY <1>2, <2>2, <2>3, <2>4, <2>5, <2>6, <2>7 DEF Handle
<1>3. CASE DiskChanges
  BY <1>3 DEF DiskChanges, locks, AtLock, Same
<1>4. ASSUME NEW s \in Slots,
             \/ FireReparse(s) \/ FireCache(s) \/ Rebuild(s) \/ Scan(s)
             \/ Watched(s) \/ Reindex(s) \/ Restart(s)
      PROVE  Goal
  <2>1. Idle.at = "idle" /\ \A op, own, live : Job(op, own, live).at = "start"
    BY DEF Idle, Job
  <2>2. CASE Restart(s)
    BY <2>1, <2>2, DetachedSame DEF Restart, locks, AtLock, Same, Detached
  <2>3. CASE Scan(s)
    <3>1. CASE RemoveDeleted(s)
      BY <3>1 DEF RemoveDeleted, locks, AtLock, Same, Doing
    <3>2. CASE CheckOpen(s)
      BY <2>1, <3>2 DEF CheckOpen, locks, AtLock, Same, Doing
    <3>3. CASE ReadFile(s)
      <4>1. \/ act' = [act EXCEPT ![s].at = "read", ![s].own = disk]
            \/ act' = [act EXCEPT ![s].at = "drop"]
            \/ act' = [act EXCEPT ![s] = Idle]
        BY <3>3 DEF ReadFile
      <4>2. entry' = entry
        BY <3>3 DEF ReadFile, locks
      <4>3. CASE act' = [act EXCEPT ![s].at = "read", ![s].own = disk]
        BY <4>2, <4>3 DEF AtLock, Same, Doing
      <4>4. CASE act' = [act EXCEPT ![s].at = "drop"]
        BY <4>2, <4>4 DEF AtLock, Same, Doing
      <4>5. CASE act' = [act EXCEPT ![s] = Idle]
        BY <2>1, <4>2, <4>5 DEF AtLock, Same
      <4> QED
        BY <4>1, <4>3, <4>4, <4>5
    <3>4. CASE ApplyIndexResult(s)
      BY <2>1, <3>4 DEF ApplyIndexResult, locks, AtLock, Same, Doing
    <3>5. CASE DropFileCaches(s)
      <4>1. /\ Detached(act) \in [Actors -> Doing]
            /\ \A a \in Actors : /\ Detached(act)[a].at = act[a].at
                                 /\ Detached(act)[a].op = act[a].op
                                 /\ Detached(act)[a].mutex = act[a].mutex
        BY DetachedType, DetachedSame
      <4>2. act' = [Detached(act) EXCEPT ![s].at = "invalidate"] /\ entry' = entry
        BY <3>5 DEF DropFileCaches, locks
      <4> QED
        BY <4>1, <4>2 DEF AtLock, Same, Doing
    <3>6. CASE InvalidateFile(s)
      BY <2>1, <3>6 DEF InvalidateFile, locks, AtLock, Same
    <3> QED
      BY <2>3, <3>1, <3>2, <3>3, <3>4, <3>5, <3>6 DEF Scan
  <2>4. CASE FireReparse(s) \/ FireCache(s) \/ Watched(s) \/ Reindex(s)
    <3>1. PICK op \in Background \cup Lockless, own \in Text :
            act' = [act EXCEPT ![s] = Job(op, own, FALSE)]
      BY <2>4, Texts DEF FireReparse, FireCache, Watched, Reindex, Background, Lockless
    <3>2. entry' = entry
      BY <2>4 DEF FireReparse, FireCache, Watched, Reindex, locks
    <3>3. Job(op, own, FALSE).at = "start"
      BY <2>1
    <3> QED
      BY <3>1, <3>2, <3>3 DEF AtLock, Same
  <2>5. CASE Rebuild(s)
    BY <2>1, <2>5 DEF Rebuild, Reparsed, CacheRebuilt, OpenRebuilt, SaveRebuilt, locks,
                      AtLock, Same
  <2> QED
    BY <1>4, <2>2, <2>3, <2>4, <2>5
<1> QED
  BY <1>1, <1>2, <1>3, <1>4 DEF Next

LEMMA LockStep == TypeOK /\ LockInv /\ [Next]_vars => LockInv'
<1> SUFFICES ASSUME TypeOK, LockInv, [Next]_vars PROVE LockInv'
  OBVIOUS
<1>1. ASSUME NEW a \in Actors, Ask(a) PROVE LockInv'
  BY <1>1 DEF Ask, LockInv, OneHolder, Ticketed, Holders, TypeOK
<1>2. ASSUME NEW a \in Actors, Enter(a) PROVE LockInv'
  BY <1>2 DEF Enter, LockInv, OneHolder, Ticketed, Holders, TypeOK, locks
<1>3. CASE \A a \in Actors : ~Ask(a) /\ ~Enter(a)
  <2>1. (\A a \in Actors : AtLock(a)) /\ entry' = entry
    BY <1>3, OtherSteps
  <2> QED
    BY <2>1 DEF LockInv, OneHolder, Ticketed, Holders, AtLock, Same
<1> QED
  BY <1>1, <1>2, <1>3

-----------------------------------------------------------------------------
(* The parse *)

\* The edits a notification can carry all keep to what applyEdit assumes: one
\* inside a function leaves the signatures alone.
Plain == EditKinds \subseteq {"func", "global"}

\* A parse that is not marked as lagging is of the text.
Tracks == Open /\ parse # NoText /\ ~pending => parse = doc

\* Nobody holds the lock through lockDoc with a reparse still owed.
PaidOnEntry == \A a \in Holders : act[a].op \in Flushing => ~pending

ParseInv == Tracks /\ PaidOnEntry

LEMMA InPlace ==
    ASSUME Plain, TypeOK, NEW c \in Notifications, InFunction(c)
    PROVE  Apply(c) = [rev |-> lastRev + 1, sig |-> doc.sig]
<1>1. \A i \in DOMAIN c : c[i] \in EditKinds
  BY DEF Notifications
<1>2. \A i \in DOMAIN c : c[i] = "func"
  BY <1>1 DEF Plain, InFunction
<1> QED
  BY <1>2 DEF Apply

\* The steps that touch neither the text nor the parse, or drop the parse.
Aside ==
    /\ doc' = doc /\ pending' = pending
    /\ parse' \in {parse, NoText}
    /\ ranges' \in {ranges, NoText}
    /\ changes' \in {changes, 0}

LEMMA AsideSteps ==
    ASSUME \/ \E s \in Slots :
                \/ FireReparse(s) \/ FireCache(s) \/ Scan(s)
                \/ Reparsed(s) \/ CacheRebuilt(s) \/ OpenRebuilt(s) \/ DidSave(s)
                \/ Watched(s) \/ Reindex(s) \/ Restart(s)
           \/ DiskChanges \/ Query
           \/ (\E op \in Handlers : Receive(op)) \/ (\E a \in Actors : Ask(a))
           \/ UNCHANGED vars
    PROVE  Aside
  BY DEF FireReparse, FireCache, Scan, RemoveDeleted, CheckOpen, ReadFile, ApplyIndexResult,
         DropFileCaches, InvalidateFile, Reparsed, CacheRebuilt, OpenRebuilt, DidSave,
         Watched, Reindex, Restart, DiskChanges, Query, Receive, Ask, Aside, held, vars

LEMMA ClosedStep == TypeOK /\ ClosedHoldsNothing /\ [Next]_vars => ClosedHoldsNothing'
<1> SUFFICES ASSUME TypeOK, ClosedHoldsNothing, [Next]_vars PROVE ClosedHoldsNothing'
  OBVIOUS
<1> USE DEF ClosedHoldsNothing, Open
<1>1. CASE UNCHANGED vars
  BY <1>1 DEF vars, held
<1>2. ASSUME NEW s \in Slots, DidOpen(s) PROVE ClosedHoldsNothing'
  BY <1>2, Texts DEF DidOpen
<1>3. ASSUME NEW c \in Notifications, NEW fresh \in BOOLEAN, NEW many \in BOOLEAN,
             DidChange(c, fresh, many)
      PROVE ClosedHoldsNothing'
  <2>1. doc'.rev # NoText.rev
    BY <1>3 DEF DidChange, Apply, NoText, TypeOK
  <2> QED
    BY <2>1
<1>4. CASE DidClose
  BY <1>4 DEF DidClose, NoCache
<1>5. CASE Query \/ DiskChanges
  BY <1>5 DEF Query, DiskChanges, held
<1>6. ASSUME NEW op \in Handlers, Receive(op) PROVE ClosedHoldsNothing'
  BY <1>6 DEF Receive, held
<1>7. ASSUME NEW a \in Actors, Ask(a) \/ Enter(a) PROVE ClosedHoldsNothing'
  BY <1>7 DEF Ask, Enter, Flush
<1>8. ASSUME NEW s \in Slots, FireReparse(s) \/ FireCache(s) PROVE ClosedHoldsNothing'
  BY <1>8 DEF FireReparse, FireCache, held
<1>9. ASSUME NEW s \in Slots, Rebuild(s) PROVE ClosedHoldsNothing'
  BY <1>9 DEF Rebuild, Reparsed, CacheRebuilt, RebuildFunc, OpenRebuilt, SaveRebuilt,
              Reparse, held, TypeOK
<1>10. ASSUME NEW s \in Slots, Scan(s) PROVE ClosedHoldsNothing'
  BY <1>10 DEF Scan, RemoveDeleted, CheckOpen, ReadFile, ApplyIndexResult, DropFileCaches,
               InvalidateFile, held, NoCache
<1>11. ASSUME NEW s \in Slots, Watched(s) \/ Reindex(s) \/ Restart(s) \/ DidSave(s)
       PROVE ClosedHoldsNothing'
  <2>1. CASE Watched(s)
    BY <2>1 DEF Watched, held
  <2>2. CASE Reindex(s)
    BY <2>2 DEF Reindex, held
  <2>3. CASE Restart(s)
    BY <2>3 DEF Restart, NoCache
  <2>4. CASE DidSave(s)
    BY <2>4 DEF DidSave, held
  <2> QED
    BY <1>11, <2>1, <2>2, <2>3, <2>4
<1> QED
  BY <1>1, <1>2, <1>3, <1>4, <1>5, <1>6, <1>7, <1>8, <1>9, <1>10, <1>11 DEF Next, Handle

LEMMA ParseStep ==
    Plain /\ TypeOK /\ LockInv /\ ClosedHoldsNothing /\ ParseInv /\ [Next]_vars => ParseInv'
<1> SUFFICES ASSUME Plain, TypeOK, LockInv, ClosedHoldsNothing, ParseInv, [Next]_vars
             PROVE ParseInv'
  OBVIOUS
<1> USE DEF ParseInv
<1>1. ASSUME NEW a \in Actors, Enter(a) PROVE ParseInv'
  <2>1. CASE act[a].op \in Flushing
    <3>1. pending' = FALSE /\ doc' = doc
      BY <1>1, <2>1 DEF Enter, Flush
    <3>2. Tracks'
      BY <1>1, <2>1 DEF Enter, Flush, Tracks, Open, TypeOK
    <3> QED
      BY <3>1, <3>2 DEF PaidOnEntry
  <2>2. CASE act[a].op \notin Flushing
    BY <1>1, <2>2 DEF Enter, Tracks, Open, PaidOnEntry, Holders, TypeOK
  <2> QED
    BY <2>1, <2>2
<1>2. ASSUME \A a \in Actors : ~Enter(a) PROVE \A a \in Holders' : a \in Holders /\ act'[a].op = act[a].op
  <2>1. ASSUME NEW b \in Actors, Ask(b) PROVE \A a \in Holders' : a \in Holders /\ act'[a].op = act[a].op
    BY <2>1 DEF Ask, Holders, TypeOK
  <2>2. CASE \A b \in Actors : ~Ask(b)
    BY <1>2, <2>2, OtherSteps DEF AtLock, Same, Holders
  <2> QED
    BY <2>1, <2>2
<1>3. ASSUME \A a \in Actors : ~Enter(a), Aside PROVE ParseInv'
  BY <1>2, <1>3 DEF Aside, Tracks, Open, PaidOnEntry
<1>4. ASSUME \A a \in Actors : ~Enter(a), NEW s \in Slots, DidOpen(s) PROVE ParseInv'
  <2>1. pending' = pending /\ parse' = doc'
    BY <1>4 DEF DidOpen
  <2> QED
    BY <1>2, <1>4, <2>1 DEF Tracks, PaidOnEntry
<1>5. ASSUME \A a \in Actors : ~Enter(a),
             NEW c \in Notifications, NEW fresh \in BOOLEAN, NEW many \in BOOLEAN,
             DidChange(c, fresh, many)
      PROVE ParseInv'
  <2>1. Reader \in Holders /\ Reader \notin Holders'
    BY <1>5 DEF DidChange, Holders, TypeOK, Idle, Actors
  <2>2. Holders' = {}
    BY <1>2, <1>5, <2>1 DEF LockInv, OneHolder
  <2>3. \/ pending' = TRUE
        \/ parse' = doc'
        \/ InFunction(c) /\ parse # NoText /\ ~pending /\ parse' = [doc' EXCEPT !.sig = parse.sig]
    BY <1>5 DEF DidChange, ScheduleReparse, EditsInPlace
  <2>4. ASSUME InFunction(c), parse # NoText, ~pending,
               parse' = [doc' EXCEPT !.sig = parse.sig]
        PROVE parse' = doc'
    <3>1. doc' = [rev |-> lastRev + 1, sig |-> doc.sig]
      BY <1>5, <2>4, InPlace DEF DidChange
    <3>2. parse = doc
      BY <2>4 DEF Tracks, ClosedHoldsNothing
    <3> QED
      BY <2>4, <3>1, <3>2
  <2> QED
    BY <2>2, <2>3, <2>4 DEF Tracks, PaidOnEntry
<1>6. ASSUME \A a \in Actors : ~Enter(a), DidClose PROVE ParseInv'
  BY <1>2, <1>6 DEF DidClose, Tracks, Open, PaidOnEntry
<1>7. ASSUME \A a \in Actors : ~Enter(a), NEW s \in Slots, SaveRebuilt(s) PROVE ParseInv'
  <2>1. doc' = doc /\ pending' = pending /\ (parse' = parse \/ parse' = doc)
    BY <1>7 DEF SaveRebuilt, Reparse
  <2> QED
    BY <1>2, <1>7, <2>1 DEF Tracks, Open, PaidOnEntry
<1> QED
  BY <1>1, <1>3, <1>4, <1>5, <1>6, <1>7, AsideSteps DEF Next, Handle, Rebuild

-----------------------------------------------------------------------------
(* The owed reparse *)

OnItsWay(s) == act[s].op = "reparse" /\ act[s].at \in {"start", "waiting"}

\* What a step does to a reparse timer's goroutine that has yet to flush.
Stays(s) ==
    OnItsWay(s) => OnItsWay(s)' \/ (pending' = FALSE)

LEMMA OnItsWayStays == TypeOK /\ [Next]_vars => \A s \in Slots : Stays(s)
<1> SUFFICES ASSUME TypeOK, [Next]_vars, NEW r \in Slots, OnItsWay(r), ~(pending' = FALSE)
             PROVE OnItsWay(r)'
  BY DEF Stays
<1> USE DocAssumption DEF OnItsWay, TypeOK, Actors
<1>0. r # Reader /\ act[r] # Idle
  BY DEF Idle
<1>1. CASE UNCHANGED vars
  BY <1>1 DEF vars
<1>2. ASSUME NEW op \in Handlers, Receive(op) PROVE OnItsWay(r)'
  BY <1>0, <1>2 DEF Receive
<1>3. ASSUME NEW s \in Slots, DidOpen(s) \/ DidSave(s) PROVE OnItsWay(r)'
  BY <1>0, <1>3 DEF DidOpen, DidSave, Free
<1>4. ASSUME NEW c \in Notifications, NEW fresh \in BOOLEAN, NEW many \in BOOLEAN,
             DidChange(c, fresh, many)
      PROVE OnItsWay(r)'
  BY <1>0, <1>4 DEF DidChange
<1>5. CASE DidClose
  BY <1>5 DEF DidClose
<1>6. CASE Query \/ DiskChanges
  BY <1>0, <1>6 DEF Query, DiskChanges
<1>7. ASSUME NEW a \in Actors, Ask(a) PROVE OnItsWay(r)'
  <2>1. CASE a = r
    BY <1>7, <2>1 DEF Ask, Doing
  <2>2. CASE a # r
    BY <1>7, <2>2 DEF Ask
  <2> QED
    BY <2>1, <2>2
<1>8. ASSUME NEW a \in Actors, Enter(a) PROVE OnItsWay(r)'
  BY <1>8 DEF Enter, Flush, Flushing, Background
<1>9. ASSUME NEW s \in Slots, FireReparse(s) \/ FireCache(s) PROVE OnItsWay(r)'
  BY <1>0, <1>9 DEF FireReparse, FireCache, Free
<1>10. ASSUME NEW s \in Slots, Rebuild(s) PROVE OnItsWay(r)'
  BY <1>10 DEF Rebuild, Reparsed, CacheRebuilt, OpenRebuilt, SaveRebuilt
<1>11. ASSUME NEW s \in Slots, Scan(s) PROVE OnItsWay(r)'
  <2>1. s # r
    BY <1>11 DEF Scan, RemoveDeleted, CheckOpen, ReadFile, ApplyIndexResult, DropFileCaches,
                 InvalidateFile
  <2>2. CASE DropFileCaches(s)
    BY <2>1, <2>2, DetachedSame DEF DropFileCaches, Detached
  <2> QED
    BY <1>11, <2>1, <2>2 DEF Scan, RemoveDeleted, CheckOpen, ReadFile, ApplyIndexResult,
                             InvalidateFile
<1>12. ASSUME NEW s \in Slots, Watched(s) \/ Reindex(s) PROVE OnItsWay(r)'
  BY <1>0, <1>12 DEF Watched, Reindex, Free
<1>13. ASSUME NEW s \in Slots, Restart(s) PROVE OnItsWay(r)'
  BY <1>0, <1>13, DetachedSame DEF Restart, Free, Detached
<1> QED
  BY <1>1, <1>2, <1>3, <1>4, <1>5, <1>6, <1>7, <1>8, <1>9, <1>10, <1>11, <1>12,
     <1>13 DEF Next, Handle

LEMMA OwedStep == TypeOK /\ OwedIsScheduled /\ [Next]_vars => OwedIsScheduled'
<1> SUFFICES ASSUME TypeOK, OwedIsScheduled, [Next]_vars, pending' # FALSE
             PROVE \/ reparseTimer'
                   \/ \E s \in Slots : OnItsWay(s)'
  BY DEF OwedIsScheduled, OnItsWay, TypeOK
<1>1. ASSUME NEW s \in Slots, FireReparse(s) PROVE \E r \in Slots : OnItsWay(r)'
  BY <1>1 DEF FireReparse, OnItsWay, Job, TypeOK, Actors
<1>2. CASE reparseTimer' # reparseTimer \/ pending' # pending
  BY <1>1, <1>2 DEF Next, Handle, vars, held, Receive, DidOpen, DidSave, DidChange,
     ScheduleReparse, DidClose, Query, DiskChanges, Ask, Enter, Flush, FireCache, Rebuild,
     Reparsed, CacheRebuilt, OpenRebuilt, SaveRebuilt, Scan, RemoveDeleted, CheckOpen,
     ReadFile, ApplyIndexResult, DropFileCaches, InvalidateFile, Watched, Reindex, Restart
<1>3. CASE reparseTimer' = reparseTimer /\ pending' = pending
  <2>1. CASE reparseTimer
    BY <1>3, <2>1
  <2>2. CASE ~reparseTimer
    <3>1. \E s \in Slots : OnItsWay(s)
      BY <1>3, <2>2 DEF OwedIsScheduled, OnItsWay, TypeOK
    <3>2. PICK s \in Slots : OnItsWay(s)
      BY <3>1
    <3>3. OnItsWay(s)'
      BY <3>2, OnItsWayStays DEF Stays
    <3> QED
      BY <3>3
  <2> QED
    BY <2>1, <2>2
<1> QED
  BY <1>2, <1>3

-----------------------------------------------------------------------------
(* The theorems *)

LEMMA InitHolds ==
    Init => TypeOK /\ LockInv /\ ClosedHoldsNothing /\ ParseInv /\ OwedIsScheduled
<1> SUFFICES ASSUME Init
             PROVE TypeOK /\ LockInv /\ ClosedHoldsNothing /\ ParseInv /\ OwedIsScheduled
  OBVIOUS
<1>1. \A a \in Actors : act[a].at = "idle"
  BY DEF Init, Idle
<1> QED
  BY <1>1, TypeInit DEF Init, LockInv, OneHolder, Ticketed, Holders, ClosedHoldsNothing,
     NoCache, ParseInv, Tracks, Open, PaidOnEntry, OwedIsScheduled

\* The lock excludes, closed documents hold nothing, owed reparses are
\* scheduled: whatever the edits are.
THEOREM DocumentSafe ==
    Spec => [](TypeOK /\ OneHolder /\ ClosedHoldsNothing /\ OwedIsScheduled)
<1> DEFINE Inv == TypeOK /\ LockInv /\ ClosedHoldsNothing /\ OwedIsScheduled
<1>1. Init => Inv
  BY InitHolds
<1>2. Inv /\ [Next]_vars => Inv'
  BY TypeStep, LockStep, ClosedStep, OwedStep
<1>3. Inv => TypeOK /\ OneHolder /\ ClosedHoldsNothing /\ OwedIsScheduled
  BY DEF LockInv
<1> QED
  BY <1>1, <1>2, <1>3, PTL DEF Spec

\* While edits inside a function leave its signatures alone, every reader sees
\* a parse of the text: through bursts, deferrals, dropped parses, closes.
THEOREM ReadersCurrent ==
    ASSUME Plain
    PROVE  Spec => []ReadersSeeTheText
<1> DEFINE Inv == TypeOK /\ LockInv /\ ClosedHoldsNothing /\ ParseInv
<1>1. Init => Inv
  BY InitHolds
<1>2. Inv /\ [Next]_vars => Inv'
  BY Plain, TypeStep, LockStep, ClosedStep, ParseStep
<1>3. Inv => ReadersSeeTheText
  BY DEF ParseInv, Tracks, PaidOnEntry, ReadersSeeTheText
<1> QED
  BY <1>1, <1>2, <1>3, PTL DEF Spec

-----------------------------------------------------------------------------
(* The index                                                                *)
(*                                                                          *)
(* Restarts and drops of a file's caches take the parse from under a        *)
(* deferred edit; scans and reports file what they read before the document *)
(* was opened.  What is left once they are out of the way is the deferral   *)
(* itself: the burst, the timer, the flush, closes and reopens.             *)

\* Nothing drops the parse of an open document.
ParseStays == "disk" \notin Externals /\ "restart" \notin Externals

\* What runs without the lock reads the file for a scan.
OnlyScans ==
    \A a \in Actors :
        /\ act[a].op \notin {"changed", "deleted"} /\ act[a].at # "drop"
        /\ act[a].at \in {"checked", "read"} => act[a].op = "scan"

\* An open document has a parse, and it is an open document that changes.
OpenIsParsed ==
    /\ Open => parse # NoText
    /\ act[Reader].op = "change" => Open

\* Where goroutines are sent.
LEMMA OnlyScansStep == ParseStays /\ TypeOK /\ OnlyScans /\ [Next]_vars => OnlyScans'
<1> SUFFICES ASSUME ParseStays, TypeOK, OnlyScans, [Next]_vars PROVE OnlyScans'
  OBVIOUS
<1> USE DEF OnlyScans, TypeOK
<1>1. CASE UNCHANGED vars
  BY <1>1 DEF vars
<1>2. ASSUME NEW op \in Handlers, Receive(op) PROVE OnlyScans'
  BY <1>2 DEF Receive, Job, Handlers
<1>3. ASSUME NEW s \in Slots, DidOpen(s) \/ DidSave(s) \/ FireReparse(s) \/ FireCache(s) \/ Reindex(s)
      PROVE OnlyScans'
  BY <1>3 DEF DidOpen, DidSave, FireReparse, FireCache, Reindex, Job, Idle
<1>4. ASSUME \/ \E c \in Notifications, fresh, many \in BOOLEAN : DidChange(c, fresh, many)
             \/ Query \/ \E s \in Slots : Rebuild(s)
      PROVE OnlyScans'
  BY <1>4 DEF DidChange, Query, Rebuild, Reparsed, CacheRebuilt, OpenRebuilt, SaveRebuilt, Idle
<1>5. CASE DidClose
  BY <1>5, DetachedSame DEF DidClose, Idle, Detached
<1>6. ASSUME NEW a \in Actors, Ask(a) \/ Enter(a) PROVE OnlyScans'
  <2>1. CASE Ask(a)
    BY <2>1 DEF Ask, Doing
  <2>2. CASE Enter(a)
    BY <2>2 DEF Enter, Doing
  <2> QED
    BY <1>6, <2>1, <2>2
<1>7. ASSUME NEW s \in Slots, Scan(s) PROVE OnlyScans'
  <2> USE DEF Actors
  <2>1. CASE CheckOpen(s)
    BY <2>1 DEF CheckOpen, Idle
  <2>2. CASE ReadFile(s)
    <3>1. act[s].op = "scan"
      BY <2>2 DEF ReadFile
    <3>2. \/ act' = [act EXCEPT ![s].at = "read", ![s].own = disk]
          \/ act' = [act EXCEPT ![s] = Idle]
      BY <2>2, <3>1 DEF ReadFile
    <3>3. CASE act' = [act EXCEPT ![s].at = "read", ![s].own = disk]
      BY <3>1, <3>3 DEF Doing
    <3> QED
      BY <3>2, <3>3 DEF Idle
  <2>3. CASE ApplyIndexResult(s)
    BY <2>3 DEF ApplyIndexResult, Idle
  <2>4. CASE InvalidateFile(s)
    BY <2>4 DEF InvalidateFile, Idle
  <2> QED
    BY <1>7, <2>1, <2>2, <2>3, <2>4 DEF Scan, RemoveDeleted, DropFileCaches
<1>8. ASSUME DiskChanges \/ \E s \in Slots : Watched(s) \/ Restart(s) PROVE OnlyScans'
  BY <1>8 DEF Watched, Restart, DiskChanges, ParseStays
<1> QED
  BY <1>1, <1>2, <1>3, <1>4, <1>5, <1>6, <1>7, <1>8 DEF Next, Handle

\* Only the reader's own steps change what the reader does.
LEMMA ReaderStays ==
    ASSUME TypeOK, [Next]_vars, act'[Reader].op # act[Reader].op
    PROVE  \/ \E op \in Handlers : Receive(op)
           \/ act'[Reader].op = "none"
<1> USE DocAssumption DEF TypeOK, Actors
<1>1. CASE UNCHANGED vars \/ DiskChanges
  BY <1>1 DEF vars, DiskChanges
<1>2. ASSUME NEW s \in Slots, DidOpen(s) \/ DidSave(s) PROVE act'[Reader].op \in {act[Reader].op, "none"}
  <2>1. s # Reader
    OBVIOUS
  <2>2. CASE DidOpen(s)
    BY <2>1, <2>2 DEF DidOpen, Idle
  <2>3. CASE DidSave(s)
    BY <2>1, <2>3 DEF DidSave
  <2> QED
    BY <1>2, <2>2, <2>3
<1>3. ASSUME \/ \E c \in Notifications, fresh, many \in BOOLEAN : DidChange(c, fresh, many)
             \/ DidClose \/ Query
      PROVE act'[Reader].op \in {act[Reader].op, "none"}
  <2>1. CASE DidClose
    BY <2>1 DEF DidClose, Idle, Detached
  <2>2. CASE Query
    BY <2>2 DEF Query, Idle
  <2>3. ASSUME NEW c \in Notifications, NEW fresh \in BOOLEAN, NEW many \in BOOLEAN,
               DidChange(c, fresh, many)
        PROVE act'[Reader].op = "none"
    BY <2>3 DEF DidChange, Idle
  <2> QED
    BY <1>3, <2>1, <2>2, <2>3
<1>4. ASSUME NEW a \in Actors, Ask(a) \/ Enter(a) PROVE act'[Reader].op = act[Reader].op
  <2>1. CASE Ask(a)
    BY <2>1 DEF Ask, Doing
  <2>2. CASE Enter(a)
    BY <2>2 DEF Enter, Doing
  <2> QED
    BY <1>4, <2>1, <2>2
<1>5. ASSUME NEW s \in Slots, \/ FireReparse(s) \/ FireCache(s) \/ Rebuild(s)
                              \/ Watched(s) \/ Reindex(s)
      PROVE act'[Reader].op = act[Reader].op
  BY <1>5 DEF FireReparse, FireCache, Rebuild, Reparsed, CacheRebuilt, OpenRebuilt, SaveRebuilt,
              Watched, Reindex
<1>6. ASSUME NEW s \in Slots, Scan(s) \/ Restart(s) PROVE act'[Reader].op = act[Reader].op
  BY <1>6, DetachedSame DEF Scan, RemoveDeleted, CheckOpen, ReadFile, ApplyIndexResult,
              DropFileCaches, InvalidateFile, Restart, Detached
<1> QED
  BY <1>1, <1>2, <1>3, <1>4, <1>5, <1>6 DEF Next, Handle

LEMMA ParsedStep ==
    ASSUME ParseStays, TypeOK, OnlyScans, OpenIsParsed, [Next]_vars
    PROVE  OpenIsParsed'
<1> USE DEF OpenIsParsed, Open
<1>0. act'[Reader].op = "change" => Open
  <2>1. ASSUME NEW op \in Handlers, Receive(op), act'[Reader].op = "change" PROVE Open
    BY <2>1 DEF Receive, Job, TypeOK, Actors
  <2> QED
    BY <2>1, ReaderStays
<1>1. ASSUME NEW a \in Actors, Enter(a) PROVE OpenIsParsed'
  BY <1>0, <1>1 DEF Enter, Flush
<1>2. ASSUME NEW s \in Slots, DidOpen(s) PROVE OpenIsParsed'
  BY <1>2, DocAssumption DEF DidOpen, TypeOK, Actors, Idle
<1>3. ASSUME NEW c \in Notifications, NEW fresh \in BOOLEAN, NEW many \in BOOLEAN,
             DidChange(c, fresh, many)
      PROVE OpenIsParsed'
  <2>1. doc # NoText
    BY <1>3 DEF DidChange
  <2>2. doc'.rev # NoText.rev /\ act'[Reader].op = "none"
    BY <1>3 DEF DidChange, Apply, NoText, TypeOK, Actors, Idle
  <2>3. parse' \in {parse, doc', [doc' EXCEPT !.sig = parse.sig]}
    BY <1>3 DEF DidChange
  <2>4. [doc' EXCEPT !.sig = parse.sig].rev = doc'.rev
    BY <1>3, <2>2 DEF DidChange, Apply
  <2> QED
    BY <2>1, <2>2, <2>3, <2>4
<1>4. CASE DidClose
  <2>1. act'[Reader].op = "none"
    BY <1>4 DEF DidClose, Idle, Detached, Actors
  <2> QED
    BY <1>4, <2>1 DEF DidClose
<1>5. ASSUME NEW s \in Slots, SaveRebuilt(s) PROVE OpenIsParsed'
  BY <1>0, <1>5 DEF SaveRebuilt, Reparse
<1>6. CASE doc' = doc /\ parse' = parse
  BY <1>0, <1>6
<1>7. ASSUME NEW s \in Slots, Scan(s) PROVE doc' = doc /\ parse' = parse
  BY <1>7 DEF Scan, RemoveDeleted, CheckOpen, ReadFile, ApplyIndexResult, InvalidateFile,
              DropFileCaches, OnlyScans, Actors, held
<1> QED
  BY <1>1, <1>2, <1>3, <1>4, <1>5, <1>6, <1>7
     DEF Next, Handle, Rebuild, ParseStays, Receive, DidSave, Query, DiskChanges, Ask, FireReparse,
         FireCache, Reparsed, CacheRebuilt, OpenRebuilt, Watched, Reindex, Restart, vars, held
LEMMA InitParsed == Init => OnlyScans /\ OpenIsParsed
  BY DocAssumption DEF Init, OnlyScans, OpenIsParsed, Open, Idle, Actors

\* scheduleReparse's word, "the index is current within reparseDelay", as long as
\* no parse is dropped: whoever settles the owed reparse of an open document -
\* the timer's goroutine, a request that flushes, a save - brings the index up to
\* date.
THEOREM OwedIsAlwaysPaid ==
    ASSUME ParseStays
    PROVE  Spec => OwedReparseIsPaid
<1> DEFINE Inv == TypeOK /\ OnlyScans /\ OpenIsParsed
<1>1. Init => Inv
  BY InitHolds, InitParsed
<1>2. Inv /\ [Next]_vars => Inv'
  BY ParseStays, TypeStep, OnlyScansStep, ParsedStep
<1>3. Inv /\ [Next]_vars =>
        [pending /\ ~pending' /\ Open /\ doc' = doc => index' = doc.sig]_vars
  <2> SUFFICES ASSUME Inv, Next, pending, ~pending', Open, doc' = doc
               PROVE index' = doc.sig
    BY DEF vars
  <2>1. ASSUME NEW a \in Actors, Enter(a) PROVE index' = doc.sig
    BY <2>1 DEF Enter, Flush, OpenIsParsed
  <2>2. ~DidClose
    BY DEF DidClose, Open
  <2> QED
    BY <2>1, <2>2 DEF Next, Handle, held, Receive, DidOpen, DidSave, DidChange, ScheduleReparse,
       Query, DiskChanges, Ask, FireReparse, FireCache, Rebuild, Reparsed, CacheRebuilt,
       OpenRebuilt, SaveRebuilt, Scan, RemoveDeleted, CheckOpen, ReadFile, ApplyIndexResult,
       DropFileCaches, InvalidateFile, Watched, Reindex, Restart
<1> QED
  BY <1>1, <1>2, <1>3, PTL DEF Spec, OwedReparseIsPaid

\* The index has the signatures of the text unless a reparse is owed.
IndexTracks == Open /\ ~pending => index = doc.sig

NoScans == \A a \in Actors : act[a].op # "scan"

LEMMA NoScansStep == Externals = {} /\ TypeOK /\ NoScans /\ [Next]_vars => NoScans'
<1> SUFFICES ASSUME Externals = {}, TypeOK, NoScans, [Next]_vars PROVE NoScans'
  OBVIOUS
<1> USE DEF NoScans, TypeOK
<1>1. CASE UNCHANGED vars
  BY <1>1 DEF vars
<1>2. ASSUME NEW op \in Handlers, Receive(op) PROVE NoScans'
  BY <1>2 DEF Receive, Job, Handlers
<1>3. ASSUME NEW s \in Slots, DidOpen(s) \/ DidSave(s) \/ FireReparse(s) \/ FireCache(s)
      PROVE NoScans'
  BY <1>3 DEF DidOpen, DidSave, FireReparse, FireCache, Job, Idle
<1>4. ASSUME \/ \E c \in Notifications, fresh, many \in BOOLEAN : DidChange(c, fresh, many)
             \/ Query \/ \E s \in Slots : Rebuild(s)
      PROVE NoScans'
  BY <1>4 DEF DidChange, Query, Rebuild, Reparsed, CacheRebuilt, OpenRebuilt, SaveRebuilt, Idle
<1>5. CASE DidClose
  BY <1>5, DetachedSame DEF DidClose, Idle, Detached
<1>6. ASSUME NEW a \in Actors, Ask(a) \/ Enter(a) PROVE NoScans'
  <2>1. CASE Ask(a)
    BY <2>1 DEF Ask, Doing
  <2>2. CASE Enter(a)
    BY <2>2 DEF Enter, Doing
  <2> QED
    BY <1>6, <2>1, <2>2
<1>7. ASSUME NEW s \in Slots, Scan(s) PROVE NoScans'
  <2>0. act[s] \in Doing
    BY DEF Actors
  <2>1. CASE RemoveDeleted(s) \/ CheckOpen(s)
    BY <2>0, <2>1 DEF RemoveDeleted, CheckOpen, Idle, Doing
  <2>2. CASE ReadFile(s)
    BY <2>0, <2>2 DEF ReadFile, Idle, Doing
  <2>3. CASE ApplyIndexResult(s)
    BY <2>0, <2>3 DEF ApplyIndexResult, Idle, Doing
  <2>4. CASE DropFileCaches(s)
    BY <2>4, DetachedSame DEF DropFileCaches, Detached, Doing
  <2>5. CASE InvalidateFile(s)
    BY <2>5 DEF InvalidateFile, Idle
  <2> QED
    BY <1>7, <2>1, <2>2, <2>3, <2>4, <2>5 DEF Scan
<1>8. ~(DiskChanges \/ \E s \in Slots : Watched(s) \/ Reindex(s) \/ Restart(s))
  BY DEF Watched, Reindex, Restart, DiskChanges
<1> QED
  BY <1>1, <1>2, <1>3, <1>4, <1>5, <1>6, <1>7, <1>8 DEF Next, Handle

LEMMA IndexStep ==
    ASSUME Plain, TypeOK, OnlyScans, NoScans, OpenIsParsed, IndexTracks, [Next]_vars
    PROVE  IndexTracks'
<1> USE DEF IndexTracks, Open
<1>1. ASSUME NEW a \in Actors, Enter(a) PROVE IndexTracks'
  BY <1>1 DEF Enter, Flush, OpenIsParsed, TypeOK
<1>2. ASSUME NEW s \in Slots, DidOpen(s) PROVE IndexTracks'
  BY <1>2 DEF DidOpen
<1>3. ASSUME NEW c \in Notifications, NEW fresh \in BOOLEAN, NEW many \in BOOLEAN,
             DidChange(c, fresh, many), ~pending'
      PROVE index' = doc'.sig
  <2>1. doc # NoText
    BY <1>3 DEF DidChange, OpenIsParsed
  <2>2. CASE index' = doc'.sig
    BY <2>2
  <2>3. CASE EditsInPlace(c) /\ index' = index
    <3>1. InFunction(c) /\ ~pending
      BY <2>3 DEF EditsInPlace
    <3>2. doc' = [rev |-> lastRev + 1, sig |-> doc.sig]
      BY <1>3, <3>1, InPlace DEF DidChange
    <3> QED
      BY <2>1, <2>3, <3>1, <3>2
  <2> QED
    BY <1>3, <2>2, <2>3 DEF DidChange, ScheduleReparse
<1>4. CASE DidClose
  BY <1>4 DEF DidClose
<1>5. CASE doc' = doc /\ pending' = pending /\ index' = index
  BY <1>5
<1>6. ASSUME NEW s \in Slots, Scan(s) PROVE doc' = doc /\ pending' = pending /\ index' = index
  BY <1>6 DEF Scan, RemoveDeleted, CheckOpen, ReadFile, ApplyIndexResult, InvalidateFile,
              DropFileCaches, OnlyScans, NoScans, Actors, held
<1> QED
  BY <1>1, <1>2, <1>3, <1>4, <1>5, <1>6
     DEF Next, Handle, Rebuild, Receive, DidSave, Query, DiskChanges, Ask, FireReparse, FireCache,
         Reparsed, CacheRebuilt, OpenRebuilt, SaveRebuilt, Watched, Reindex, Restart, vars, held

\* As long as nothing but the editor is at work, an index that is behind the open
\* document has a reparse owed, and the timer for it is armed or its goroutine on
\* its way: what IndexCatchesUp rests on beside the scheduler.
THEOREM IndexBehindIsOwed ==
    ASSUME Plain, Externals = {}
    PROVE  Spec => [](Open /\ index # doc.sig =>
                        /\ pending
                        /\ \/ reparseTimer
                           \/ \E s \in Slots :
                                act[s].op = "reparse" /\ act[s].at \in {"start", "waiting"})
<1> DEFINE Inv == TypeOK /\ OnlyScans /\ NoScans /\ OpenIsParsed /\ IndexTracks /\ OwedIsScheduled
<1>0. ParseStays
  BY DEF ParseStays
<1>1. Init => Inv
  BY InitHolds, InitParsed DEF Init, NoScans, Idle, IndexTracks, Open
<1>2. Inv /\ [Next]_vars => Inv'
  BY <1>0, TypeStep, OnlyScansStep, NoScansStep, ParsedStep, IndexStep, OwedStep
<1>3. Inv => (Open /\ index # doc.sig =>
                /\ pending
                /\ \/ reparseTimer
                   \/ \E s \in Slots :
                        act[s].op = "reparse" /\ act[s].at \in {"start", "waiting"})
  BY DEF IndexTracks, OwedIsScheduled, TypeOK
<1> QED
  BY <1>1, <1>2, <1>3, PTL DEF Spec

=============================================================================
