-------------------------- MODULE Workspace_proofs --------------------------
(***************************************************************************)
(* CollectorRestored, OnlyOvertakenLags and NeverStuck, for any files,     *)
(* folders, scans, batches and settings.                                   *)
(*                                                                         *)
(* The collector's setting alone is not inductive: the last scan restores  *)
(* what the first one saved, whichever they are, so the counter must be    *)
(* the number of scans under way (Counted), and what was saved the         *)
(* process's own setting for as long as one is (Saved).  What the index    *)
(* holds, and who waits for whom, need invariants of their own, which      *)
(* follow below.                                                           *)
(***************************************************************************)
EXTENDS Workspace, FiniteSetTheorems, TLAPS

Working == {s \in Scans : scan[s].pc \in {"list", "work"}}
Walking == IF walk.pc = "work" THEN 1 ELSE 0

Typed ==
  /\ gc \in [percent : Int, prev : Int, running : Nat, own : Int]
  /\ DOMAIN scan = Scans

Counted == gc.running = Cardinality(Working) + Walking

Saved == gc.running # 0 => gc.prev = gc.own

IInv == Typed /\ Counted /\ Saved /\ CollectorRestored

-----------------------------------------------------------------------------
\* What runs is what the counter counts: a number, which is 0 when nobody works.
LEMMA RunningIsANumber ==
  ASSUME WorkspaceAssumption
  PROVE  /\ IsFiniteSet(Working) /\ Cardinality(Working) \in Nat
         /\ Walking \in {0, 1} /\ Running = Cardinality(Working) + Walking
  <1>1. IsFiniteSet(Scans) BY DEF WorkspaceAssumption
  <1>2. Working \subseteq Scans BY DEF Working
  <1>3. IsFiniteSet(Working) BY <1>1, <1>2, FS_Subset
  <1>4. Cardinality(Working) \in Nat BY <1>3, FS_CardinalityType
  <1> QED BY <1>3, <1>4 DEF Walking, Running, Working

\* The invariant, in terms of the counter.
LEMMA RestoredByCount ==
  ASSUME WorkspaceAssumption, Typed, Counted
  PROVE  CollectorRestored <=>
           gc.percent = IF gc.running = 0 \/ gc.own < IndexingPercent THEN gc.own ELSE IndexingPercent
  BY RunningIsANumber DEF Counted, CollectorRestored

\* A goroutine that is idle is started: nobody works who did not.
LEMMA GoStartsIdle ==
  ASSUME DOMAIN scan = Scans, NEW S, Idle(scan) # {}, scan' = Go(scan, S)
  PROVE  DOMAIN scan' = Scans /\ Working' = Working
  <1> DEFINE k == CHOOSE k \in Idle(scan) : TRUE
  <1>1. k \in Scans /\ scan[k] = Off BY DEF Idle
  <1>2. scan' = [scan EXCEPT ![k] = Starting(S)] BY DEF Go
  <1>3. scan[k].pc = "off" BY <1>1 DEF Off
  <1>4. scan'[k].pc = "start" BY <1>1, <1>2 DEF Starting, Off
  <1> HIDE DEF k
  <1>5. DOMAIN scan' = Scans BY <1>2
  <1>6. \A s \in Scans \ {k} : scan'[s] = scan[s] BY <1>2
  <1>7. Working' = Working
    <2>1. ASSUME NEW s PROVE s \in Working' <=> s \in Working
      <3>1. CASE s = k BY <3>1, <1>3, <1>4 DEF Working
      <3>2. CASE s # k BY <3>2, <1>6 DEF Working
      <3> QED BY <3>1, <3>2
    <2> QED BY <2>1
  <1> QED BY <1>5, <1>7

\* The invariant is kept by what leaves the collector and the work alone.
LEMMA KeptAlone ==
  ASSUME IInv, UNCHANGED gc, DOMAIN scan' = Scans, Working' = Working, Walking' = Walking
  PROVE  IInv'
  <1>1. Running' = Running
    BY DEF Running, Working, Walking
  <1>2. Typed' BY DEF IInv, Typed
  <1>3. Counted' BY DEF IInv, Counted
  <1>4. Saved' BY DEF IInv, Saved
  <1>5. CollectorRestored' BY <1>1 DEF IInv, CollectorRestored, IndexingPercent
  <1> QED BY <1>2, <1>3, <1>4, <1>5 DEF IInv

\* One more works: the first saves the setting that it replaces.
LEMMA KeptOnEnter ==
  ASSUME WorkspaceAssumption, IInv, EnterScan, DOMAIN scan' = Scans,
         Cardinality(Working') + Walking' = Cardinality(Working) + Walking + 1
  PROVE  IInv'
  <1>0. gc.running = Cardinality(Working) + Walking BY DEF IInv, Counted
  <1>1. /\ gc \in [percent : Int, prev : Int, running : Nat, own : Int]
        /\ gc.running # 0 => gc.prev = gc.own
        /\ gc.percent = IF gc.running = 0 \/ gc.own < 50 THEN gc.own ELSE 50
    BY RestoredByCount DEF IInv, Typed, Saved, IndexingPercent
  <1>2. /\ gc' \in [percent : Int, prev : Int, running : Nat, own : Int]
        /\ gc'.running = gc.running + 1 /\ gc'.own = gc.own
        /\ gc'.prev = gc.own
        /\ gc'.percent = IF gc.own < 50 THEN gc.own ELSE 50
    <2>1. CASE gc.running = 0
      <3> DEFINE lower == IF gc.percent < 50 THEN gc.percent ELSE 50
      <3>1. gc' = [gc EXCEPT !.running = 1, !.prev = gc.percent, !.percent = lower]
        BY <2>1 DEF EnterScan, IndexingPercent
      <3>2. gc.percent = gc.own BY <2>1, <1>1
      <3>3. lower \in Int /\ lower = IF gc.own < 50 THEN gc.own ELSE 50 BY <1>1, <3>2
      <3> HIDE DEF lower
      <3>4. gc' \in [percent : Int, prev : Int, running : Nat, own : Int] BY <3>1, <3>3, <1>1
      <3>5. gc'.running = 1 /\ gc'.own = gc.own /\ gc'.prev = gc.percent /\ gc'.percent = lower
        BY <3>1, <1>1
      <3> QED BY <3>2, <3>3, <3>4, <3>5, <2>1
    <2>2. CASE gc.running # 0
      <3>1. gc' = [gc EXCEPT !.running = gc.running + 1] BY <2>2 DEF EnterScan
      <3>2. gc' \in [percent : Int, prev : Int, running : Nat, own : Int] BY <3>1, <1>1
      <3>3. /\ gc'.running = gc.running + 1 /\ gc'.own = gc.own /\ gc'.prev = gc.prev
            /\ gc'.percent = gc.percent
        BY <3>1, <1>1
      <3> QED BY <3>2, <3>3, <2>2, <1>1
    <2> QED BY <2>1, <2>2
  <1>3. Typed' BY <1>2 DEF Typed
  <1>4. Counted' BY <1>0, <1>2 DEF Counted
  <1>5. Saved' BY <1>2 DEF Saved
  <1>6. Running' = gc'.running BY <1>4, <1>2 DEF Counted, Running, Working, Walking
  <1>7. CollectorRestored' BY <1>1, <1>2, <1>6 DEF CollectorRestored, IndexingPercent
  <1> QED BY <1>3, <1>4, <1>5, <1>7 DEF IInv

\* One works no longer: the last restores it.
LEMMA KeptOnLeave ==
  ASSUME WorkspaceAssumption, IInv, LeaveScan, DOMAIN scan' = Scans,
         Cardinality(Working') + Walking' \in Nat,
         Cardinality(Working') + Walking' + 1 = Cardinality(Working) + Walking
  PROVE  IInv'
  <1>0. gc.running = Cardinality(Working) + Walking BY DEF IInv, Counted
  <1>1. /\ gc \in [percent : Int, prev : Int, running : Nat, own : Int]
        /\ gc.running # 0 => gc.prev = gc.own
        /\ gc.percent = IF gc.running = 0 \/ gc.own < 50 THEN gc.own ELSE 50
    BY RestoredByCount DEF IInv, Typed, Saved, IndexingPercent
  <1> DEFINE left == Cardinality(Working') + Walking'
  <1>2. left \in Nat /\ gc.running = left + 1 BY <1>0
  <1> HIDE DEF left
  <1>3. /\ gc' \in [percent : Int, prev : Int, running : Nat, own : Int]
        /\ gc'.running = left /\ gc'.own = gc.own /\ gc'.prev = gc.own
        /\ gc'.percent = IF left = 0 THEN gc.own ELSE gc.percent
    <2>1. gc' = [gc EXCEPT !.running = gc.running - 1,
                           !.percent = IF gc.running = 1 THEN gc.prev ELSE gc.percent]
      BY DEF LeaveScan
    <2>2. gc.prev = gc.own /\ gc.running - 1 = left /\ (gc.running = 1 <=> left = 0)
      BY <1>1, <1>2
    <2>3. gc' = [gc EXCEPT !.running = left, !.percent = IF left = 0 THEN gc.own ELSE gc.percent]
      BY <2>1, <2>2
    <2>4. gc' \in [percent : Int, prev : Int, running : Nat, own : Int] BY <2>3, <1>1, <1>2
    <2>5. /\ gc'.running = left /\ gc'.own = gc.own /\ gc'.prev = gc.prev
          /\ gc'.percent = IF left = 0 THEN gc.own ELSE gc.percent
      BY <2>3, <1>1
    <2> QED BY <2>2, <2>4, <2>5
  <1>4. Typed' BY <1>3 DEF Typed
  <1>5. Counted' BY <1>3 DEF Counted, left
  <1>6. Saved' BY <1>3 DEF Saved
  <1>7. Running' = left BY DEF left, Running, Working, Walking
  <1>8. CollectorRestored' BY <1>1, <1>2, <1>3, <1>7 DEF CollectorRestored, IndexingPercent
  <1> QED BY <1>4, <1>5, <1>6, <1>8 DEF IInv

-----------------------------------------------------------------------------
\* A scan that goes on with its work stays at work.
LEMMA KeptInScan ==
  ASSUME IInv, NEW s \in Scans, scan[s].pc \in {"list", "work"}, UNCHANGED <<gc, walk>>,
         DOMAIN scan' = Scans, scan'[s].pc \in {"list", "work"},
         \A k \in Scans \ {s} : scan'[k] = scan[k]
  PROVE  IInv'
  <1>1. Working' = Working
    <2>1. ASSUME NEW k PROVE k \in Working' <=> k \in Working
      <3>1. CASE k = s BY <3>1 DEF Working
      <3>2. CASE k # s BY <3>2 DEF Working
      <3> QED BY <3>1, <3>2
    <2> QED BY <2>1
  <1> QED BY <1>1, KeptAlone DEF Walking

LEMMA KeptByScanning ==
  ASSUME WorkspaceAssumption, IInv, NEW s \in Scans, Scanning(s)
  PROVE  IInv'
  <1>0. DOMAIN scan = Scans BY DEF IInv, Typed
  <1>1. CASE BeginScan(s)
    <2>1. scan' = [scan EXCEPT ![s] = [Off EXCEPT !.pc = "list", !.todo = Found(roots)]]
      BY <1>1 DEF BeginScan
    <2>2. s \notin Working BY <1>1 DEF BeginScan, Working
    <2>3. scan'[s].pc = "list" BY <2>1, <1>0 DEF Off
    <2>4. DOMAIN scan' = Scans /\ \A k \in Scans \ {s} : scan'[k] = scan[k] BY <2>1, <1>0
    <2>5. Working' = Working \cup {s}
      <3>1. ASSUME NEW k PROVE k \in Working' <=> k \in Working \cup {s}
        <4>1. CASE k = s BY <4>1, <2>3 DEF Working
        <4>2. CASE k # s BY <4>2, <2>4 DEF Working
        <4> QED BY <4>1, <4>2
      <3> QED BY <3>1
    <2>6. Cardinality(Working') = Cardinality(Working) + 1
      BY <2>2, <2>5, RunningIsANumber, FS_AddElement
    <2>7. Walking' = Walking BY <1>1 DEF BeginScan, Walking
    <2> QED BY <2>4, <2>6, <2>7, <1>1, RunningIsANumber, KeptOnEnter DEF BeginScan
  <1>2. CASE Collect(s)
    <2>1. PICK some : scan' = [scan EXCEPT ![s].pc = "work", ![s].todo = some] BY <1>2 DEF Collect
    <2>2. scan'[s].pc = "work" BY <2>1, <1>0
    <2> QED BY <1>2, <2>1, <2>2, <1>0, KeptInScan DEF Collect
  <1>3. CASE ReadInScan(s)
    <2>1. PICK f \in scan[s].todo :
            scan' = [scan EXCEPT ![s].todo = @ \ {f},
                            ![s].read = @ \cup {r \in {Reading(f)} : Exists(r)}]
      BY <1>3 DEF ReadInScan
    <2>2. scan'[s].pc = scan[s].pc BY <2>1, <1>0
    <2>3. DOMAIN scan' = Scans /\ \A k \in Scans \ {s} : scan'[k] = scan[k] BY <2>1, <1>0
    <2> QED BY <1>3, <2>2, <2>3, KeptInScan DEF ReadInScan
  <1>4. CASE FileInScan(s)
    <2>1. PICK r : scan' = [scan EXCEPT ![s].read = @ \ {r}] BY <1>4 DEF FileInScan
    <2>2. scan'[s].pc = scan[s].pc BY <2>1, <1>0
    <2>3. DOMAIN scan' = Scans /\ \A k \in Scans \ {s} : scan'[k] = scan[k] BY <2>1, <1>0
    <2>4. Working' = Working
      <3>1. ASSUME NEW k PROVE k \in Working' <=> k \in Working
        <4>1. CASE k = s BY <4>1, <2>2 DEF Working
        <4>2. CASE k # s BY <4>2, <2>3 DEF Working
        <4> QED BY <4>1, <4>2
      <3> QED BY <3>1
    <2> QED BY <1>4, <2>3, <2>4, KeptAlone DEF FileInScan, Walking
  <1>5. CASE EndScan(s)
    <2>1. scan' = [scan EXCEPT ![s] = Off] BY <1>5 DEF EndScan
    <2>2. s \in Working BY <1>5 DEF EndScan, Working
    <2>3. scan'[s].pc = "off" BY <2>1, <1>0 DEF Off
    <2>4. DOMAIN scan' = Scans /\ \A k \in Scans \ {s} : scan'[k] = scan[k] BY <2>1, <1>0
    <2>5. Working' = Working \ {s}
      <3>1. ASSUME NEW k PROVE k \in Working' <=> k \in Working \ {s}
        <4>1. CASE k = s BY <4>1, <2>3 DEF Working
        <4>2. CASE k # s BY <4>2, <2>4 DEF Working
        <4> QED BY <4>1, <4>2
      <3> QED BY <3>1
    <2>6. Cardinality(Working') = Cardinality(Working) - 1 /\ Cardinality(Working') \in Nat
      BY <2>2, <2>5, RunningIsANumber, FS_RemoveElement, FS_CardinalityType
    <2>7. Walking' = Walking BY <1>5 DEF EndScan, Walking
    <2> QED BY <2>4, <2>6, <2>7, <1>5, RunningIsANumber, KeptOnLeave DEF EndScan
  <1> QED BY <1>1, <1>2, <1>3, <1>4, <1>5 DEF Scanning

LEMMA KeptByHandling ==
  ASSUME WorkspaceAssumption, IInv, Handling
  PROVE  IInv'
  <1>0. DOMAIN scan = Scans BY DEF IInv, Typed
  <1>1. CASE HandleInitialized \/ HandleFormat \/ HandleWatched \/ CloseFolder
    <2>1. UNCHANGED <<gc, scan, walk>>
      BY <1>1 DEF HandleInitialized, HandleFormat, HandleWatched, CloseFolder
    <2> QED BY <2>1, <1>0, KeptAlone DEF Working, Walking
  <1>2. CASE HandleReindex
    <2>1. DOMAIN scan' = Scans /\ Working' = Working BY <1>0, <1>2, GoStartsIdle DEF HandleReindex
    <2> QED BY <1>2, <2>1, KeptAlone DEF HandleReindex, Walking
  <1>3. CASE BeginWalk
    <2>1. Walking = 0 /\ Walking' = 1 BY <1>3 DEF BeginWalk, Walking, Off
    <2>2. Working' = Working /\ DOMAIN scan' = Scans BY <1>0, <1>3 DEF BeginWalk, Working
    <2> QED BY <1>3, <2>1, <2>2, RunningIsANumber, KeptOnEnter DEF BeginWalk
  <1>4. CASE ReadInWalk \/ CutWalk \/ FileInWalk
    <2>1. UNCHANGED <<gc, scan>> BY <1>4 DEF ReadInWalk, CutWalk, FileInWalk
    <2>2. Walking' = Walking
      <3>1. CASE ReadInWalk BY <3>1 DEF ReadInWalk, Walking
      <3>2. CASE CutWalk BY <3>2 DEF CutWalk, Walking
      <3>3. CASE FileInWalk BY <3>3 DEF FileInWalk, Walking
      <3> QED BY <1>4, <3>1, <3>2, <3>3
    <2> QED BY <2>1, <2>2, <1>0, KeptAlone DEF Working
  <1>5. CASE EndWalk
    <2>1. Walking = 1 /\ Walking' = 0 BY <1>5 DEF EndWalk, Walking, Off
    <2>2. Working' = Working /\ DOMAIN scan' = Scans BY <1>0, <1>5 DEF EndWalk, Working
    <2> QED BY <1>5, <2>1, <2>2, RunningIsANumber, KeptOnLeave DEF EndWalk
  <1> QED BY <1>1, <1>2, <1>3, <1>4, <1>5 DEF Handling

\* However scans and walks overlap, the collector's setting is restored when the
\* last of them ends, and is the lower of the process's own and indexing's until
\* then: indexingGC.
THEOREM CollectorAlwaysRestored == Spec => []CollectorRestored
  <1> USE WorkspaceAssumption
  <1>1. Init => IInv
    <2> SUFFICES ASSUME Init PROVE IInv OBVIOUS
    <2>1. scan = Go([s \in Scans |-> Off], {}) /\ walk = Off BY DEF Init
    <2>2. PICK p \in Settings : gc = [percent |-> p, prev |-> p, running |-> 0, own |-> p] BY DEF Init
    <2>3. p \in Int BY DEF WorkspaceAssumption
    <2>4. DOMAIN scan = Scans BY <2>1 DEF Go
    <2>5. Working = {}
      <3>1. ASSUME NEW s \in Scans PROVE scan[s].pc \in {"off", "start"}
        BY <2>1 DEF Go, Starting, Off
      <3> QED BY <3>1 DEF Working
    <2>6. Walking = 0 BY <2>1 DEF Walking, Off
    <2>7. Cardinality(Working) = 0 BY <2>5, FS_EmptySet
    <2>8. Running = 0 BY <2>6, <2>7, RunningIsANumber
    <2> QED BY <2>2, <2>3, <2>4, <2>6, <2>7, <2>8 DEF IInv, Typed, Counted, Saved, CollectorRestored
  <1>2. IInv /\ [Next]_vars => IInv'
    <2> SUFFICES ASSUME IInv, [Next]_vars PROVE IInv' OBVIOUS
    <2>0. DOMAIN scan = Scans BY DEF IInv, Typed
    <2>1. ASSUME UNCHANGED <<gc, scan, walk>> PROVE IInv'
      BY <2>0, <2>1, KeptAlone DEF Working, Walking
    <2>2. CASE UNCHANGED vars BY <2>1, <2>2 DEF vars
    <2>3. ASSUME NEW f \in Files, Change(f) \/ ReadOnDemand(f) PROVE IInv'
      BY <2>1, <2>3 DEF Change, ReadOnDemand
    <2>4. CASE Report \/ Commands BY <2>1, <2>4 DEF Report, Commands, Request
    <2>5. ASSUME NEW d \in Folders, OpenFolder(d) PROVE IInv'
      BY <2>1, <2>5 DEF OpenFolder, Request
    <2>6. ASSUME NEW c \in Calls, Answers(c) PROVE IInv' BY <2>1, <2>6 DEF Answers
    <2>7. CASE Reads \/ Register \/ ReturnFormat \/ FileOnDemand
      BY <2>1, <2>7 DEF Reads, Register, ReturnFormat, FileOnDemand
    <2>8. CASE Handling BY <2>8, KeptByHandling
    <2>9. ASSUME NEW s \in Scans, Scanning(s) PROVE IInv' BY <2>9, KeptByScanning
    <2>10. ASSUME NEW b \in Batches, Applying(b) PROVE IInv'
      BY <2>1, <2>10 DEF Applying, Delete, ReadInBatch, FileInBatch, EndBatch
    <2> QED BY <2>2, <2>3, <2>4, <2>5, <2>6, <2>7, <2>8, <2>9, <2>10 DEF Next, Work
  <1>3. IInv => CollectorRestored BY DEF IInv
  <1> QED BY <1>1, <1>2, <1>3, PTL DEF Spec
-----------------------------------------------------------------------------
(* OnlyOvertakenLags, for any files, folders, scans and batches.            *)
(*                                                                          *)
(* What is filed is seldom what is on the disk, so the invariant speaks of  *)
(* everything that is still on its way as well.  A reading is sound if it   *)
(* shows what is on the disk or if something newer is known of its file:    *)
(* filed already, on its way, or marked in unseen.  Every reading that is   *)
(* to be filed is sound, every deletion that is to be believed, and every   *)
(* entry of the index, but for that of a file which is not in the index and *)
(* which a walk or a scan is about to read if its folder is a root.         *)

EventType == [file : Files, deleted : BOOLEAN, at : Nat]
ReadingType == [file : Files, text : Nat, at : Nat]
Job(S) == [pc : {"off", "start", "list", "work"}, todo : SUBSET S, read : SUBSET ReadingType]

Single(S) == \A q, r \in S : q = r

Message ==
  {Initialized, Reindex, Format} \cup {Reply(c) : c \in Calls}
    \cup [kind : {"watched"}, events : SUBSET EventType]
    \cup [kind : {"folder"}, folder : Folders, added : BOOLEAN]

\* What a message reports, and what was reported and not yet looked at.
EventsOf(m) == IF m.kind = "watched" THEN m.events ELSE {}
Mailed == UNION {EventsOf(inbox[i]) : i \in DOMAIN inbox}
Reported == news \cup Mailed \cup EventsOf(serving) \cup (UNION {batch[b].todo : b \in Batches})

\* What was read and not yet filed.
Scanned == UNION {scan[s].read : s \in Scans}
Looked == UNION {batch[b].read : b \in Batches}
Readings == walk.read \cup demand \cup Scanned \cup Looked

Believed(e) == [file |-> e.file, text |-> Gone, at |-> e.at]

DiskShaped ==
  /\ time \in Nat \ {0} /\ disk \in [Files -> Nat] /\ unseen \in [Files -> Nat]
  /\ \A k \in Files : unseen[k] <= time

IndexShaped ==
  /\ index \in [Files -> ReadingType] /\ newest \in [Files -> Nat]
  /\ \A k \in Files : newest[k] <= time /\ index[k].at <= time /\ index[k].file = k

MailShaped ==
  /\ inbox \in Seq(Message) /\ serving \in Message \cup {Nobody} /\ news \in SUBSET EventType

WorkShaped ==
  /\ scan \in [Scans -> Job(Files)] /\ batch \in [Batches -> Job(EventType)]
  /\ walk \in Job(Files) /\ demand \in SUBSET ReadingType
  /\ \A s \in Scans : scan[s].pc = "start" => scan[s].read = {}
  /\ Single(walk.read) /\ Single(demand) /\ \A b \in Batches : Single(batch[b].read)
  /\ walk.pc = "work" \/ walk = Off
  /\ walk.pc = "work" => serving.kind = "folder" /\ serving.added

Shaped == DiskShaped /\ IndexShaped /\ MailShaped /\ WorkShaped

Dated ==
  /\ \A r \in Readings : r.at <= time
  /\ \A e \in Reported : e.at <= time

\* Something is known of file k that is newer than t.
Overtaken(k, t) ==
  \/ t < unseen[k]
  \/ t < newest[k]
  \/ \E e \in Reported : e.file = k /\ t < e.at
  \/ \E r \in Readings : r.file = k /\ t < r.at

Sound(r) == r.text = disk[r.file] \/ Overtaken(r.file, r.at)

\* File k is about to be filed for the first time since its folder was opened.  A
\* walk that may still be cut short began after the folder was closed.
Coming(k) ==
  \/ k \in walk.todo /\ (index[k].at < time \/ \A h \in walk.todo : disk[h] # Gone)
  \/ \E r \in Readings : r.file = k
  \/ index[k].at = 0 /\ \E s \in Scans : scan[s].pc = "start" \/ k \in scan[s].todo

OnTheirWay ==
  /\ \A r \in Readings : Sound(r)
  /\ \A e \in Reported : e.deleted => Sound(Believed(e))

Awaited(k) == k \in In(roots) => Coming(k)

Indexed == \A k \in Files : Sound(index[k]) \/ (~Exists(index[k]) /\ Awaited(k))

LInv == Shaped /\ Dated /\ OnTheirWay /\ Indexed

-----------------------------------------------------------------------------
\* Only one kind of message reports anything.
LEMMA WhatMessagesReport ==
  /\ EventsOf(Nobody) = {} /\ EventsOf(Initialized) = {} /\ EventsOf(Reindex) = {}
  /\ EventsOf(Format) = {} /\ \A c : EventsOf(Reply(c)) = {}
  /\ \A E : EventsOf([kind |-> "watched", events |-> E]) = E
  /\ \A m : m.kind # "watched" => EventsOf(m) = {}
  /\ \A m \in Message \cup {Nobody} : EventsOf(m) \in SUBSET EventType
  <1>1. ASSUME NEW m \in Message \cup {Nobody} PROVE EventsOf(m) \in SUBSET EventType
    <2>1. CASE m \in [kind : {"watched"}, events : SUBSET EventType]
      BY <2>1 DEF EventsOf
    <2>2. CASE m.kind # "watched" BY <2>2 DEF EventsOf
    <2> QED BY <1>1, <2>1, <2>2 DEF Message, Initialized, Reindex, Format, Reply, Nobody
  <1> QED BY <1>1 DEF EventsOf, Nobody, Initialized, Reindex, Format, Reply

\* A message that comes is the last of the mail,
LEMMA MailOnArrival ==
  ASSUME inbox \in Seq(Message), NEW m \in Message, inbox' = Append(inbox, m)
  PROVE  inbox' \in Seq(Message) /\ Mailed' = Mailed \cup EventsOf(m)
  <1>1. inbox' \in Seq(Message) /\ Len(inbox') = Len(inbox) + 1 /\ Len(inbox) \in Nat OBVIOUS
  <1>2. DOMAIN inbox = 1 .. Len(inbox) /\ DOMAIN inbox' = 1 .. (Len(inbox) + 1) BY <1>1
  <1>3. \A i \in 1 .. Len(inbox) : inbox'[i] = inbox[i] OBVIOUS
  <1>4. inbox'[Len(inbox) + 1] = m OBVIOUS
  <1>5. ASSUME NEW e PROVE e \in Mailed' <=> e \in Mailed \cup EventsOf(m)
    <2>1. e \in Mailed' <=> \E i \in 1 .. (Len(inbox) + 1) : e \in EventsOf(inbox'[i])
      BY <1>2 DEF Mailed
    <2>2. e \in Mailed <=> \E i \in 1 .. Len(inbox) : e \in EventsOf(inbox[i])
      BY <1>2 DEF Mailed
    <2>3. \A i \in 1 .. (Len(inbox) + 1) : i \in 1 .. Len(inbox) \/ i = Len(inbox) + 1 BY <1>1
    <2>4. \A i \in 1 .. Len(inbox) : i \in 1 .. (Len(inbox) + 1) BY <1>1
    <2>5. Len(inbox) + 1 \in 1 .. (Len(inbox) + 1) BY <1>1
    <2> QED BY <2>1, <2>2, <2>3, <2>4, <2>5, <1>3, <1>4
  <1> QED BY <1>1, <1>5

\* and one that is read was the first.
LEMMA MailOnRead ==
  ASSUME inbox \in Seq(Message), inbox # <<>>, inbox' = Tail(inbox)
  PROVE  /\ inbox' \in Seq(Message) /\ Head(inbox) \in Message
         /\ Mailed = Mailed' \cup EventsOf(Head(inbox))
  <1>1. inbox' \in Seq(Message) /\ Head(inbox) \in Message OBVIOUS
  <1>2. Len(inbox) \in Nat \ {0} /\ Len(inbox') = Len(inbox) - 1 OBVIOUS
  <1>3. DOMAIN inbox = 1 .. Len(inbox) /\ DOMAIN inbox' = 1 .. (Len(inbox) - 1) BY <1>1, <1>2
  <1>4. \A i \in 1 .. (Len(inbox) - 1) : inbox'[i] = inbox[i + 1] OBVIOUS
  <1>5. Head(inbox) = inbox[1] OBVIOUS
  <1>6. ASSUME NEW e PROVE e \in Mailed <=> e \in Mailed' \cup EventsOf(Head(inbox))
    <2>1. e \in Mailed' <=> \E i \in 1 .. (Len(inbox) - 1) : e \in EventsOf(inbox'[i])
      BY <1>3 DEF Mailed
    <2>2. e \in Mailed <=> \E i \in 1 .. Len(inbox) : e \in EventsOf(inbox[i])
      BY <1>3 DEF Mailed
    <2>3. \A i \in 1 .. Len(inbox) : i = 1 \/ (i - 1 \in 1 .. (Len(inbox) - 1) /\ (i - 1) + 1 = i)
      BY <1>2
    <2>4. \A i \in 1 .. (Len(inbox) - 1) : i + 1 \in 1 .. Len(inbox) BY <1>2
    <2>5. 1 \in 1 .. Len(inbox) BY <1>2
    <2>6. ASSUME e \in Mailed PROVE e \in Mailed' \cup EventsOf(Head(inbox))
      <3>1. PICK i \in 1 .. Len(inbox) : e \in EventsOf(inbox[i]) BY <2>2, <2>6
      <3>2. CASE i = 1 BY <3>1, <3>2, <1>5
      <3>3. CASE i # 1
        <4>1. i - 1 \in 1 .. (Len(inbox) - 1) /\ (i - 1) + 1 = i BY <2>3, <3>3
        <4>2. inbox'[i - 1] = inbox[i] BY <4>1, <1>4
        <4> QED BY <4>1, <4>2, <3>1, <2>1
      <3> QED BY <3>2, <3>3
    <2>7. ASSUME e \in Mailed' \cup EventsOf(Head(inbox)) PROVE e \in Mailed
      <3>1. CASE e \in EventsOf(Head(inbox)) BY <3>1, <1>5, <2>5, <2>2
      <3>2. CASE e \in Mailed'
        <4>1. PICK i \in 1 .. (Len(inbox) - 1) : e \in EventsOf(inbox'[i]) BY <2>1, <3>2
        <4> QED BY <4>1, <1>4, <2>4, <2>2
      <3> QED BY <2>7, <3>1, <3>2
    <2> QED BY <2>6, <2>7
  <1> QED BY <1>1, <1>6

\* A goroutine that is idle is started with what it is given, and no other is touched.
LEMMA GoStartsOne ==
  ASSUME NEW table, Idle(table) # {}, NEW S
  PROVE  \E k \in DOMAIN table : /\ table[k] = Off
                                 /\ Go(table, S) = [table EXCEPT ![k] = Starting(S)]
  <1>1. (CHOOSE k \in Idle(table) : TRUE) \in Idle(table) OBVIOUS
  <1> QED BY <1>1 DEF Idle, Go

LEMMA WhatIsReported ==
  ASSUME NEW e
  PROVE  /\ e \in Reported <=> \/ e \in news \/ e \in Mailed \/ e \in EventsOf(serving)
                               \/ \E b \in Batches : e \in batch[b].todo
         /\ e \in Reported' <=> \/ e \in news' \/ e \in Mailed' \/ e \in EventsOf(serving')
                                \/ \E b \in Batches : e \in batch'[b].todo
  BY Zenon DEF Reported, EventsOf

LEMMA WhatIsRead ==
  ASSUME NEW r
  PROVE  /\ r \in Readings <=> \/ r \in walk.read \/ r \in demand
                               \/ \E s \in Scans : r \in scan[s].read
                               \/ \E b \in Batches : r \in batch[b].read
         /\ r \in Readings' <=> \/ r \in walk'.read \/ r \in demand'
                                \/ \E s \in Scans : r \in scan'[s].read
                                \/ \E b \in Batches : r \in batch'[b].read
  <1>1. r \in Scanned <=> \E s \in Scans : r \in scan[s].read BY DEF Scanned
  <1>2. r \in Looked <=> \E b \in Batches : r \in batch[b].read BY DEF Looked
  <1>3. r \in Scanned' <=> \E s \in Scans : r \in scan'[s].read BY DEF Scanned
  <1>4. r \in Looked' <=> \E b \in Batches : r \in batch'[b].read BY DEF Looked
  <1> QED BY <1>1, <1>2, <1>3, <1>4 DEF Readings

\* What is on its way is of its type.
PartsTyped ==
  /\ \A k \in Files : unseen[k] \in Nat /\ newest[k] \in Nat
  /\ \A e \in Reported : e \in EventType
  /\ \A r \in Readings : r \in ReadingType

LEMMA ShapedParts == (Shaped => PartsTyped) /\ (Shaped' => PartsTyped')
  <1>1. Shaped => PartsTyped
    <2> SUFFICES ASSUME Shaped PROVE PartsTyped OBVIOUS
    <2>1. \A k \in Files : unseen[k] \in Nat /\ newest[k] \in Nat
      BY DEF Shaped, DiskShaped, IndexShaped
    <2>2. ASSUME NEW e \in Reported PROVE e \in EventType
      <3>1. CASE e \in Mailed
        <4>1. inbox \in Seq(Message) BY DEF Shaped, MailShaped
        <4>2. PICK i \in DOMAIN inbox : e \in EventsOf(inbox[i]) BY <3>1 DEF Mailed
        <4>3. inbox[i] \in Message BY <4>1
        <4> QED BY <4>2, <4>3, WhatMessagesReport
      <3>2. CASE e \in EventsOf(serving) BY <3>2, WhatMessagesReport DEF Shaped, MailShaped
      <3>3. CASE e \in news BY <3>3 DEF Shaped, MailShaped
      <3>4. CASE \E b \in Batches : e \in batch[b].todo BY <3>4 DEF Shaped, WorkShaped, Job
      <3> QED BY <3>1, <3>2, <3>3, <3>4, <2>2, WhatIsReported
    <2>3. ASSUME NEW r \in Readings PROVE r \in ReadingType
      <3>1. CASE r \in walk.read BY <3>1 DEF Shaped, WorkShaped, Job
      <3>2. CASE r \in demand BY <3>2 DEF Shaped, WorkShaped
      <3>3. CASE \E s \in Scans : r \in scan[s].read BY <3>3 DEF Shaped, WorkShaped, Job
      <3>4. CASE \E b \in Batches : r \in batch[b].read BY <3>4 DEF Shaped, WorkShaped, Job
      <3> QED BY <3>1, <3>2, <3>3, <3>4, <2>3, WhatIsRead
    <2> QED BY <2>1, <2>2, <2>3 DEF PartsTyped
  <1> QED BY <1>1, PTL

-----------------------------------------------------------------------------
\* What is known of a file is not forgotten by a step that lets go of a reading
\* or a report only for one that is as new.
LEMMA NothingForgotten ==
  ASSUME Shaped, Shaped',
         \A k \in Files : unseen[k] <= unseen'[k] /\ newest[k] <= newest'[k],
         \A e \in Reported :
            \/ e \in Reported' \/ e.at <= newest'[e.file]
            \/ \E r \in Readings' : r.file = e.file /\ e.at <= r.at
            \/ \E d \in Reported' : d.file = e.file /\ e.at <= d.at,
         \A r \in Readings : r \in Readings' \/ r.at <= newest'[r.file],
         NEW k \in Files, NEW t \in Nat, Overtaken(k, t)
  PROVE  Overtaken(k, t)'
  <1>0. PartsTyped /\ PartsTyped' BY ShapedParts
  <1>1. CASE t < unseen[k] BY <1>0, <1>1 DEF Overtaken, PartsTyped
  <1>2. CASE t < newest[k] BY <1>0, <1>2 DEF Overtaken, PartsTyped
  <1>3. CASE \E e \in Reported : e.file = k /\ t < e.at
    <2>1. PICK e \in Reported : e.file = k /\ t < e.at BY <1>3
    <2>2. e.at \in Nat BY <1>0 DEF EventType, PartsTyped
    <2>3. CASE e \in Reported' BY <2>1, <2>3 DEF Overtaken
    <2>4. CASE e.at <= newest'[e.file] BY <1>0, <2>1, <2>2, <2>4 DEF Overtaken, PartsTyped
    <2>5. CASE \E r \in Readings' : r.file = e.file /\ e.at <= r.at
      <3>1. PICK r \in Readings' : r.file = e.file /\ e.at <= r.at BY <2>5
      <3>2. r.at \in Nat BY <1>0 DEF ReadingType, PartsTyped
      <3> QED BY <2>1, <2>2, <3>1, <3>2 DEF Overtaken
    <2>6. CASE \E d \in Reported' : d.file = e.file /\ e.at <= d.at
      <3>1. PICK d \in Reported' : d.file = e.file /\ e.at <= d.at BY <2>6
      <3>2. d.at \in Nat BY <1>0 DEF EventType, PartsTyped
      <3> QED BY <2>1, <2>2, <3>1, <3>2 DEF Overtaken
    <2> QED BY <2>1, <2>3, <2>4, <2>5, <2>6
  <1>4. CASE \E r \in Readings : r.file = k /\ t < r.at
    <2>1. PICK r \in Readings : r.file = k /\ t < r.at BY <1>4
    <2>2. r.at \in Nat BY <1>0 DEF ReadingType, PartsTyped
    <2>3. CASE r \in Readings' BY <2>1, <2>3 DEF Overtaken
    <2>4. CASE r.at <= newest'[r.file] BY <1>0, <2>1, <2>2, <2>4 DEF Overtaken, PartsTyped
    <2> QED BY <2>1, <2>3, <2>4
  <1> QED BY <1>1, <1>2, <1>3, <1>4 DEF Overtaken

\* The invariant is kept by a step that forgets nothing, brings only readings that
\* are sound and no report, and leaves an entry alone unless it is sound or on its
\* way after it.
LEMMA KeptOnTheWay ==
  ASSUME LInv, Shaped', UNCHANGED <<disk, time>>,
         \A k \in Files : unseen[k] <= unseen'[k] /\ newest[k] <= newest'[k],
         \A e \in Reported :
            \/ e \in Reported' \/ e.at <= newest'[e.file]
            \/ \E r \in Readings' : r.file = e.file /\ e.at <= r.at,
         \A r \in Readings : r \in Readings' \/ r.at <= newest'[r.file],
         Reported' \subseteq Reported,
         \A r \in Readings' : r \in Readings \/ (r.at <= time /\ Sound(r)'),
         \A k \in Files :
            \/ Sound(index[k])'
            \/ ~Exists(index'[k]) /\ Awaited(k)'
            \/ /\ index'[k] = index[k]
               /\ ~Exists(index[k]) /\ Awaited(k) => Awaited(k)' \/ Sound(index[k])'
  PROVE  LInv'
  <1>0. Shaped /\ Dated /\ OnTheirWay /\ Indexed /\ PartsTyped /\ PartsTyped'
    BY ShapedParts DEF LInv
  <1>1. ASSUME NEW k \in Files, NEW t \in Nat, Overtaken(k, t) PROVE Overtaken(k, t)'
    BY <1>0, <1>1, NothingForgotten
  <1>2. ASSUME NEW r \in ReadingType, Sound(r) PROVE Sound(r)'
    <2>1. r.file \in Files /\ r.at \in Nat BY DEF ReadingType
    <2> QED BY <1>1, <1>2, <2>1 DEF Sound
  <1>3. Dated' BY <1>0 DEF Dated
  <1>4. OnTheirWay'
    <2>1. ASSUME NEW r \in Readings' PROVE Sound(r)'
      BY <1>0, <1>2 DEF OnTheirWay, PartsTyped
    <2>2. ASSUME NEW e \in Reported', e.deleted PROVE Sound(Believed(e))'
      <3>1. e \in Reported /\ e \in EventType BY <1>0 DEF PartsTyped
      <3>2. Sound(Believed(e)) BY <1>0, <2>2, <3>1 DEF OnTheirWay
      <3>3. Believed(e) \in ReadingType BY <3>1 DEF Believed, ReadingType, EventType, Gone
      <3> QED BY <3>2, <3>3, <1>2
    <2> QED BY <2>1, <2>2 DEF OnTheirWay
  <1>5. Indexed'
    <2>1. ASSUME NEW k \in Files
          PROVE  Sound(index[k])' \/ (~Exists(index'[k]) /\ Awaited(k)')
      <3>1. CASE index'[k] = index[k]
        <4>2. index[k] \in ReadingType BY <1>0 DEF Shaped, IndexShaped
        <4>3. CASE Sound(index[k])
          <5>1. PICK r \in ReadingType : r = index[k] BY <4>2
          <5>2. Sound(r)' BY <4>3, <5>1, <1>2
          <5>3. index'[k] = r BY <3>1, <5>1
          <5> QED BY <5>2, <5>3 DEF Sound
        <4>4. CASE ~Exists(index[k]) /\ Awaited(k) BY <2>1, <3>1, <4>4
        <4> QED BY <4>3, <4>4, <1>0, <3>1 DEF Indexed
      <3> QED BY <3>1, <2>1
    <2> QED BY <2>1 DEF Indexed, Exists
  <1> QED BY <1>0, <1>3, <1>4, <1>5 DEF LInv

-----------------------------------------------------------------------------
\* The mail, the handlers and what is started leave alone what was read and filed.
LEMMA KeptQuietly ==
  ASSUME LInv, UNCHANGED <<disk, time, unseen, index, newest, roots, walk, demand>>,
         MailShaped', WorkShaped', Reported' = Reported, Readings' = Readings,
         \A s \in Scans : scan[s] = Off \/ scan'[s] = scan[s]
  PROVE  LInv'
  <1>1. Shaped' BY DEF LInv, Shaped, DiskShaped, IndexShaped
  <1>2. ASSUME NEW k \in Files, Coming(k) PROVE Coming(k)'
    <2>1. CASE k \in walk.todo /\ (index[k].at < time \/ \A h \in walk.todo : disk[h] # Gone)
      BY <2>1 DEF Coming
    <2>2. CASE \E r \in Readings : r.file = k BY <2>2 DEF Coming
    <2>3. CASE index[k].at = 0 /\ \E s \in Scans : scan[s].pc = "start" \/ k \in scan[s].todo
      <3>1. PICK s \in Scans : scan[s].pc = "start" \/ k \in scan[s].todo BY <2>3
      <3>2. scan[s] # Off BY <3>1 DEF Off
      <3> QED BY <2>3, <3>1, <3>2 DEF Coming
    <2> QED BY <1>2, <2>1, <2>2, <2>3 DEF Coming
  <1>3. \A k \in Files : Awaited(k) => Awaited(k)' BY <1>2 DEF Awaited, In
  <1>4. \A k \in Files : unseen[k] <= unseen'[k] /\ newest[k] <= newest'[k]
    BY DEF LInv, Shaped, DiskShaped, IndexShaped
  <1> QED BY <1>1, <1>2, <1>3, <1>4, KeptOnTheWay

\* A step that does no more than to move what was reported from the client to the
\* mail, from there to the handler, and from there to a batch.
LEMMA KeptByMail ==
  ASSUME LInv, UNCHANGED <<disk, time, unseen, index, newest, roots, walk, demand, scan, batch>>,
         MailShaped', walk.pc = "work" => serving'.kind = "folder" /\ serving'.added,
         news' \cup Mailed' \cup EventsOf(serving') = news \cup Mailed \cup EventsOf(serving)
  PROVE  LInv'
  <1>1. WorkShaped' BY DEF LInv, Shaped, WorkShaped
  <1>2. Reported' = Reported
    <2>1. ASSUME NEW e PROVE e \in Reported' <=> e \in Reported BY WhatIsReported
    <2> QED BY <2>1
  <1>3. Readings' = Readings BY DEF Readings, Scanned, Looked
  <1> QED BY <1>1, <1>2, <1>3, KeptQuietly

LEMMA KeptOnArrival ==
  ASSUME LInv, NEW m \in Message, inbox' = Append(inbox, m), UNCHANGED serving,
         UNCHANGED <<disk, time, unseen, index, newest, roots, walk, demand, scan, batch>>,
         news' \cup EventsOf(m) = news, news' \in SUBSET EventType
  PROVE  LInv'
  <1>1. MailShaped /\ (walk.pc = "work" => serving.kind = "folder" /\ serving.added)
    BY DEF LInv, Shaped, WorkShaped
  <1>2. inbox' \in Seq(Message) /\ Mailed' = Mailed \cup EventsOf(m)
    BY <1>1, MailOnArrival DEF MailShaped
  <1>3. MailShaped' BY <1>1, <1>2 DEF MailShaped
  <1>4. news' \cup Mailed' \cup EventsOf(serving') = news \cup Mailed \cup EventsOf(serving)
    BY <1>2
  <1> QED BY <1>1, <1>3, <1>4, KeptByMail

\* A handler of a message that reports nothing returns or hands over.
LEMMA KeptOnReturn ==
  ASSUME LInv, serving.kind \notin {"watched", "folder"}, serving' = Nobody,
         UNCHANGED <<disk, time, unseen, index, newest, roots, walk, demand, scan, batch, news,
                     inbox>>
  PROVE  LInv'
  <1>1. MailShaped /\ (walk.pc = "work" => serving.kind = "folder")
    BY DEF LInv, Shaped, WorkShaped
  <1>2. MailShaped' BY <1>1 DEF MailShaped
  <1>3. Mailed' = Mailed BY DEF Mailed, EventsOf
  <1>4. EventsOf(serving) = {} /\ EventsOf(serving') = {} BY WhatMessagesReport
  <1> QED BY <1>1, <1>2, <1>3, <1>4, KeptByMail

LEMMA KeptAside ==
  ASSUME LInv, UNCHANGED <<disk, time, unseen, index, newest, roots, walk, demand, scan, batch,
                           news, inbox, serving>>
  PROVE  LInv'
  <1>1. MailShaped /\ (walk.pc = "work" => serving.kind = "folder" /\ serving.added)
    BY DEF LInv, Shaped, WorkShaped
  <1>2. MailShaped' BY <1>1 DEF MailShaped
  <1>3. Mailed' = Mailed BY DEF Mailed, EventsOf
  <1> QED BY <1>1, <1>2, <1>3, KeptByMail

LEMMA KeptByClient ==
  ASSUME WorkspaceAssumption, LInv,
         \/ Report \/ Commands \/ \E d \in Folders : OpenFolder(d)
         \/ \E c \in Calls : Answers(c)
  PROVE  LInv'
  <1>0. news \in SUBSET EventType BY DEF LInv, Shaped, MailShaped
  <1>1. CASE Report
    <2> DEFINE m == [kind |-> "watched", events |-> news]
    <2>1. m \in Message /\ EventsOf(m) = news BY <1>0, WhatMessagesReport DEF Message
    <2>2. inbox' = Append(inbox, m) /\ news' = {} /\ UNCHANGED serving BY <1>1 DEF Report, Arrives
    <2> HIDE DEF m
    <2> QED BY <1>1, <2>1, <2>2, KeptOnArrival DEF Report, filed
  <1>2. CASE Commands
    <2>1. PICK m \in {Reindex, Format} : Request(m) BY <1>2 DEF Commands
    <2>2. m \in Message /\ EventsOf(m) = {} BY WhatMessagesReport DEF Message
    <2> QED BY <1>0, <2>1, <2>2, KeptOnArrival DEF Request, Arrives, filed
  <1>3. ASSUME NEW d \in Folders, OpenFolder(d) PROVE LInv'
    <2> DEFINE m == [kind |-> "folder", folder |-> d, added |-> d \notin opened]
    <2>1. m \in Message /\ EventsOf(m) = {} BY WhatMessagesReport DEF Message
    <2>2. Request(m) BY <1>3 DEF OpenFolder
    <2> HIDE DEF m
    <2> QED BY <1>0, <2>1, <2>2, KeptOnArrival DEF Request, Arrives, filed
  <1>4. ASSUME NEW c \in Calls, Answers(c) PROVE LInv'
    <2>1. Reply(c) \in Message /\ EventsOf(Reply(c)) = {} BY WhatMessagesReport DEF Message
    <2>2. inbox' = Append(inbox, Reply(c)) /\ UNCHANGED serving BY <1>4 DEF Answers, Answer
    <2> QED BY <1>0, <1>4, <2>1, <2>2, KeptOnArrival DEF Answers, world, filed
  <1> QED BY <1>1, <1>2, <1>3, <1>4

LEMMA KeptByReader ==
  ASSUME LInv, Reads \/ Register \/ ReturnFormat
  PROVE  LInv'
  <1>0. MailShaped /\ (walk.pc = "work" => serving.kind = "folder")
    BY DEF LInv, Shaped, WorkShaped
  <1>1. CASE Register
    BY <1>1, KeptAside DEF Register, CallAlone, world, filed
  <1>2. CASE ReturnFormat
    BY <1>2, KeptAside DEF ReturnFormat, ReturnApart, world, filed
  <1>3. CASE Reads
    <2>1. serving = Nobody /\ inbox # <<>> /\ inbox' = Tail(inbox)
      BY <1>3 DEF Reads, Read, ReadReply
    <2>2. inbox' \in Seq(Message) /\ Head(inbox) \in Message
          /\ Mailed = Mailed' \cup EventsOf(Head(inbox))
      BY <1>0, <2>1, MailOnRead DEF MailShaped
    <2>3. EventsOf(serving) = {} /\ walk.pc # "work"
      BY <1>0, <2>1, WhatMessagesReport DEF Nobody
    <2>4. serving' \in Message \cup {Nobody} /\ EventsOf(serving') = EventsOf(Head(inbox))
      <3>1. CASE Read BY <3>1, <2>2 DEF Read
      <3>2. CASE ReadReply
        <4>1. EventsOf(Head(inbox)) = {} BY <3>2, WhatMessagesReport DEF ReadReply
        <4> QED BY <3>2, <4>1, <2>1, WhatMessagesReport DEF ReadReply
      <3> QED BY <1>3, <3>1, <3>2 DEF Reads
    <2>5. UNCHANGED <<disk, time, unseen, index, newest, roots, walk, demand, scan, batch, news>>
      BY <1>3 DEF Reads, world, filed
    <2>6. MailShaped' BY <1>0, <2>2, <2>4, <2>5 DEF MailShaped
    <2>7. news' \cup Mailed' \cup EventsOf(serving') = news \cup Mailed \cup EventsOf(serving)
      BY <2>2, <2>3, <2>4, <2>5
    <2> QED BY <2>3, <2>5, <2>6, <2>7, KeptByMail
  <1> QED BY <1>1, <1>2, <1>3

\* A job that is off has nothing to do and has read nothing.
LEMMA JobsAtRest ==
  /\ \A S : Off \in Job(S)
  /\ \A S, T : T \in SUBSET S => Starting(T) \in Job(S)
  /\ Off.todo = {} /\ Off.read = {} /\ Off.pc = "off"
  /\ \A T : Starting(T).todo = T /\ Starting(T).read = {} /\ Starting(T).pc = "start"
  BY DEF Off, Starting, Job

LEMMA KeptByHandOff ==
  ASSUME LInv, \/ HandleInitialized \/ HandleFormat \/ HandleReindex \/ HandleWatched
  PROVE  LInv'
  <1>0. /\ MailShaped /\ WorkShaped /\ (walk.pc = "work" => serving.kind = "folder")
    BY DEF LInv, Shaped, WorkShaped
  <1>1. CASE HandleInitialized
    <2>1. serving.kind = "initialized" BY <1>1 DEF HandleInitialized, Initialized
    <2> QED BY <1>1, <2>1, KeptOnReturn DEF HandleInitialized, Return, world, filed
  <1>2. CASE HandleFormat
    <2>1. serving.kind = "format" BY <1>2 DEF HandleFormat, Format
    <2>2. serving' = Nobody /\ UNCHANGED inbox
      BY <1>2 DEF HandleFormat, CallFrom, Handover, Return
    <2> QED BY <1>2, <2>1, <2>2, KeptOnReturn DEF HandleFormat, world, filed
  <1>3. CASE HandleReindex
    <2>1. PICK s \in Scans : scan[s] = Off /\ scan' = [scan EXCEPT ![s] = Starting({})]
      BY <1>0, <1>3, GoStartsOne DEF HandleReindex, WorkShaped
    <2>2. serving.kind = "reindex" /\ serving' = Nobody /\ UNCHANGED inbox
      BY <1>3 DEF HandleReindex, Reindex, Return
    <2>3. UNCHANGED <<disk, time, unseen, index, newest, roots, walk, demand, batch, news>>
      BY <1>3 DEF HandleReindex, world, filed
    <2>4. scan' \in [Scans -> Job(Files)] BY <1>0, <2>1, JobsAtRest DEF WorkShaped
    <2>5. MailShaped' BY <1>0, <2>2, <2>3 DEF MailShaped
    <2>13. \A k \in Scans : scan'[k].pc = "start" => scan'[k].read = {}
      BY <1>0, <2>1, JobsAtRest DEF WorkShaped
    <2>6. WorkShaped' BY <1>0, <2>2, <2>3, <2>4, <2>13 DEF WorkShaped
    <2>7. EventsOf(serving) = {} /\ EventsOf(serving') = {} BY <2>2, WhatMessagesReport
    <2>8. Mailed' = Mailed BY <2>2 DEF Mailed, EventsOf
    <2>9. Reported' = Reported
      <3>1. ASSUME NEW e PROVE e \in Reported' <=> e \in Reported
        BY <2>3, <2>7, <2>8, WhatIsReported
      <3> QED BY <3>1
    <2>10. \A k \in Scans : scan'[k].read = scan[k].read
      BY <1>0, <2>1, JobsAtRest DEF WorkShaped
    <2>11. Readings' = Readings
      <3>1. ASSUME NEW r PROVE r \in Readings' <=> r \in Readings
        BY <2>3, <2>10, WhatIsRead
      <3> QED BY <3>1
    <2>12. \A k \in Scans : scan[k] = Off \/ scan'[k] = scan[k] BY <1>0, <2>1 DEF WorkShaped
    <2> QED BY <2>3, <2>5, <2>6, <2>9, <2>11, <2>12, KeptQuietly
  <1>4. CASE HandleWatched
    <2>0. Idle(batch) # {} /\ batch' = Go(batch, serving.events) /\ DOMAIN batch = Batches
      BY <1>0, <1>4 DEF HandleWatched, WorkShaped
    <2>1. PICK b \in Batches : /\ batch[b] = Off
                               /\ batch' = [batch EXCEPT ![b] = Starting(serving.events)]
      <3> DEFINE E == serving.events
      <3>1. \E k \in DOMAIN batch : batch[k] = Off /\ Go(batch, E) = [batch EXCEPT ![k] = Starting(E)]
        BY <2>0, GoStartsOne
      <3> QED BY <2>0, <3>1
    <2>2. serving.kind = "watched" /\ serving' = Nobody /\ UNCHANGED inbox
      BY <1>4 DEF HandleWatched, Return
    <2>3. UNCHANGED <<disk, time, unseen, index, newest, roots, walk, demand, scan, news>>
      BY <1>4 DEF HandleWatched, world, filed
    <2>4. EventsOf(serving) = serving.events /\ EventsOf(serving') = {}
      BY <2>2, WhatMessagesReport DEF EventsOf
    <2>5. serving.events \in SUBSET EventType
      BY <1>0, <2>4, WhatMessagesReport DEF MailShaped
    <2>6. batch' \in [Batches -> Job(EventType)]
      BY <1>0, <2>1, <2>5, JobsAtRest DEF WorkShaped
    <2>7. MailShaped' BY <1>0, <2>2, <2>3 DEF MailShaped
    <2>9. Mailed' = Mailed BY <2>2 DEF Mailed, EventsOf
    <2>10. /\ \A k \in Batches : batch'[k].read = batch[k].read
           /\ \A k \in Batches \ {b} : batch'[k].todo = batch[k].todo
           /\ batch'[b].todo = serving.events /\ batch[b].todo = {}
      BY <1>0, <2>1, JobsAtRest DEF WorkShaped
    <2>8. WorkShaped' BY <1>0, <2>2, <2>3, <2>6, <2>10 DEF WorkShaped
    <2>11. Reported' = Reported
      <3>1. ASSUME NEW e PROVE e \in Reported' <=> e \in Reported
        <4>1. (\E k \in Batches : e \in batch'[k].todo)
                <=> (e \in serving.events \/ \E k \in Batches : e \in batch[k].todo)
          BY <2>10
        <4> QED BY <4>1, <2>3, <2>4, <2>9, WhatIsReported
      <3> QED BY <3>1
    <2>12. Readings' = Readings
      <3>1. ASSUME NEW r PROVE r \in Readings' <=> r \in Readings
        BY <2>3, <2>10, WhatIsRead
      <3> QED BY <3>1
    <2> QED BY <2>3, <2>7, <2>8, <2>11, <2>12, KeptQuietly
  <1> QED BY <1>1, <1>2, <1>3, <1>4

-----------------------------------------------------------------------------
\* A sound reading that is filed makes the entry sound.
LEMMA KeptByFiling ==
  ASSUME LInv, NEW r \in ReadingType, r.at <= time, Sound(r), File(r),
         UNCHANGED <<disk, time, unseen, roots>>, MailShaped', WorkShaped',
         Readings' \subseteq Readings, Readings \subseteq Readings' \cup {r},
         Reported' \subseteq Reported,
         \A e \in Reported : e \in Reported' \/ (e.file = r.file /\ e.at = r.at),
         walk'.todo = walk.todo,
         \A s \in Scans : scan'[s].pc = scan[s].pc /\ scan'[s].todo = scan[s].todo
  PROVE  LInv'
  <1>0. /\ time \in Nat /\ index \in [Files -> ReadingType] /\ newest \in [Files -> Nat]
        /\ unseen \in [Files -> Nat]
        /\ \A k \in Files : newest[k] <= time /\ index[k].at <= time /\ index[k].file = k
    BY DEF LInv, Shaped, DiskShaped, IndexShaped
  <1>1. r.file \in Files /\ r.at \in Nat BY DEF ReadingType
  <1>2. index' \in [Files -> ReadingType] /\ index'[r.file] = r
        /\ \A k \in Files \ {r.file} : index'[k] = index[k]
    BY <1>0, <1>1 DEF File
  <1>3. /\ newest' \in [Files -> Nat] /\ newest'[r.file] >= r.at
        /\ \A k \in Files : newest[k] <= newest'[k] /\ newest'[k] <= time
    BY <1>0, <1>1 DEF File
  <1>4. Shaped' BY <1>0, <1>2, <1>3 DEF LInv, Shaped, DiskShaped, IndexShaped
  <1>5. \A e \in Reported : e \in Reported' \/ e.at <= newest'[e.file] BY <1>1, <1>3
  <1>6. \A q \in Readings : q \in Readings' \/ q.at <= newest'[q.file] BY <1>1, <1>3
  <1>7. \A k \in Files : unseen[k] <= unseen'[k] /\ newest[k] <= newest'[k] BY <1>0, <1>3
  <1>8. Overtaken(r.file, r.at) => Overtaken(r.file, r.at)'
    BY <1>1, <1>4, <1>5, <1>6, <1>7, NothingForgotten DEF LInv
  <1>9. Sound(r)' BY <1>8 DEF Sound
  <1>10. ASSUME NEW k \in Files
         PROVE  \/ Sound(index[k])'
                \/ /\ index'[k] = index[k]
                   /\ ~Exists(index[k]) /\ Awaited(k) => Awaited(k)' \/ Sound(index[k])'
    <2>2. CASE k = r.file
      BY <1>2, <1>9, <2>2 DEF Sound
    <2>3. CASE k # r.file
      <3>1. index'[k] = index[k] BY <1>2, <2>3
      <3>2. Coming(k) => Coming(k)'
        <4>1. \A q \in Readings : q.file = k => q \in Readings' BY <2>3
        <4> QED BY <3>1, <4>1 DEF Coming
      <3> QED BY <3>1, <3>2 DEF Awaited, In
    <2> QED BY <2>2, <2>3
  <1> QED BY <1>4, <1>5, <1>6, <1>7, <1>10, KeptOnTheWay

\* What is read is sound, and a file that is gone needs no reading.
LEMMA KeptByReading ==
  ASSUME LInv, NEW f \in Files,
         UNCHANGED <<disk, time, unseen, index, newest, roots>>, MailShaped', WorkShaped',
         Readings \subseteq Readings', Readings' \subseteq Readings \cup {Reading(f)},
         Exists(Reading(f)) => Reading(f) \in Readings',
         Reported' \subseteq Reported,
         \A e \in Reported : e \in Reported' \/ (e.file = f /\ Reading(f) \in Readings'),
         walk'.todo \subseteq walk.todo, walk.todo \subseteq walk'.todo \cup {f},
         \A s \in Scans : scan'[s].pc = scan[s].pc /\ scan[s].todo \subseteq scan'[s].todo \cup {f}
  PROVE  LInv'
  <1>0. /\ time \in Nat /\ index \in [Files -> ReadingType] /\ newest \in [Files -> Nat]
        /\ unseen \in [Files -> Nat] /\ index[f].file = f
    BY DEF LInv, Shaped, DiskShaped, IndexShaped
  <1>1. Shaped' BY DEF LInv, Shaped, DiskShaped, IndexShaped
  <1>2. Reading(f).file = f /\ Reading(f).at = time /\ Reading(f).text = disk[f] BY DEF Reading
  <1>3. ASSUME NEW e \in Reported
        PROVE  e \in Reported' \/ \E r \in Readings' : r.file = e.file /\ e.at <= r.at
    BY <1>2 DEF LInv, Dated
  <1>4. ASSUME NEW r \in Readings' PROVE r \in Readings \/ (r.at <= time /\ Sound(r)')
    <2>1. r \in Readings \/ r = Reading(f) OBVIOUS
    <2>2. CASE r = Reading(f)
      <3>1. r.at = time /\ r.text = disk'[r.file] BY <1>2, <2>2
      <3> QED BY <1>0, <3>1 DEF Sound
    <2> QED BY <2>1, <2>2
  <1>5. ASSUME NEW k \in Files, ~Exists(index[k]), Awaited(k)
        PROVE  Awaited(k)' \/ Sound(index[k])'
    <2>1. CASE k = f
      <3>1. CASE Exists(Reading(f)) BY <1>2, <2>1, <3>1 DEF Awaited, Coming
      <3>2. CASE ~Exists(Reading(f))
        <4>1. index'[f].text = disk'[index'[f].file] BY <1>0, <1>2, <1>5, <2>1, <3>2 DEF Exists
        <4> QED BY <2>1, <4>1 DEF Sound
      <3> QED BY <3>1, <3>2
    <2>2. CASE k # f
      <3>1. ASSUME Coming(k) PROVE Coming(k)'
        <4>1. CASE k \in walk.todo /\ (index[k].at < time \/ \A h \in walk.todo : disk[h] # Gone)
          BY <2>2, <4>1 DEF Coming
        <4>2. CASE \E r \in Readings : r.file = k BY <4>2 DEF Coming
        <4>3. CASE index[k].at = 0 /\ \E s \in Scans : scan[s].pc = "start" \/ k \in scan[s].todo
          BY <2>2, <4>3 DEF Coming
        <4> QED BY <3>1, <4>1, <4>2, <4>3 DEF Coming
      <3> QED BY <1>5, <3>1 DEF Awaited, In
    <2> QED BY <2>1, <2>2
  <1>6. \A k \in Files : unseen[k] <= unseen'[k] /\ newest[k] <= newest'[k] BY <1>0
  <1> QED BY <1>1, <1>3, <1>4, <1>5, <1>6, KeptOnTheWay

\* What a step of one scan, or of one batch, does to the readings and the reports.
LEMMA StepOfScan ==
  ASSUME scan \in [Scans -> Job(Files)], NEW s \in Scans,
         UNCHANGED <<batch, walk, demand, news, inbox, serving>>,
         \A k \in Scans \ {s} : scan'[k] = scan[k]
  PROVE  /\ Reported' = Reported
         /\ \A r : r \in Readings' => r \in Readings \/ r \in scan'[s].read
         /\ \A r : r \in Readings => r \in Readings' \/ r \in scan[s].read
         /\ \A r : r \in scan'[s].read => r \in Readings'
         /\ \A r : r \in scan[s].read => r \in Readings
  <1>1. ASSUME NEW e PROVE e \in Reported' <=> e \in Reported
    <2>1. Mailed' = Mailed BY DEF Mailed, EventsOf
    <2> QED BY <2>1, WhatIsReported
  <1>2. ASSUME NEW r, r \in Readings' PROVE r \in Readings \/ r \in scan'[s].read
    BY <1>2, WhatIsRead
  <1>3. ASSUME NEW r, r \in Readings PROVE r \in Readings' \/ r \in scan[s].read
    BY <1>3, WhatIsRead
  <1>4. ASSUME NEW r PROVE /\ r \in scan'[s].read => r \in Readings'
                           /\ r \in scan[s].read => r \in Readings
    BY WhatIsRead
  <1> QED BY <1>1, <1>2, <1>3, <1>4

LEMMA StepOfBatch ==
  ASSUME batch \in [Batches -> Job(EventType)], NEW b \in Batches,
         UNCHANGED <<scan, walk, demand, news, inbox, serving>>,
         \A k \in Batches \ {b} : batch'[k] = batch[k]
  PROVE  /\ \A e : e \in Reported' => e \in Reported \/ e \in batch'[b].todo
         /\ \A e : e \in Reported => e \in Reported' \/ e \in batch[b].todo
         /\ \A e : e \in batch'[b].todo => e \in Reported'
         /\ \A e : e \in batch[b].todo => e \in Reported
         /\ \A r : r \in Readings' => r \in Readings \/ r \in batch'[b].read
         /\ \A r : r \in Readings => r \in Readings' \/ r \in batch[b].read
         /\ \A r : r \in batch'[b].read => r \in Readings'
         /\ \A r : r \in batch[b].read => r \in Readings
  <1>0. Mailed' = Mailed BY DEF Mailed, EventsOf
  <1>1. ASSUME NEW e, e \in Reported' PROVE e \in Reported \/ e \in batch'[b].todo
    BY <1>0, <1>1, WhatIsReported
  <1>2. ASSUME NEW e, e \in Reported PROVE e \in Reported' \/ e \in batch[b].todo
    BY <1>0, <1>2, WhatIsReported
  <1>3. ASSUME NEW r, r \in Readings' PROVE r \in Readings \/ r \in batch'[b].read
    BY <1>3, WhatIsRead
  <1>4. ASSUME NEW r, r \in Readings PROVE r \in Readings' \/ r \in batch[b].read
    BY <1>4, WhatIsRead
  <1>5. ASSUME NEW r PROVE /\ r \in batch'[b].read => r \in Readings'
                           /\ r \in batch[b].read => r \in Readings
                           /\ r \in batch'[b].todo => r \in Reported'
                           /\ r \in batch[b].todo => r \in Reported
    BY WhatIsRead, WhatIsReported
  <1> QED BY <1>1, <1>2, <1>3, <1>4, <1>5

\* A step of the walk or of a lookup.
LEMMA StepOfWalk ==
  ASSUME UNCHANGED <<scan, batch, news, inbox>>, EventsOf(serving') = EventsOf(serving)
  PROVE  /\ Reported' = Reported
         /\ \A r : r \in Readings' => r \in Readings \/ r \in walk'.read \/ r \in demand'
         /\ \A r : r \in Readings => r \in Readings' \/ r \in walk.read \/ r \in demand
         /\ \A r : r \in walk'.read \/ r \in demand' => r \in Readings'
         /\ \A r : r \in walk.read \/ r \in demand => r \in Readings
  <1>0. Mailed' = Mailed BY DEF Mailed, EventsOf
  <1>1. ASSUME NEW e PROVE e \in Reported' <=> e \in Reported
    BY <1>0, WhatIsReported
  <1>2. ASSUME NEW r, r \in Readings' PROVE r \in Readings \/ r \in walk'.read \/ r \in demand'
    BY <1>2, WhatIsRead
  <1>3. ASSUME NEW r, r \in Readings PROVE r \in Readings' \/ r \in walk.read \/ r \in demand
    BY <1>3, WhatIsRead
  <1>4. ASSUME NEW r PROVE /\ (r \in walk'.read \/ r \in demand') => r \in Readings'
                           /\ (r \in walk.read \/ r \in demand) => r \in Readings
    BY WhatIsRead
  <1> QED BY <1>1, <1>2, <1>3, <1>4

-----------------------------------------------------------------------------
\* A step of a batch.
LEMMA KeptByApplying ==
  ASSUME LInv, NEW b \in Batches, Applying(b)
  PROVE  LInv'
  <1>0. /\ MailShaped /\ WorkShaped /\ DiskShaped /\ Dated /\ OnTheirWay /\ PartsTyped
        /\ batch \in [Batches -> Job(EventType)]
        /\ batch[b].todo \subseteq EventType /\ batch[b].read \subseteq ReadingType
    BY ShapedParts DEF LInv, Shaped, WorkShaped, Job
  <1>1. UNCHANGED <<disk, time, unseen, roots, scan, walk, demand, news, inbox, serving>>
    BY DEF Applying, Delete, ReadInBatch, FileInBatch, EndBatch, world, readLoop
  <1>2. MailShaped' BY <1>0, <1>1 DEF MailShaped
  <1>3. ASSUME batch' \in [Batches -> Job(EventType)], Single(batch'[b].read),
               \A k \in Batches \ {b} : batch'[k] = batch[k]
        PROVE  WorkShaped'
    <2>1. \A k \in Batches : Single(batch'[k].read)
      <3>1. \A k \in Batches : Single(batch[k].read) BY <1>0 DEF WorkShaped
      <3> QED BY <1>3, <3>1
    <2> QED BY <1>0, <1>1, <1>3, <2>1 DEF WorkShaped
  <1>4. CASE Delete(b)
    <2>1. PICK e \in batch[b].todo :
            /\ e.deleted /\ File(Believed(e)) /\ batch' = [batch EXCEPT ![b].todo = @ \ {e}]
      BY <1>4 DEF Delete, Believed
    <2>2. /\ batch' \in [Batches -> Job(EventType)]
          /\ \A k \in Batches \ {b} : batch'[k] = batch[k]
          /\ batch'[b].todo = batch[b].todo \ {e} /\ batch'[b].read = batch[b].read
      BY <1>0, <2>1 DEF Job
    <2>3. /\ \A d : d \in Reported' => d \in Reported \/ d \in batch'[b].todo
          /\ \A d : d \in Reported => d \in Reported' \/ d \in batch[b].todo
          /\ \A d : d \in batch'[b].todo => d \in Reported'
          /\ \A d : d \in batch[b].todo => d \in Reported
          /\ \A r : r \in Readings' => r \in Readings \/ r \in batch'[b].read
          /\ \A r : r \in Readings => r \in Readings' \/ r \in batch[b].read
          /\ \A r : r \in batch'[b].read => r \in Readings'
          /\ \A r : r \in batch[b].read => r \in Readings
      BY <1>0, <1>1, <2>2, StepOfBatch
    <2>4. e \in EventType /\ e \in Reported BY <1>0, <2>1, <2>3
    <2>5. /\ Believed(e) \in ReadingType /\ Believed(e).at = e.at /\ Believed(e).file = e.file
          /\ Believed(e).at <= time /\ Sound(Believed(e))
      BY <1>0, <2>1, <2>4 DEF Believed, ReadingType, EventType, Gone, Dated, OnTheirWay
    <2>6. Readings' = Readings BY <2>2, <2>3
    <2>7. Reported' \subseteq Reported /\ \A d \in Reported : d \in Reported' \/ d = e
      BY <2>2, <2>3
    <2>8. Single(batch'[b].read) BY <1>0, <2>2 DEF WorkShaped
    <2> QED BY <1>1, <1>2, <1>3, <2>1, <2>2, <2>5, <2>6, <2>7, <2>8, KeptByFiling
  <1>5. CASE ReadInBatch(b)
    <2>1. PICK e \in batch[b].todo :
            batch' = [batch EXCEPT ![b].todo = @ \ {e}, ![b].read = {Reading(e.file)}]
      BY <1>5 DEF ReadInBatch
    <2>2. e.file \in Files BY <1>0, <2>1 DEF EventType
    <2>3. Reading(e.file) \in ReadingType
      BY <1>0, <2>2 DEF Reading, ReadingType, DiskShaped
    <2>4. batch[b].read = {} BY <1>5 DEF ReadInBatch
    <2>5. /\ batch' \in [Batches -> Job(EventType)]
          /\ \A k \in Batches \ {b} : batch'[k] = batch[k]
          /\ batch'[b].todo = batch[b].todo \ {e} /\ batch'[b].read = {Reading(e.file)}
      <3> DEFINE job == [batch[b] EXCEPT !.todo = batch[b].todo \ {e}, !.read = {Reading(e.file)}]
      <3>1. batch' = [batch EXCEPT ![b] = job] BY <2>1, Zenon
      <3>2. batch[b] \in Job(EventType) BY <1>0
      <3>3. /\ job \in Job(EventType)
            /\ job.todo = batch[b].todo \ {e} /\ job.read = {Reading(e.file)}
        BY <3>2, <2>3 DEF Job
      <3> HIDE DEF job
      <3> QED BY <1>0, <3>1, <3>3
    <2>6. /\ \A d : d \in Reported' => d \in Reported \/ d \in batch'[b].todo
          /\ \A d : d \in Reported => d \in Reported' \/ d \in batch[b].todo
          /\ \A d : d \in batch'[b].todo => d \in Reported'
          /\ \A d : d \in batch[b].todo => d \in Reported
          /\ \A r : r \in Readings' => r \in Readings \/ r \in batch'[b].read
          /\ \A r : r \in Readings => r \in Readings' \/ r \in batch[b].read
          /\ \A r : r \in batch'[b].read => r \in Readings'
          /\ \A r : r \in batch[b].read => r \in Readings
      BY <1>0, <1>1, <2>5, StepOfBatch
    <2>7. /\ Readings \subseteq Readings' /\ Readings' \subseteq Readings \cup {Reading(e.file)}
          /\ Reading(e.file) \in Readings'
      BY <2>4, <2>5, <2>6
    <2>8. Reported' \subseteq Reported /\ \A d \in Reported : d \in Reported' \/ d = e
      BY <2>5, <2>6
    <2>9. UNCHANGED <<index, newest>> BY <1>5 DEF ReadInBatch, filed
    <2>10. Single(batch'[b].read) BY <2>5 DEF Single
    <2> QED BY <1>1, <1>2, <1>3, <2>2, <2>5, <2>7, <2>8, <2>9, <2>10, KeptByReading
  <1>6. CASE FileInBatch(b)
    <2>1. PICK r \in batch[b].read : File(r) BY <1>6 DEF FileInBatch
    <2>2. batch' = [batch EXCEPT ![b].read = {}] BY <1>6 DEF FileInBatch
    <2>3. /\ batch' \in [Batches -> Job(EventType)]
          /\ \A k \in Batches \ {b} : batch'[k] = batch[k]
          /\ batch'[b].todo = batch[b].todo /\ batch'[b].read = {}
      BY <1>0, <2>2 DEF Job
    <2>4. /\ \A d : d \in Reported' => d \in Reported \/ d \in batch'[b].todo
          /\ \A d : d \in Reported => d \in Reported' \/ d \in batch[b].todo
          /\ \A d : d \in batch'[b].todo => d \in Reported'
          /\ \A d : d \in batch[b].todo => d \in Reported
          /\ \A q : q \in Readings' => q \in Readings \/ q \in batch'[b].read
          /\ \A q : q \in Readings => q \in Readings' \/ q \in batch[b].read
          /\ \A q : q \in batch[b].read => q \in Readings
      BY <1>0, <1>1, <2>3, StepOfBatch
    <2>5. batch[b].read = {r} BY <2>1, <1>0 DEF WorkShaped, Single
    <2>6. Reported' = Reported BY <2>3, <2>4
    <2>7. Readings' \subseteq Readings /\ Readings \subseteq Readings' \cup {r}
      BY <2>3, <2>4, <2>5
    <2>8. r \in ReadingType /\ r.at <= time /\ Sound(r)
      BY <1>0, <2>1, <2>4 DEF Dated, OnTheirWay
    <2>9. Single(batch'[b].read) BY <2>3 DEF Single
    <2> QED BY <1>1, <1>2, <1>3, <2>1, <2>3, <2>6, <2>7, <2>8, <2>9, KeptByFiling
  <1>7. CASE EndBatch(b)
    <2>1. batch' = [batch EXCEPT ![b] = Off] /\ batch[b].todo = {} /\ batch[b].read = {}
      BY <1>7 DEF EndBatch
    <2>2. /\ batch' \in [Batches -> Job(EventType)]
          /\ \A k \in Batches \ {b} : batch'[k] = batch[k]
          /\ batch'[b].todo = {} /\ batch'[b].read = {}
      BY <1>0, <2>1, JobsAtRest
    <2>3. Reported' = Reported
      <3>1. ASSUME NEW e PROVE e \in Reported' <=> e \in Reported
        BY <1>0, <1>1, <2>1, <2>2, StepOfBatch
      <3> QED BY <3>1
    <2>4. Readings' = Readings
      <3>1. ASSUME NEW r PROVE r \in Readings' <=> r \in Readings
        BY <1>0, <1>1, <2>1, <2>2, StepOfBatch
      <3> QED BY <3>1
    <2>5. UNCHANGED <<index, newest>> BY <1>7 DEF EndBatch, filed
    <2>6. Single(batch'[b].read) BY <2>2 DEF Single
    <2> QED BY <1>1, <1>2, <1>3, <2>2, <2>3, <2>4, <2>5, <2>6, KeptQuietly
  <1> QED BY <1>4, <1>5, <1>6, <1>7 DEF Applying

-----------------------------------------------------------------------------
\* What a walk or a scan leaves out is marked.
LEMMA KeptByLeavingOut ==
  ASSUME LInv, NEW S, LeaveOut(S),
         UNCHANGED <<disk, time, index, newest, roots>>, MailShaped', WorkShaped',
         Readings' = Readings, Reported' = Reported,
         \A k \in walk.todo : \/ k \in walk'.todo /\ walk'.todo = walk.todo
                              \/ k \in S /\ \E h \in walk.todo : disk[h] = Gone,
         \A s \in Scans : \A k \in Files :
            scan[s].pc = "start" \/ k \in scan[s].todo =>
              scan'[s].pc = "start" \/ k \in scan'[s].todo \/ k \in S \/ disk[k] = Gone
  PROVE  LInv'
  <1>0. /\ time \in Nat \ {0} /\ index \in [Files -> ReadingType] /\ newest \in [Files -> Nat]
        /\ unseen \in [Files -> Nat]
        /\ \A k \in Files : unseen[k] <= time /\ index[k].file = k /\ index[k].at \in Nat
    BY DEF LInv, Shaped, DiskShaped, IndexShaped, ReadingType
  <1>1. /\ unseen' \in [Files -> Nat] /\ \A k \in S \cap Files : unseen'[k] = time
        /\ \A k \in Files : unseen[k] <= unseen'[k] /\ unseen'[k] <= time
    BY <1>0 DEF LeaveOut
  <1>2. Shaped' BY <1>1 DEF LInv, Shaped, DiskShaped, IndexShaped
  <1>3. ASSUME NEW k \in Files, ~Exists(index[k]), Awaited(k)
        PROVE  Awaited(k)' \/ Sound(index[k])'
    <2>1. ASSUME k \in S, index[k].at < time PROVE Sound(index[k])'
      BY <1>0, <1>1, <2>1 DEF Sound, Overtaken
    <2>2. ASSUME disk[k] = Gone PROVE Sound(index[k])'
      BY <1>0, <1>3, <2>2 DEF Sound, Exists
    <2>3. ASSUME Coming(k) PROVE Coming(k)' \/ Sound(index[k])'
      <3>1. CASE k \in walk.todo /\ (index[k].at < time \/ \A h \in walk.todo : disk[h] # Gone)
        BY <2>1, <3>1 DEF Coming
      <3>2. CASE \E r \in Readings : r.file = k BY <3>2 DEF Coming
      <3>3. CASE index[k].at = 0 /\ \E s \in Scans : scan[s].pc = "start" \/ k \in scan[s].todo
        <4>1. PICK s \in Scans : scan[s].pc = "start" \/ k \in scan[s].todo BY <3>3
        <4>2. scan'[s].pc = "start" \/ k \in scan'[s].todo \/ k \in S \/ disk[k] = Gone BY <4>1
        <4>3. index[k].at < time BY <1>0, <3>3
        <4> QED BY <2>1, <2>2, <3>3, <4>2, <4>3 DEF Coming
      <3> QED BY <2>3, <3>1, <3>2, <3>3 DEF Coming
    <2> QED BY <1>3, <2>3 DEF Awaited, In
  <1> QED BY <1>0, <1>1, <1>2, <1>3, KeptOnTheWay

\* A step of a scan.
LEMMA KeptByScan ==
  ASSUME WorkspaceAssumption, LInv, NEW s \in Scans, Scanning(s)
  PROVE  LInv'
  <1>0. /\ MailShaped /\ WorkShaped /\ DiskShaped /\ Dated /\ OnTheirWay /\ PartsTyped
        /\ scan \in [Scans -> Job(Files)]
        /\ scan[s].todo \subseteq Files /\ scan[s].read \subseteq ReadingType
    BY ShapedParts DEF LInv, Shaped, WorkShaped, Job
  <1>1. UNCHANGED <<disk, time, roots, batch, walk, demand, news, inbox, serving>>
    BY DEF Scanning, BeginScan, Collect, ReadInScan, FileInScan, EndScan, world, readLoop
  <1>2. MailShaped' BY <1>0, <1>1 DEF MailShaped
  <1>3. ASSUME scan' \in [Scans -> Job(Files)], scan'[s].pc = "start" => scan'[s].read = {},
               \A k \in Scans \ {s} : scan'[k] = scan[k]
        PROVE  WorkShaped'
    <2>1. \A k \in Scans : scan'[k].pc = "start" => scan'[k].read = {}
      BY <1>0, <1>3 DEF WorkShaped
    <2> QED BY <1>0, <1>1, <1>3, <2>1 DEF WorkShaped
  <1>4. ASSUME \A k \in Scans \ {s} : scan'[k] = scan[k]
        PROVE  /\ Reported' = Reported
               /\ \A r : r \in Readings' => r \in Readings \/ r \in scan'[s].read
               /\ \A r : r \in Readings => r \in Readings' \/ r \in scan[s].read
               /\ \A r : r \in scan'[s].read => r \in Readings'
               /\ \A r : r \in scan[s].read => r \in Readings
    BY <1>0, <1>1, <1>4, StepOfScan
  <1>5. \A k \in Files : unseen[k] <= time /\ unseen[k] \in Nat BY <1>0 DEF DiskShaped
  <1>6. CASE BeginScan(s)
    <2> DEFINE job == [Off EXCEPT !.pc = "list", !.todo = Found(roots)]
    <2>1. scan' = [scan EXCEPT ![s] = job] BY <1>6 DEF BeginScan
    <2>2. job \in Job(Files) /\ job.pc = "list" /\ job.todo = Found(roots) /\ job.read = {}
      BY DEF Job, Off, Found, In
    <2> HIDE DEF job
    <2>3. /\ scan' \in [Scans -> Job(Files)] /\ scan'[s] = job
          /\ \A k \in Scans \ {s} : scan'[k] = scan[k]
      BY <1>0, <2>1, <2>2
    <2>4. scan[s].pc = "start" /\ scan[s].read = {} BY <1>0, <1>6 DEF BeginScan, WorkShaped
    <2>5. WorkShaped' BY <1>3, <2>2, <2>3
    <2>6. Reported' = Reported /\ Readings' = Readings BY <1>4, <2>2, <2>3, <2>4
    <2>7. UNCHANGED <<unseen, index, newest>> BY <1>6 DEF BeginScan, world, filed
    <2>8. Shaped' BY <1>1, <1>2, <2>5, <2>7 DEF LInv, Shaped, DiskShaped, IndexShaped
    <2>9. ASSUME NEW k \in Files, ~Exists(index[k]), Awaited(k)
          PROVE  Awaited(k)' \/ Sound(index[k])'
      <3>1. index[k].file = k BY DEF LInv, Shaped, IndexShaped
      <3>2. CASE disk[k] = Gone BY <1>1, <2>7, <2>9, <3>1, <3>2 DEF Sound, Exists
      <3>3. CASE disk[k] # Gone
        <4>1. k \in In(roots) => k \in scan'[s].todo BY <2>2, <2>3, <3>3 DEF Found
        <4>2. ASSUME k \in In(roots), Coming(k) PROVE Coming(k)'
          <5>1. CASE k \in walk.todo /\ (index[k].at < time \/ \A h \in walk.todo : disk[h] # Gone)
            BY <1>1, <2>7, <5>1 DEF Coming
          <5>2. CASE \E r \in Readings : r.file = k BY <2>6, <5>2 DEF Coming
          <5>3. CASE index[k].at = 0 BY <2>7, <4>1, <4>2, <5>3 DEF Coming
          <5> QED BY <4>2, <5>1, <5>2, <5>3 DEF Coming
        <4> QED BY <1>1, <2>9, <4>2 DEF Awaited, In
      <3> QED BY <3>2, <3>3
    <2>10. \A k \in Files : newest[k] <= newest'[k] BY <2>7 DEF LInv, Shaped, IndexShaped
    <2> QED BY <1>1, <1>5, <2>6, <2>7, <2>8, <2>9, <2>10, KeptOnTheWay
  <1>7. CASE Collect(s)
    <2> DEFINE there == scan[s].todo \cap Found(Folders)
    <2>1. PICK some \in SUBSET there :
            /\ scan' = [scan EXCEPT ![s].pc = "work", ![s].todo = some] /\ LeaveOut(there \ some)
      BY <1>7 DEF Collect
    <2> DEFINE job == [scan[s] EXCEPT !.pc = "work", !.todo = some]
    <2>2. scan' = [scan EXCEPT ![s] = job] BY <2>1, Zenon
    <2>3. scan[s] \in Job(Files) /\ some \in SUBSET Files BY <1>0
    <2>4. job \in Job(Files) /\ job.pc = "work" /\ job.todo = some /\ job.read = scan[s].read
      BY <2>3 DEF Job
    <2> HIDE DEF job
    <2>5. /\ scan' \in [Scans -> Job(Files)] /\ scan'[s] = job
          /\ \A k \in Scans \ {s} : scan'[k] = scan[k]
      BY <1>0, <2>2, <2>4
    <2>6. WorkShaped' BY <1>3, <2>4, <2>5
    <2>7. Reported' = Reported /\ Readings' = Readings BY <1>4, <2>4, <2>5
    <2>8. UNCHANGED <<index, newest>> BY <1>7 DEF Collect, filed
    <2>9. scan[s].pc = "list" BY <1>7 DEF Collect
    <2>10. ASSUME NEW q \in Scans, NEW k \in Files,
                  scan[q].pc = "start" \/ k \in scan[q].todo
           PROVE  \/ scan'[q].pc = "start" \/ k \in scan'[q].todo \/ k \in there \ some
                  \/ disk[k] = Gone
      <3>1. CASE q # s BY <2>5, <2>10, <3>1
      <3>2. CASE q = s
        <4>1. k \in scan[s].todo BY <2>9, <2>10, <3>2
        <4>2. k \in In(Folders) BY DEF In, WorkspaceAssumption
        <4> QED BY <2>4, <2>5, <3>2, <4>1, <4>2 DEF Found
      <3> QED BY <3>1, <3>2
    <2> HIDE DEF there
    <2> QED BY <1>1, <1>2, <2>1, <2>6, <2>7, <2>8, <2>10, KeptByLeavingOut
  <1>8. CASE ReadInScan(s)
    <2>1. PICK f \in scan[s].todo :
            scan' = [scan EXCEPT ![s].todo = @ \ {f},
                            ![s].read = @ \cup {r \in {Reading(f)} : Exists(r)}]
      BY <1>8 DEF ReadInScan
    <2> DEFINE found == {r \in {Reading(f)} : Exists(r)}
    <2> DEFINE job == [scan[s] EXCEPT !.todo = scan[s].todo \ {f}, !.read = scan[s].read \cup found]
    <2>2. scan' = [scan EXCEPT ![s] = job] BY <2>1, Zenon
    <2>3. f \in Files BY <1>0, <2>1
    <2>4. Reading(f) \in ReadingType BY <1>0, <2>3 DEF Reading, ReadingType, DiskShaped
    <2>5. scan[s] \in Job(Files) /\ found \subseteq {Reading(f)} BY <1>0
    <2>6. Exists(Reading(f)) => Reading(f) \in found OBVIOUS
    <2> HIDE DEF found
    <2>7. /\ job \in Job(Files) /\ job.pc = scan[s].pc
          /\ job.todo = scan[s].todo \ {f} /\ job.read = scan[s].read \cup found
      BY <2>4, <2>5 DEF Job
    <2> HIDE DEF job
    <2>8. /\ scan' \in [Scans -> Job(Files)] /\ scan'[s] = job
          /\ \A k \in Scans \ {s} : scan'[k] = scan[k]
      BY <1>0, <2>2, <2>7
    <2>9. scan[s].pc = "work" BY <1>8 DEF ReadInScan
    <2>10. WorkShaped' BY <1>3, <2>7, <2>8, <2>9
    <2>11. /\ Reported' = Reported /\ Readings \subseteq Readings'
           /\ Readings' \subseteq Readings \cup {Reading(f)}
           /\ Exists(Reading(f)) => Reading(f) \in Readings'
      BY <1>4, <2>5, <2>6, <2>7, <2>8
    <2>12. UNCHANGED <<unseen, index, newest>> BY <1>8 DEF ReadInScan, world, filed
    <2>13. \A k \in Scans : scan'[k].pc = scan[k].pc /\ scan[k].todo \subseteq scan'[k].todo \cup {f}
      BY <2>7, <2>8
    <2> QED BY <1>1, <1>2, <2>3, <2>10, <2>11, <2>12, <2>13, KeptByReading
  <1>9. CASE FileInScan(s)
    <2>1. PICK r \in scan[s].read : File(r) /\ scan' = [scan EXCEPT ![s].read = @ \ {r}]
      BY <1>9 DEF FileInScan
    <2>2. /\ scan' \in [Scans -> Job(Files)] /\ scan'[s].pc = scan[s].pc
          /\ scan'[s].todo = scan[s].todo /\ scan'[s].read = scan[s].read \ {r}
          /\ \A k \in Scans \ {s} : scan'[k] = scan[k]
      BY <1>0, <2>1 DEF Job
    <2>3. WorkShaped' BY <1>0, <1>3, <2>2 DEF WorkShaped
    <2>4. /\ Reported' = Reported /\ Readings' \subseteq Readings
          /\ Readings \subseteq Readings' \cup {r} /\ r \in Readings
      BY <1>4, <2>1, <2>2
    <2>5. r \in ReadingType /\ r.at <= time /\ Sound(r)
      BY <1>0, <2>4 DEF Dated, OnTheirWay, PartsTyped
    <2>6. UNCHANGED unseen BY <1>9 DEF FileInScan, world
    <2>7. \A k \in Scans : scan'[k].pc = scan[k].pc /\ scan'[k].todo = scan[k].todo BY <2>2
    <2> QED BY <1>1, <1>2, <2>1, <2>3, <2>4, <2>5, <2>6, <2>7, KeptByFiling
  <1>10. CASE EndScan(s)
    <2>1. scan' = [scan EXCEPT ![s] = Off] /\ scan[s].todo = {} /\ scan[s].read = {}
          /\ scan[s].pc = "work"
      BY <1>10 DEF EndScan
    <2>2. /\ scan' \in [Scans -> Job(Files)] /\ scan'[s] = Off
          /\ \A k \in Scans \ {s} : scan'[k] = scan[k]
      BY <1>0, <2>1, JobsAtRest
    <2>3. WorkShaped' BY <1>3, <2>2, JobsAtRest
    <2>4. Reported' = Reported /\ Readings' = Readings BY <1>4, <2>1, <2>2, JobsAtRest
    <2>5. UNCHANGED <<unseen, index, newest>> BY <1>10 DEF EndScan, world, filed
    <2>6. Shaped' BY <1>1, <1>2, <2>3, <2>5 DEF LInv, Shaped, DiskShaped, IndexShaped
    <2>7. ASSUME NEW k \in Files, Coming(k) PROVE Coming(k)'
      <3>1. CASE k \in walk.todo /\ (index[k].at < time \/ \A h \in walk.todo : disk[h] # Gone)
        BY <1>1, <2>5, <3>1 DEF Coming
      <3>2. CASE \E r \in Readings : r.file = k BY <2>4, <3>2 DEF Coming
      <3>3. CASE index[k].at = 0 /\ \E q \in Scans : scan[q].pc = "start" \/ k \in scan[q].todo
        <4>1. PICK q \in Scans : scan[q].pc = "start" \/ k \in scan[q].todo BY <3>3
        <4>2. q # s BY <2>1, <4>1
        <4> QED BY <2>2, <2>5, <3>3, <4>1, <4>2 DEF Coming
      <3> QED BY <2>7, <3>1, <3>2, <3>3 DEF Coming
    <2>8. \A k \in Files : Awaited(k) => Awaited(k)' BY <1>1, <2>7 DEF Awaited, In
    <2>9. \A k \in Files : unseen[k] <= unseen'[k] /\ newest[k] <= newest'[k]
      BY <2>5 DEF LInv, Shaped, DiskShaped, IndexShaped
    <2> QED BY <1>1, <2>4, <2>5, <2>6, <2>8, <2>9, KeptOnTheWay
  <1> QED BY <1>6, <1>7, <1>8, <1>9, <1>10 DEF Scanning

\* A step of the walk, and what the handler does to the index itself.
LEMMA KeptByFolders ==
  ASSUME LInv, CloseFolder \/ BeginWalk \/ ReadInWalk \/ CutWalk \/ FileInWalk \/ EndWalk
  PROVE  LInv'
  <1>0. /\ MailShaped /\ WorkShaped /\ DiskShaped /\ IndexShaped /\ Dated /\ OnTheirWay
        /\ PartsTyped /\ walk \in Job(Files)
        /\ walk.todo \subseteq Files /\ walk.read \subseteq ReadingType
    BY ShapedParts DEF LInv, Shaped, WorkShaped, Job
  <1>1. UNCHANGED <<disk, time, scan, batch, demand, news, inbox>>
    BY DEF CloseFolder, BeginWalk, ReadInWalk, CutWalk, FileInWalk, EndWalk, Return, world,
           readLoop
  <1>2. ASSUME EventsOf(serving') = EventsOf(serving)
        PROVE  /\ Reported' = Reported
               /\ \A r : r \in Readings' => r \in Readings \/ r \in walk'.read
               /\ \A r : r \in Readings => r \in Readings' \/ r \in walk.read
               /\ \A r : r \in walk'.read => r \in Readings'
               /\ \A r : r \in walk.read => r \in Readings
    <2>1. \A r : r \in demand' => r \in Readings BY <1>1, WhatIsRead
    <2>2. \A r : r \in demand => r \in Readings' BY <1>1, WhatIsRead
    <2> QED BY <1>1, <1>2, <2>1, <2>2, StepOfWalk
  <1>3. ASSUME UNCHANGED serving PROVE MailShaped' BY <1>0, <1>1, <1>3 DEF MailShaped
  <1>4. ASSUME walk' \in Job(Files), Single(walk'.read), walk'.pc = "work" \/ walk' = Off,
               walk'.pc = "work" => serving'.kind = "folder" /\ serving'.added
        PROVE  WorkShaped'
    BY <1>0, <1>1, <1>4 DEF WorkShaped
  <1>5. \A k \in Files : /\ unseen[k] \in Nat /\ newest[k] \in Nat /\ newest[k] <= time
                         /\ index[k].file = k /\ index[k].at <= time
    BY <1>0 DEF DiskShaped, IndexShaped
  <1>6. CASE CloseFolder
    <2>1. UNCHANGED <<unseen, walk>> /\ serving' = Nobody /\ serving.kind = "folder"
          /\ ~serving.added /\ roots' = roots \ {serving.folder}
      BY <1>6 DEF CloseFolder, Return, world
    <2> DEFINE under == In({serving.folder})
    <2>2. /\ index' = [f \in Files |-> IF f \in under THEN [file |-> f, text |-> Gone, at |-> time]
                                       ELSE index[f]]
          /\ newest' = [f \in Files |-> IF f \in under THEN time ELSE newest[f]]
      BY <1>6 DEF CloseFolder
    <2>3. EventsOf(serving') = EventsOf(serving) BY <2>1, WhatMessagesReport
    <2>4. Reported' = Reported /\ Readings' = Readings BY <1>2, <2>1, <2>3
    <2>5. walk.pc # "work" BY <1>0, <2>1 DEF WorkShaped
    <2>6. WorkShaped' BY <1>0, <1>4, <2>1, <2>5 DEF WorkShaped
    <2>7. MailShaped' BY <1>0, <1>1, <2>1 DEF MailShaped
    <2>8. index' \in [Files -> ReadingType] /\ newest' \in [Files -> Nat]
      <3>1. \A f \in Files : [file |-> f, text |-> Gone, at |-> time] \in ReadingType
        BY <1>0 DEF ReadingType, Gone, DiskShaped
      <3> QED BY <1>0, <2>2, <3>1 DEF IndexShaped, DiskShaped
    <2>9. \A k \in Files : /\ newest[k] <= newest'[k] /\ newest'[k] <= time
                           /\ index'[k].at <= time /\ index'[k].file = k
      BY <1>0, <1>5, <2>2 DEF DiskShaped
    <2>10. Shaped' BY <1>0, <1>1, <2>1, <2>6, <2>7, <2>8, <2>9 DEF Shaped, DiskShaped, IndexShaped
    <2>11. ASSUME NEW k \in Files
           PROVE  \/ ~Exists(index'[k]) /\ Awaited(k)'
                  \/ index'[k] = index[k] /\ (Awaited(k) => Awaited(k)')
      <3>1. CASE k \in under
        <4>1. k \notin In(roots') BY <2>1, <3>1 DEF In
        <4>2. Awaited(k)' BY <4>1 DEF Awaited, In
        <4> QED BY <2>2, <3>1, <4>2 DEF Exists
      <3>2. CASE k \notin under
        <4>1. index'[k] = index[k] BY <2>2, <3>2
        <4>2. k \in In(roots)' => k \in In(roots) BY <2>1 DEF In
        <4>3. Coming(k) => Coming(k)' BY <1>1, <2>1, <2>4, <4>1 DEF Coming
        <4> QED BY <4>1, <4>2, <4>3 DEF Awaited
      <3> QED BY <3>1, <3>2
    <2>12. \A k \in Files : unseen[k] <= unseen'[k] BY <1>5, <2>1
    <2> QED BY <1>1, <2>4, <2>9, <2>10, <2>11, <2>12, KeptOnTheWay
  <1>7. CASE BeginWalk
    <2>1. /\ UNCHANGED <<unseen, index, newest, serving>> /\ walk = Off
          /\ serving.kind = "folder" /\ serving.added /\ roots' = roots \cup {serving.folder}
      BY <1>7 DEF BeginWalk, world, filed, readLoop
    <2> DEFINE found == Found({serving.folder})
    <2>2. walk' = [Off EXCEPT !.pc = "work", !.todo = found] BY <1>7 DEF BeginWalk
    <2>3. walk' \in Job(Files) /\ walk'.pc = "work" /\ walk'.todo = found /\ walk'.read = {}
      BY <2>2 DEF Off, Job, Found, In
    <2>4. Reported' = Reported /\ Readings' = Readings
      BY <1>2, <2>1, <2>3, JobsAtRest
    <2>5. WorkShaped' BY <1>4, <2>1, <2>3 DEF Single
    <2>6. Shaped' BY <1>0, <1>1, <1>3, <2>1, <2>5 DEF Shaped, DiskShaped, IndexShaped
    <2>7. ASSUME NEW k \in Files, ~Exists(index[k]), Awaited(k)
          PROVE  Awaited(k)' \/ Sound(index[k])'
      <3>1. CASE disk[k] = Gone BY <1>1, <1>5, <2>1, <2>7, <3>1 DEF Sound, Exists
      <3>2. CASE disk[k] # Gone
        <4>1. ASSUME k \in In({serving.folder}) PROVE Coming(k)'
          <5>1. k \in found BY <3>2, <4>1 DEF Found
          <5>2. \A h \in found : disk[h] # Gone BY DEF Found
          <5> QED BY <1>1, <2>3, <5>1, <5>2 DEF Coming
        <4>2. ASSUME k \in In(roots) PROVE Coming(k)'
          <5>1. Coming(k) BY <2>7, <4>2 DEF Awaited
          <5>2. k \notin walk.todo BY <2>1, JobsAtRest
          <5> QED BY <1>1, <2>1, <2>4, <5>1, <5>2 DEF Coming
        <4>3. k \in In(roots)' => k \in In(roots) \/ k \in In({serving.folder}) BY <2>1 DEF In
        <4> QED BY <4>1, <4>2, <4>3 DEF Awaited
      <3> QED BY <3>1, <3>2
    <2>8. \A k \in Files : unseen[k] <= unseen'[k] /\ newest[k] <= newest'[k] BY <1>5, <2>1
    <2> QED BY <1>1, <2>1, <2>4, <2>6, <2>7, <2>8, KeptOnTheWay
  <1>8. CASE ReadInWalk
    <2>1. PICK f \in walk.todo :
            walk' = [walk EXCEPT !.todo = walk.todo \ {f}, !.read = {r \in {Reading(f)} : Exists(r)}]
      BY <1>8 DEF ReadInWalk
    <2> DEFINE found == {r \in {Reading(f)} : Exists(r)}
    <2>2. f \in Files BY <1>0, <2>1
    <2>3. Reading(f) \in ReadingType BY <1>0, <2>2 DEF Reading, ReadingType, DiskShaped
    <2>4. found \subseteq {Reading(f)} /\ (Exists(Reading(f)) => Reading(f) \in found) OBVIOUS
    <2>5. walk' = [walk EXCEPT !.todo = walk.todo \ {f}, !.read = found] BY <2>1
    <2> HIDE DEF found
    <2>6. /\ walk' \in Job(Files) /\ walk'.pc = walk.pc
          /\ walk'.todo = walk.todo \ {f} /\ walk'.read = found
      BY <1>0, <2>3, <2>4, <2>5 DEF Job
    <2>7. walk.read = {} /\ UNCHANGED <<unseen, index, newest, roots, serving>>
      BY <1>8 DEF ReadInWalk, world, filed, readLoop
    <2>8. walk.pc = "work" BY <1>0, <2>1, JobsAtRest DEF WorkShaped
    <2>9. Single(walk'.read) BY <2>4, <2>6 DEF Single
    <2>10. WorkShaped' BY <1>0, <1>4, <2>6, <2>7, <2>8, <2>9 DEF WorkShaped
    <2>11. /\ Reported' = Reported /\ Readings \subseteq Readings'
           /\ Readings' \subseteq Readings \cup {Reading(f)}
           /\ Exists(Reading(f)) => Reading(f) \in Readings'
      BY <1>2, <2>4, <2>6, <2>7
    <2>12. \A s \in Scans : scan'[s].pc = scan[s].pc /\ scan[s].todo \subseteq scan'[s].todo \cup {f}
      BY <1>1
    <2> QED BY <1>1, <1>3, <2>2, <2>6, <2>7, <2>10, <2>11, <2>12, KeptByReading
  <1>9. CASE CutWalk
    <2>1. /\ \E h \in walk.todo : disk[h] = Gone
          /\ LeaveOut(walk.todo) /\ walk' = [walk EXCEPT !.todo = {}]
          /\ UNCHANGED <<index, newest, roots, serving>>
      BY <1>9 DEF CutWalk, filed, readLoop
    <2>2. walk' \in Job(Files) /\ walk'.pc = walk.pc /\ walk'.todo = {} /\ walk'.read = walk.read
      BY <1>0, <2>1 DEF Job
    <2>3. walk.pc = "work" BY <1>0, <2>1, JobsAtRest DEF WorkShaped
    <2>4. WorkShaped' BY <1>0, <1>4, <2>1, <2>2, <2>3 DEF WorkShaped
    <2>5. Reported' = Reported /\ Readings' = Readings BY <1>2, <2>1, <2>2
    <2> QED BY <1>1, <1>3, <2>1, <2>4, <2>5, KeptByLeavingOut
  <1>10. CASE FileInWalk
    <2>1. PICK r \in walk.read : File(r) BY <1>10 DEF FileInWalk
    <2>2. walk' = [walk EXCEPT !.read = {}] /\ UNCHANGED <<unseen, roots, serving>>
      BY <1>10 DEF FileInWalk, world, readLoop
    <2>3. walk' \in Job(Files) /\ walk'.pc = walk.pc /\ walk'.todo = walk.todo /\ walk'.read = {}
      BY <1>0, <2>2 DEF Job
    <2>4. walk.pc = "work" BY <1>0, <2>1, JobsAtRest DEF WorkShaped
    <2>5. WorkShaped' BY <1>0, <1>4, <2>2, <2>3, <2>4 DEF WorkShaped, Single
    <2>6. walk.read = {r} BY <1>0, <2>1 DEF WorkShaped, Single
    <2>7. /\ Reported' = Reported /\ Readings' \subseteq Readings
          /\ Readings \subseteq Readings' \cup {r} /\ r \in Readings
      BY <1>2, <2>2, <2>3, <2>6
    <2>8. r \in ReadingType /\ r.at <= time /\ Sound(r)
      BY <1>0, <2>7 DEF Dated, OnTheirWay, PartsTyped
    <2> QED BY <1>1, <1>3, <2>1, <2>2, <2>3, <2>5, <2>7, <2>8, KeptByFiling
  <1>11. CASE EndWalk
    <2>1. /\ walk.pc = "work" /\ walk.todo = {} /\ walk.read = {} /\ walk' = Off
          /\ serving' = Nobody /\ UNCHANGED <<unseen, index, newest, roots>>
      BY <1>11 DEF EndWalk, Return, world, filed
    <2>2. serving.kind = "folder" BY <1>0, <2>1 DEF WorkShaped
    <2>3. EventsOf(serving') = EventsOf(serving) BY <2>1, <2>2, WhatMessagesReport
    <2>4. Reported' = Reported /\ Readings' = Readings BY <1>2, <2>1, <2>3, JobsAtRest
    <2>5. MailShaped' BY <1>0, <1>1, <2>1 DEF MailShaped
    <2>6. WorkShaped' BY <1>4, <2>1, JobsAtRest DEF Single
    <2>7. Shaped' BY <1>0, <1>1, <2>1, <2>5, <2>6 DEF Shaped, DiskShaped, IndexShaped
    <2>8. \A k \in Files : Awaited(k) => Awaited(k)'
      BY <1>1, <2>1, <2>4 DEF Awaited, Coming, In
    <2>9. \A k \in Files : unseen[k] <= unseen'[k] /\ newest[k] <= newest'[k] BY <1>5, <2>1
    <2> QED BY <1>1, <2>1, <2>4, <2>7, <2>8, <2>9, KeptOnTheWay
  <1> QED BY <1>6, <1>7, <1>8, <1>9, <1>10, <1>11

\* A lookup.
LEMMA KeptByLookup ==
  ASSUME LInv, \/ FileOnDemand \/ \E f \in Files : ReadOnDemand(f)
  PROVE  LInv'
  <1>0. /\ MailShaped /\ WorkShaped /\ DiskShaped /\ Dated /\ OnTheirWay /\ PartsTyped
        /\ demand \subseteq ReadingType
    BY ShapedParts DEF LInv, Shaped, WorkShaped
  <1>1. UNCHANGED <<disk, time, unseen, roots, scan, batch, walk, news, inbox, serving>>
    BY DEF FileOnDemand, ReadOnDemand, world, readLoop
  <1>2. MailShaped' BY <1>0, <1>1 DEF MailShaped
  <1>3. ASSUME demand' \in SUBSET ReadingType, Single(demand') PROVE WorkShaped'
    BY <1>0, <1>1, <1>3 DEF WorkShaped
  <1>4. /\ Reported' = Reported
        /\ \A r : r \in Readings' => r \in Readings \/ r \in demand'
        /\ \A r : r \in Readings => r \in Readings' \/ r \in demand
        /\ \A r : r \in demand' => r \in Readings'
        /\ \A r : r \in demand => r \in Readings
    <2>1. \A r : r \in walk'.read => r \in Readings BY <1>1, WhatIsRead
    <2>2. \A r : r \in walk.read => r \in Readings' BY <1>1, WhatIsRead
    <2> QED BY <1>1, <2>1, <2>2, StepOfWalk
  <1>5. \A s \in Scans : /\ scan'[s].pc = scan[s].pc /\ scan'[s].todo = scan[s].todo
    BY <1>1
  <1>6. CASE FileOnDemand
    <2>1. PICK r \in demand : File(r) BY <1>6 DEF FileOnDemand
    <2>2. demand' = {} BY <1>6 DEF FileOnDemand
    <2>3. demand = {r} BY <1>0, <2>1 DEF WorkShaped, Single
    <2>4. WorkShaped' BY <1>3, <2>2 DEF Single
    <2>5. /\ Readings' \subseteq Readings /\ Readings \subseteq Readings' \cup {r} /\ r \in Readings
      BY <1>4, <2>2, <2>3
    <2>6. r \in ReadingType /\ r.at <= time /\ Sound(r)
      BY <1>0, <2>5 DEF Dated, OnTheirWay, PartsTyped
    <2> QED BY <1>1, <1>2, <1>4, <1>5, <2>1, <2>4, <2>5, <2>6, KeptByFiling
  <1>7. ASSUME NEW f \in Files, ReadOnDemand(f) PROVE LInv'
    <2>1. demand = {} /\ demand' = {Reading(f)} /\ UNCHANGED <<index, newest>>
      BY <1>7 DEF ReadOnDemand, filed
    <2>2. Reading(f) \in ReadingType BY <1>0 DEF Reading, ReadingType, DiskShaped
    <2>3. WorkShaped' BY <1>3, <2>1, <2>2 DEF Single
    <2>4. /\ Readings \subseteq Readings' /\ Readings' \subseteq Readings \cup {Reading(f)}
          /\ Reading(f) \in Readings'
      BY <1>4, <2>1
    <2> QED BY <1>1, <1>2, <1>4, <1>5, <2>1, <2>3, <2>4, KeptByReading
  <1> QED BY <1>6, <1>7

\* A change of the disk overtakes all that is known of the file, and is reported
\* itself or marked.
LEMMA KeptByChange ==
  ASSUME LInv, NEW f \in Files, Change(f)
  PROVE  LInv'
  <1>0. /\ MailShaped /\ WorkShaped /\ DiskShaped /\ IndexShaped /\ Dated /\ OnTheirWay
        /\ Indexed /\ PartsTyped /\ time \in Nat \ {0}
    BY ShapedParts DEF LInv, Shaped, DiskShaped
  <1>1. /\ UNCHANGED <<index, newest, roots, scan, batch, walk, demand, inbox, serving>>
        /\ time' = time + 1
    BY DEF Change, filed, readLoop
  <1>2. PICK text \in {Gone, time + 1} :
          /\ disk' = [disk EXCEPT ![f] = text]
          /\ IF watcher = "watching" /\ FolderOf[f] \in opened
             THEN /\ news' = {e \in news : e.file # f} \cup
                               {[file |-> f, deleted |-> text = Gone, at |-> time + 1]}
                  /\ UNCHANGED unseen
             ELSE unseen' = [unseen EXCEPT ![f] = time + 1] /\ UNCHANGED news
    BY DEF Change
  <1> DEFINE new == [file |-> f, deleted |-> text = Gone, at |-> time + 1]
  <1>3. new \in EventType /\ new.file = f /\ new.at = time + 1 /\ (new.deleted <=> text = Gone)
    <2> DEFINE gone == text = Gone
    <2>1. gone \in BOOLEAN /\ time + 1 \in Nat BY <1>0
    <2>2. new = [file |-> f, deleted |-> gone, at |-> time + 1] OBVIOUS
    <2> HIDE DEF gone, new
    <2>3. new \in EventType /\ new.file = f /\ new.at = time + 1 /\ new.deleted = gone
      BY <2>1, <2>2 DEF EventType
    <2> QED BY <2>3 DEF gone
  <1>4. text \in Nat BY <1>0, <1>2 DEF Gone
  <1>5. disk' \in [Files -> Nat] /\ disk'[f] = text /\ \A k \in Files \ {f} : disk'[k] = disk[k]
    BY <1>0, <1>2, <1>4 DEF DiskShaped
  <1>6. /\ news' \in SUBSET EventType /\ unseen' \in [Files -> Nat]
        /\ \A k \in Files : unseen[k] <= unseen'[k] /\ unseen'[k] <= time + 1
        /\ unseen'[f] = time + 1 \/ new \in news'
        /\ \A e \in news' : e \in news \/ e = new
        /\ \A e \in news : e \in news' \/ (e.file = f /\ new \in news')
    <2>1. CASE watcher = "watching" /\ FolderOf[f] \in opened
      <3>1. news' = {e \in news : e.file # f} \cup {new} /\ unseen' = unseen BY <1>2, <2>1
      <3> HIDE DEF new
      <3>2. news' \in SUBSET EventType BY <1>0, <1>3, <3>1 DEF MailShaped
      <3> QED BY <1>0, <1>3, <3>1, <3>2 DEF DiskShaped
    <2>2. CASE ~(watcher = "watching" /\ FolderOf[f] \in opened)
      <3>1. unseen' = [unseen EXCEPT ![f] = time + 1] /\ news' = news BY <1>2, <2>2
      <3> HIDE DEF new
      <3> QED BY <1>0, <3>1 DEF DiskShaped, MailShaped
    <2> QED BY <2>1, <2>2
  <1> HIDE DEF new
  <1>7. Shaped'
    <2>1. DiskShaped' BY <1>0, <1>1, <1>5, <1>6 DEF DiskShaped
    <2>2. IndexShaped' BY <1>0, <1>1 DEF IndexShaped, ReadingType
    <2>3. MailShaped' BY <1>0, <1>1, <1>6 DEF MailShaped
    <2>4. WorkShaped' BY <1>0, <1>1 DEF WorkShaped
    <2> QED BY <2>1, <2>2, <2>3, <2>4 DEF Shaped
  <1>8. Readings' = Readings BY <1>1 DEF Readings, Scanned, Looked
  <1>9. Mailed' = Mailed BY <1>1 DEF Mailed, EventsOf
  <1>10. ASSUME NEW e \in Reported' PROVE e \in Reported \/ (e = new /\ new \in news')
    BY <1>1, <1>6, <1>9, WhatIsReported
  <1>11. new \in news' => new \in Reported' BY WhatIsReported
  <1>12. ASSUME NEW e \in Reported PROVE e \in Reported' \/ (e.file = f /\ new \in Reported')
    BY <1>1, <1>6, <1>9, <1>11, WhatIsReported
  <1>13. ASSUME NEW k \in Files, NEW t \in Nat, Overtaken(k, t) PROVE Overtaken(k, t)'
    <2>1. \A e \in Reported : e \in Reported' \/ \E d \in Reported' : d.file = e.file /\ e.at <= d.at
      <3>1. ASSUME NEW e \in Reported, e \notin Reported'
            PROVE  \E d \in Reported' : d.file = e.file /\ e.at <= d.at
        <4>1. e.file = f /\ new \in Reported' BY <1>12, <3>1
        <4>2. e.at \in Nat /\ e.at <= time BY <1>0 DEF PartsTyped, EventType, Dated
        <4> QED BY <1>0, <1>3, <4>1, <4>2
      <3> QED BY <3>1
    <2>2. \A q \in Files : unseen[q] <= unseen'[q] /\ newest[q] <= newest'[q]
      BY <1>0, <1>1, <1>6 DEF IndexShaped
    <2> QED BY <1>7, <1>8, <1>13, <2>1, <2>2, NothingForgotten DEF LInv
  <1>14. ASSUME NEW t \in Nat, t <= time PROVE Overtaken(f, t)'
    <2>1. t < time + 1 BY <1>0, <1>14
    <2> QED BY <1>3, <1>6, <1>11, <2>1 DEF Overtaken
  <1>15. ASSUME NEW r \in ReadingType, r.at <= time, Sound(r) PROVE Sound(r)'
    <2>1. r.file \in Files /\ r.at \in Nat BY DEF ReadingType
    <2>2. CASE r.file = f BY <1>14, <1>15, <2>1, <2>2 DEF Sound
    <2>3. CASE r.file # f BY <1>5, <1>13, <1>15, <2>1, <2>3 DEF Sound
    <2> QED BY <2>2, <2>3
  <1>16. Dated'
    <2>1. \A r \in Readings' : r.at <= time'
      <3>1. \A r \in Readings : r.at \in Nat /\ r.at <= time
        BY <1>0 DEF PartsTyped, ReadingType, Dated
      <3> QED BY <1>0, <1>1, <1>8, <3>1
    <2>2. \A e \in Reported' : e.at <= time'
      <3>1. \A e \in Reported : e.at \in Nat /\ e.at <= time
        BY <1>0 DEF PartsTyped, EventType, Dated
      <3> QED BY <1>0, <1>1, <1>3, <1>10, <3>1
    <2> QED BY <2>1, <2>2 DEF Dated
  <1>17. OnTheirWay'
    <2>1. ASSUME NEW r \in Readings' PROVE Sound(r)'
      BY <1>0, <1>8, <1>15 DEF OnTheirWay, PartsTyped, Dated
    <2>2. ASSUME NEW e \in Reported', e.deleted PROVE Sound(Believed(e))'
      <3>1. CASE e \in Reported
        <4>1. Sound(Believed(e)) BY <1>0, <2>2, <3>1 DEF OnTheirWay
        <4>2. Believed(e) \in ReadingType /\ Believed(e).at <= time
          BY <1>0, <3>1 DEF Believed, ReadingType, EventType, Gone, PartsTyped, Dated
        <4> QED BY <4>1, <4>2, <1>15
      <3>2. CASE e = new
        <4>1. text = Gone /\ e.file = f BY <1>3, <2>2, <3>2
        <4> QED BY <1>5, <4>1 DEF Sound, Believed
      <3> QED BY <1>10, <3>1, <3>2
    <2> QED BY <2>1, <2>2 DEF OnTheirWay
  <1>18. ASSUME NEW k \in Files
         PROVE  (Sound(index[k]) \/ (~Exists(index[k]) /\ Awaited(k)))'
    <2>1. PICK r \in ReadingType : r = index[k] BY <1>0 DEF IndexShaped
    <2>2. index'[k] = r /\ r.at \in Nat /\ r.at <= time
      BY <1>0, <1>1, <2>1 DEF IndexShaped, ReadingType
    <2>3. CASE Sound(index[k])
      <3>1. Sound(r)' BY <1>15, <2>1, <2>2, <2>3
      <3> QED BY <2>2, <3>1 DEF Sound
    <2>4. CASE ~Exists(index[k]) /\ Awaited(k)
      <3>1. ASSUME Coming(k) PROVE Coming(k)'
        <4>1. CASE k \in walk.todo
          <5>1. index'[k].at < time' BY <1>0, <1>1, <2>2
          <5> QED BY <1>1, <4>1, <5>1 DEF Coming
        <4>2. CASE \E q \in Readings : q.file = k BY <1>8, <4>2 DEF Coming
        <4>3. CASE index[k].at = 0 /\ \E s \in Scans : scan[s].pc = "start" \/ k \in scan[s].todo
          BY <1>1, <4>3 DEF Coming
        <4> QED BY <3>1, <4>1, <4>2, <4>3 DEF Coming
      <3> QED BY <1>1, <2>4, <3>1 DEF Awaited, In, Exists
    <2> QED BY <1>0, <2>3, <2>4 DEF Indexed
  <1> QED BY <1>7, <1>16, <1>17, <1>18 DEF LInv, Indexed

-----------------------------------------------------------------------------
\* The session starts with an empty index and a scan to come.
LEMMA ScanToCome ==
  ASSUME WorkspaceAssumption, Init
  PROVE  LInv
  <1>1. PICK s \in Scans : scan = [[q \in Scans |-> Off] EXCEPT ![s] = Starting({})]
    <2> DEFINE off == [q \in Scans |-> Off]
    <2>1. DOMAIN off = Scans /\ \A q \in Scans : off[q] = Off OBVIOUS
    <2>2. Idle(off) # {} BY <2>1 DEF Idle, WorkspaceAssumption
    <2> HIDE DEF off
    <2>3. \E q \in DOMAIN off : Go(off, {}) = [off EXCEPT ![q] = Starting({})]
      BY <2>2, GoStartsOne
    <2>4. scan = Go(off, {}) BY DEF Init, off
    <2> QED BY <2>1, <2>3, <2>4 DEF off
  <1>2. /\ scan \in [Scans -> Job(Files)] /\ scan[s].pc = "start"
        /\ \A q \in Scans : scan[q].read = {}
    BY <1>1, JobsAtRest
  <1>3. /\ batch = [b \in Batches |-> Off] /\ walk = Off /\ demand = {} /\ news = {}
        /\ inbox = <<Initialized>> /\ serving = Nobody /\ time = 1
        /\ unseen = [k \in Files |-> 0] /\ newest = [k \in Files |-> 0]
        /\ index = [k \in Files |-> [file |-> k, text |-> Gone, at |-> 0]]
        /\ disk \in [Files -> {Gone, 1}]
    BY DEF Init, ReadLoopInit
  <1>4. DiskShaped BY <1>3 DEF DiskShaped, Gone
  <1>5. IndexShaped BY <1>3 DEF IndexShaped, ReadingType, Gone
  <1>6. MailShaped BY <1>3 DEF MailShaped, Message
  <1>7. WorkShaped
    <2>1. batch \in [Batches -> Job(EventType)] /\ walk \in Job(Files) BY <1>3, JobsAtRest
    <2> QED BY <1>2, <1>3, <2>1, JobsAtRest DEF WorkShaped, Single
  <1>8. Readings = {}
    <2>1. ASSUME NEW r \in Readings PROVE FALSE BY <1>2, <1>3, WhatIsRead, JobsAtRest
    <2> QED BY <2>1
  <1>9. Reported = {}
    <2>1. Mailed = {}
      <3>1. ASSUME NEW e \in Mailed PROVE FALSE
        <4>1. PICK i \in DOMAIN inbox : e \in EventsOf(inbox[i]) BY <3>1 DEF Mailed
        <4>2. inbox[i] = Initialized BY <1>3, <4>1
        <4> QED BY <4>1, <4>2, WhatMessagesReport
      <3> QED BY <3>1
    <2>2. ASSUME NEW e \in Reported PROVE FALSE
      BY <1>3, <2>1, <2>2, WhatIsReported, WhatMessagesReport, JobsAtRest
    <2> QED BY <2>2
  <1>10. Dated /\ OnTheirWay BY <1>8, <1>9 DEF Dated, OnTheirWay
  <1>11. ASSUME NEW k \in Files PROVE ~Exists(index[k]) /\ Awaited(k)
    BY <1>2, <1>3 DEF Exists, Awaited, Coming
  <1> QED BY <1>4, <1>5, <1>6, <1>7, <1>10, <1>11 DEF LInv, Shaped, Indexed

\* When all is settled nothing is on its way.
LEMMA NothingOnItsWay ==
  ASSUME LInv, Settled
  PROVE  OnlyOvertakenLags
  <1>1. Readings = {}
    <2>1. ASSUME NEW r \in Readings PROVE FALSE BY WhatIsRead, JobsAtRest DEF Settled
    <2> QED BY <2>1
  <1>2. Reported = {}
    <2>1. Mailed = {} BY DEF Mailed, Settled
    <2>2. ASSUME NEW e \in Reported PROVE FALSE
      BY <2>1, WhatIsReported, WhatMessagesReport, JobsAtRest DEF Settled
    <2> QED BY <2>2
  <1>3. ASSUME NEW k \in In(roots)
        PROVE  index[k].text = disk[k] \/ index[k].at < newest[k] \/ index[k].at < unseen[k]
    <2>1. k \in Files BY DEF In
    <2>2. index[k].file = k BY <2>1 DEF LInv, Shaped, IndexShaped
    <2>3. ~Coming(k)
      <3>1. k \notin walk.todo BY JobsAtRest DEF Settled
      <3>2. \A s \in Scans : scan[s].pc # "start" /\ k \notin scan[s].todo
        BY JobsAtRest DEF Settled
      <3> QED BY <1>1, <3>1, <3>2 DEF Coming
    <2>4. Sound(index[k]) BY <2>1, <2>3 DEF LInv, Indexed, Awaited
    <2> QED BY <1>1, <1>2, <2>2, <2>4 DEF Sound, Overtaken
  <1> QED BY <1>3 DEF OnlyOvertakenLags

\* Every step keeps what is known of what is on its way.
LEMMA LagKept ==
  ASSUME WorkspaceAssumption, LInv, [Next]_vars
  PROVE  LInv'
  <1>1. CASE UNCHANGED vars BY <1>1, KeptAside DEF vars, world, filed, readLoop
  <1>2. ASSUME NEW f \in Files, Change(f) PROVE LInv' BY <1>2, KeptByChange
  <1>3. ASSUME NEW f \in Files, ReadOnDemand(f) PROVE LInv' BY <1>3, KeptByLookup
  <1>4. CASE \/ Report \/ Commands \/ \E d \in Folders : OpenFolder(d)
             \/ \E c \in Calls : Answers(c)
    BY <1>4, KeptByClient
  <1>5. CASE Reads \/ Register \/ ReturnFormat BY <1>5, KeptByReader
  <1>6. CASE FileOnDemand BY <1>6, KeptByLookup
  <1>7. CASE Handling
    <2>1. CASE HandleInitialized \/ HandleFormat \/ HandleReindex \/ HandleWatched
      BY <2>1, KeptByHandOff
    <2>2. CASE CloseFolder \/ BeginWalk \/ ReadInWalk \/ CutWalk \/ FileInWalk \/ EndWalk
      BY <2>2, KeptByFolders
    <2> QED BY <1>7, <2>1, <2>2 DEF Handling
  <1>8. ASSUME NEW s \in Scans, Scanning(s) PROVE LInv' BY <1>8, KeptByScan
  <1>9. ASSUME NEW b \in Batches, Applying(b) PROVE LInv' BY <1>9, KeptByApplying
  <1> QED BY <1>1, <1>2, <1>3, <1>4, <1>5, <1>6, <1>7, <1>8, <1>9 DEF Next, Work

\* Whatever the order in which scans, the walk, watched changes and lookups read
\* and file, and in which folders are opened and closed: when nothing is on its way,
\* a file under a root is in the index as it is on the disk, unless something newer
\* of it was filed before, or is marked as unseen.
THEOREM OnlyOvertakenEverLags == Spec => []OnlyOvertakenLags
  <1> USE WorkspaceAssumption
  <1>1. Init => LInv BY ScanToCome
  <1>2. LInv /\ [Next]_vars => LInv' BY LagKept
  <1>3. LInv => OnlyOvertakenLags BY NothingOnItsWay DEF OnlyOvertakenLags
  <1> QED BY <1>1, <1>2, <1>3, PTL DEF Spec
-----------------------------------------------------------------------------
(* NeverStuck, for any files, folders, scans and batches.                   *)
(*                                                                          *)
(* Whoever waits for a reply must be one whom the reading goroutine does    *)
(* not wait for, and the reply must not have been lost; a message is        *)
(* handled in one place.                                                    *)

\* A handler that waits for a reply has handed the reading over, and the reply
\* that was sent is in the mail.
RepliesCome ==
  /\ call \in [Calls -> {"none", "asked", "answered"}]
  /\ \A c \in Calls : call[c] = "answered" => \E i \in DOMAIN inbox : inbox[i] = Reply(c)
  /\ serving.kind # "reply"

\* The client formats once at a time: one message says so at most, and it is in
\* one place.
FormatsOnce ==
  /\ apart \subseteq {Format}
  /\ serving = Format \/ Format \in apart => \A i \in DOMAIN inbox : inbox[i] # Format
  /\ serving = Format => Format \notin apart
  /\ \A i, j \in DOMAIN inbox : inbox[i] = Format /\ inbox[j] = Format => i = j

\* Who is not at work is idle.
WorkersAreBusy ==
  /\ \A s \in Scans : scan[s] = Off \/ scan[s].pc \in {"start", "list", "work"}
  /\ \A b \in Batches : batch[b] = Off \/ batch[b].pc = "start"

MInv == RepliesCome /\ FormatsOnce /\ WorkersAreBusy

\* Kinds tell messages apart.
LEMMA KindsDiffer ==
  /\ Format.kind = "format" /\ Initialized.kind = "initialized" /\ Reindex.kind = "reindex"
  /\ Nobody.kind = "nobody" /\ \A c : Reply(c).kind = "reply" /\ Reply(c).of = c
  BY DEF Format, Initialized, Reindex, Nobody, Reply

LEMMA WhatIsServed ==
  ASSUME NEW m \in Message \cup {Nobody}, m.kind # "reply", m # Nobody
  PROVE  \/ m = Initialized \/ m = Reindex \/ m = Format \/ m.kind = "watched"
         \/ m.kind = "folder" /\ m.added \in BOOLEAN
  BY DEF Message, Reply

\* A message that comes leaves the ones before it where they are,
LEMMA PlacesOnArrival ==
  ASSUME inbox \in Seq(Message), NEW m \in Message, inbox' = Append(inbox, m)
  PROVE  /\ \A i \in DOMAIN inbox : i \in DOMAIN inbox' /\ inbox'[i] = inbox[i]
         /\ \A i \in DOMAIN inbox' : i \in DOMAIN inbox \/ (i = Len(inbox) + 1 /\ inbox'[i] = m)
         /\ Len(inbox) + 1 \in DOMAIN inbox' /\ inbox'[Len(inbox) + 1] = m
  <1>1. Len(inbox) \in Nat /\ DOMAIN inbox = 1 .. Len(inbox) OBVIOUS
  <1>2. DOMAIN inbox' = 1 .. (Len(inbox) + 1) OBVIOUS
  <1>3. \A i \in 1 .. Len(inbox) : inbox'[i] = inbox[i] OBVIOUS
  <1>4. inbox'[Len(inbox) + 1] = m OBVIOUS
  <1> QED BY <1>1, <1>2, <1>3, <1>4

\* and one that is read moves them up by one.
LEMMA PlacesOnRead ==
  ASSUME inbox \in Seq(Message), inbox # <<>>, inbox' = Tail(inbox)
  PROVE  /\ 1 \in DOMAIN inbox /\ inbox[1] = Head(inbox) /\ DOMAIN inbox \subseteq Int
         /\ \A i \in DOMAIN inbox' : i # 0 /\ i + 1 \in DOMAIN inbox /\ inbox'[i] = inbox[i + 1]
         /\ \A i \in DOMAIN inbox : i # 1 => i - 1 \in DOMAIN inbox' /\ inbox'[i - 1] = inbox[i]
         /\ DOMAIN inbox' \subseteq Int
  <1>1. Len(inbox) \in Nat \ {0} /\ DOMAIN inbox = 1 .. Len(inbox) OBVIOUS
  <1>2. DOMAIN inbox' = 1 .. (Len(inbox) - 1) BY <1>1
  <1>3. \A i \in 1 .. (Len(inbox) - 1) : inbox'[i] = inbox[i + 1] OBVIOUS
  <1>4. \A i \in 1 .. Len(inbox) : i # 1 => i - 1 \in 1 .. (Len(inbox) - 1) /\ (i - 1) + 1 = i
    BY <1>1
  <1>5. \A i \in 1 .. (Len(inbox) - 1) : i # 0 /\ i + 1 \in 1 .. Len(inbox) BY <1>1
  <1>6. inbox[1] = Head(inbox) OBVIOUS
  <1>7. \A i \in 1 .. Len(inbox) : i # 1 => inbox'[i - 1] = inbox[i]
    <2> SUFFICES ASSUME NEW i \in 1 .. Len(inbox), i # 1 PROVE inbox'[i - 1] = inbox[i] OBVIOUS
    <2>1. inbox'[i - 1] = inbox[(i - 1) + 1] BY <1>3, <1>4
    <2> QED BY <2>1, <1>4
  <1> QED BY <1>1, <1>2, <1>3, <1>4, <1>5, <1>6, <1>7

-----------------------------------------------------------------------------
\* What the reading goroutine and the handlers do to the mail.
LEMMA MailOnRequest ==
  ASSUME MailShaped, RepliesCome, FormatsOnce, NEW m \in Message, Arrives(m),
         m = Format => /\ Format \notin apart /\ serving # Format
                       /\ \A i \in DOMAIN inbox : inbox[i] # Format
  PROVE  RepliesCome' /\ FormatsOnce'
  <1>1. inbox \in Seq(Message) /\ inbox' = Append(inbox, m) /\ UNCHANGED <<serving, apart, call>>
    BY DEF MailShaped, Arrives
  <1>2. /\ \A i \in DOMAIN inbox : i \in DOMAIN inbox' /\ inbox'[i] = inbox[i]
        /\ \A i \in DOMAIN inbox' : i \in DOMAIN inbox \/ (i = Len(inbox) + 1 /\ inbox'[i] = m)
    BY <1>1, PlacesOnArrival
  <1>3. RepliesCome' BY <1>1, <1>2 DEF RepliesCome
  <1>4. FormatsOnce' BY <1>1, <1>2 DEF FormatsOnce
  <1> QED BY <1>3, <1>4

LEMMA MailOnAnswer ==
  ASSUME MailShaped, RepliesCome, FormatsOnce, NEW c \in Calls, Answer(c)
  PROVE  RepliesCome' /\ FormatsOnce'
  <1> DEFINE m == Reply(c)
  <1>1. m \in Message /\ m # Format BY KindsDiffer DEF Message
  <1>2. /\ inbox \in Seq(Message) /\ inbox' = Append(inbox, m) /\ UNCHANGED <<serving, apart>>
        /\ call' = [call EXCEPT ![c] = "answered"]
    BY DEF MailShaped, Answer
  <1> HIDE DEF m
  <1>3. /\ \A i \in DOMAIN inbox : i \in DOMAIN inbox' /\ inbox'[i] = inbox[i]
        /\ \A i \in DOMAIN inbox' : i \in DOMAIN inbox \/ (i = Len(inbox) + 1 /\ inbox'[i] = m)
        /\ \E i \in DOMAIN inbox' : inbox'[i] = m
    BY <1>1, <1>2, PlacesOnArrival
  <1>4. RepliesCome'
    <2>1. call' \in [Calls -> {"none", "asked", "answered"}] BY <1>2 DEF RepliesCome
    <2>2. ASSUME NEW k \in Calls, call'[k] = "answered"
          PROVE  \E i \in DOMAIN inbox' : inbox'[i] = Reply(k)
      <3>1. CASE k = c BY <1>3, <3>1 DEF m
      <3>2. CASE k # c
        <4>1. call[k] = "answered" BY <1>2, <2>2, <3>2 DEF RepliesCome
        <4>2. PICK i \in DOMAIN inbox : inbox[i] = Reply(k) BY <4>1 DEF RepliesCome
        <4> QED BY <1>3, <4>2
      <3> QED BY <3>1, <3>2
    <2> QED BY <1>2, <2>1, <2>2 DEF RepliesCome
  <1>5. FormatsOnce' BY <1>1, <1>2, <1>3 DEF FormatsOnce
  <1> QED BY <1>4, <1>5

LEMMA MailOnReading ==
  ASSUME MailShaped, RepliesCome, FormatsOnce, Read \/ ReadReply
  PROVE  RepliesCome' /\ FormatsOnce'
  <1>0. /\ inbox \in Seq(Message) /\ inbox # <<>> /\ inbox' = Tail(inbox) /\ apart' = apart
        /\ serving = Nobody
    BY DEF MailShaped, Read, ReadReply
  <1>1. /\ 1 \in DOMAIN inbox /\ inbox[1] = Head(inbox) /\ DOMAIN inbox \subseteq Int
        /\ \A i \in DOMAIN inbox' : i # 0 /\ i + 1 \in DOMAIN inbox /\ inbox'[i] = inbox[i + 1]
        /\ \A i \in DOMAIN inbox : i # 1 => i - 1 \in DOMAIN inbox' /\ inbox'[i - 1] = inbox[i]
        /\ DOMAIN inbox' \subseteq Int
    BY <1>0, PlacesOnRead
  <1>2. Head(inbox) \in Message BY <1>0
  <1>3. \A i, j \in DOMAIN inbox' : inbox'[i] = Format /\ inbox'[j] = Format => i = j
    <2> SUFFICES ASSUME NEW i \in DOMAIN inbox', NEW j \in DOMAIN inbox',
                        inbox'[i] = Format, inbox'[j] = Format
                 PROVE  i = j
      OBVIOUS
    <2>1. i + 1 = j + 1 BY <1>1 DEF FormatsOnce
    <2> QED BY <1>1, <2>1
  <1>4. Head(inbox) = Format \/ Format \in apart => \A i \in DOMAIN inbox' : inbox'[i] # Format
    <2> SUFFICES ASSUME Head(inbox) = Format \/ Format \in apart,
                        NEW i \in DOMAIN inbox', inbox'[i] = Format
                 PROVE  FALSE
      OBVIOUS
    <2>1. i + 1 \in DOMAIN inbox /\ inbox[i + 1] = Format BY <1>1
    <2>2. inbox[1] = Format /\ 1 \in DOMAIN inbox BY <1>1, <2>1 DEF FormatsOnce
    <2>3. i + 1 = 1 BY <2>1, <2>2 DEF FormatsOnce
    <2> QED BY <1>1, <2>3
  <1>5. Head(inbox) = Format => Format \notin apart BY <1>1 DEF FormatsOnce
  <1>6. CASE Read
    <2>1. serving' = Head(inbox) /\ call' = call /\ Head(inbox).kind # "reply" BY <1>6 DEF Read
    <2>2. RepliesCome'
      <3>1. ASSUME NEW c \in Calls, call[c] = "answered"
            PROVE  \E i \in DOMAIN inbox' : inbox'[i] = Reply(c)
        <4>1. PICK i \in DOMAIN inbox : inbox[i] = Reply(c) BY <3>1 DEF RepliesCome
        <4>2. i # 1 BY <1>1, <2>1, <4>1, KindsDiffer
        <4> QED BY <1>1, <4>1, <4>2
      <3> QED BY <2>1, <3>1 DEF RepliesCome
    <2>3. FormatsOnce' BY <1>0, <1>3, <1>4, <1>5, <2>1 DEF FormatsOnce
    <2> QED BY <2>2, <2>3
  <1>7. CASE ReadReply
    <2> DEFINE r == Head(inbox).of
    <2>1. serving' = serving /\ call' = [call EXCEPT ![r] = "none"] BY <1>7 DEF ReadReply
    <2>2. Head(inbox) = Reply(r)
      <3>1. Head(inbox).kind = "reply" BY <1>7 DEF ReadReply
      <3>2. Head(inbox) \in {Reply(c) : c \in Calls}
        BY <1>2, <3>1, KindsDiffer DEF Message
      <3> QED BY <3>2, KindsDiffer
    <2> HIDE DEF r
    <2>3. RepliesCome'
      <3>1. call' \in [Calls -> {"none", "asked", "answered"}] BY <2>1 DEF RepliesCome
      <3>2. ASSUME NEW c \in Calls, call'[c] = "answered"
            PROVE  \E i \in DOMAIN inbox' : inbox'[i] = Reply(c)
        <4>1. c # r /\ call[c] = "answered" BY <2>1, <3>2 DEF RepliesCome
        <4>2. PICK i \in DOMAIN inbox : inbox[i] = Reply(c) BY <4>1 DEF RepliesCome
        <4>3. i # 1 BY <1>1, <2>2, <4>1, <4>2, KindsDiffer
        <4> QED BY <1>1, <4>2, <4>3
      <3> QED BY <2>1, <3>1, <3>2 DEF RepliesCome
    <2>4. FormatsOnce' BY <1>0, <1>3, <1>4, <2>1, KindsDiffer DEF FormatsOnce
    <2> QED BY <2>3, <2>4
  <1> QED BY <1>6, <1>7

LEMMA MailOnReturn ==
  ASSUME RepliesCome, FormatsOnce, Return
  PROVE  RepliesCome' /\ FormatsOnce'
  <1>1. serving' = Nobody /\ UNCHANGED <<inbox, apart, call>> BY DEF Return
  <1>2. serving' # Format /\ serving'.kind # "reply" BY <1>1, KindsDiffer
  <1> QED BY <1>1, <1>2 DEF RepliesCome, FormatsOnce

LEMMA MailOnCall ==
  ASSUME RepliesCome, FormatsOnce, NEW c \in Calls, CallFrom(Format, c) \/ CallAlone(c)
  PROVE  RepliesCome' /\ FormatsOnce'
  <1>1. call' = [call EXCEPT ![c] = "asked"] /\ UNCHANGED inbox BY DEF CallFrom, CallAlone
  <1>2. call' \in [Calls -> {"none", "asked", "answered"}] BY <1>1 DEF RepliesCome
  <1>3. \A k \in Calls : call'[k] = "answered" => call[k] = "answered" BY <1>1 DEF RepliesCome
  <1>4. CASE CallFrom(Format, c)
    <2>1. /\ serving = Format /\ serving' = Nobody /\ apart' = apart \cup {Format}
      BY <1>4 DEF CallFrom, Handover
    <2>2. serving' # Format /\ serving'.kind # "reply" BY <2>1, KindsDiffer
    <2> QED BY <1>1, <1>2, <1>3, <2>1, <2>2 DEF RepliesCome, FormatsOnce
  <1>5. CASE CallAlone(c)
    <2>1. UNCHANGED <<serving, apart>> BY <1>5 DEF CallAlone
    <2> QED BY <1>1, <1>2, <1>3, <2>1 DEF RepliesCome, FormatsOnce
  <1> QED BY <1>4, <1>5

LEMMA MailAlone ==
  ASSUME RepliesCome, FormatsOnce, UNCHANGED <<inbox, serving, call>>, apart' \subseteq apart
  PROVE  RepliesCome' /\ FormatsOnce'
  BY DEF RepliesCome, FormatsOnce

-----------------------------------------------------------------------------
\* One worker changes, and is at work after it, or idle.
LEMMA ScanAtWork ==
  ASSUME WorkersAreBusy, NEW s \in Scans, UNCHANGED batch,
         \A k \in Scans \ {s} : scan'[k] = scan[k],
         scan'[s] = Off \/ scan'[s].pc \in {"start", "list", "work"}
  PROVE  WorkersAreBusy'
  BY DEF WorkersAreBusy

LEMMA BatchAtWork ==
  ASSUME WorkersAreBusy, NEW b \in Batches, UNCHANGED scan,
         \A k \in Batches \ {b} : batch'[k] = batch[k],
         batch'[b] = Off \/ batch'[b].pc = "start"
  PROVE  WorkersAreBusy'
  BY DEF WorkersAreBusy

LEMMA BusyByScanning ==
  ASSUME WorkShaped, WorkersAreBusy, NEW s \in Scans, Scanning(s)
  PROVE  WorkersAreBusy'
  <1>0. scan \in [Scans -> Job(Files)] BY DEF WorkShaped
  <1>1. CASE BeginScan(s)
    <2>1. /\ scan' = [scan EXCEPT ![s] = [Off EXCEPT !.pc = "list", !.todo = Found(roots)]]
          /\ batch' = batch
      BY <1>1 DEF BeginScan
    <2>2. scan'[s].pc = "list" BY <1>0, <2>1 DEF Off
    <2> QED BY <1>0, <2>1, <2>2, ScanAtWork
  <1>2. CASE Collect(s)
    <2>1. PICK some : scan' = [scan EXCEPT ![s].pc = "work", ![s].todo = some] BY <1>2 DEF Collect
    <2>2. scan'[s].pc = "work" BY <1>0, <2>1 DEF Job
    <2>3. batch' = batch BY <1>2 DEF Collect
    <2> QED BY <1>0, <2>1, <2>2, <2>3, ScanAtWork
  <1>3. CASE ReadInScan(s)
    <2>1. PICK f : scan' = [scan EXCEPT ![s].todo = @ \ {f},
                              ![s].read = @ \cup {r \in {Reading(f)} : Exists(r)}]
      BY <1>3 DEF ReadInScan
    <2>2. scan'[s].pc = "work" /\ batch' = batch BY <1>0, <1>3, <2>1 DEF Job, ReadInScan
    <2> QED BY <1>0, <2>1, <2>2, ScanAtWork
  <1>4. CASE FileInScan(s)
    <2>1. PICK r \in scan[s].read : scan' = [scan EXCEPT ![s].read = @ \ {r}] BY <1>4 DEF FileInScan
    <2>2. scan'[s].pc = scan[s].pc /\ batch' = batch BY <1>0, <1>4, <2>1 DEF Job, FileInScan
    <2>3. scan[s] # Off BY <2>1 DEF Off
    <2> QED BY <1>0, <2>1, <2>2, <2>3, ScanAtWork DEF WorkersAreBusy
  <1>5. CASE EndScan(s)
    <2>1. scan' = [scan EXCEPT ![s] = Off] /\ batch' = batch BY <1>5 DEF EndScan
    <2> QED BY <1>0, <2>1, ScanAtWork
  <1> QED BY <1>1, <1>2, <1>3, <1>4, <1>5 DEF Scanning

LEMMA BusyByApplying ==
  ASSUME WorkShaped, WorkersAreBusy, NEW b \in Batches, Applying(b)
  PROVE  WorkersAreBusy'
  <1>0. batch \in [Batches -> Job(EventType)] /\ scan' = scan
    BY DEF WorkShaped, Applying, Delete, ReadInBatch, FileInBatch, EndBatch
  <1>1. CASE Delete(b) \/ ReadInBatch(b)
    <2>1. PICK e \in batch[b].todo :
            \/ batch' = [batch EXCEPT ![b].todo = @ \ {e}]
            \/ batch' = [batch EXCEPT ![b].todo = @ \ {e}, ![b].read = {Reading(e.file)}]
      BY <1>1 DEF Delete, ReadInBatch
    <2>2. batch'[b].pc = batch[b].pc /\ \A k \in Batches \ {b} : batch'[k] = batch[k]
      <3>1. CASE batch' = [batch EXCEPT ![b].todo = @ \ {e}] BY <1>0, <3>1 DEF Job
      <3>2. CASE batch' = [batch EXCEPT ![b].todo = @ \ {e}, ![b].read = {Reading(e.file)}]
        BY <1>0, <3>2 DEF Job
      <3> QED BY <2>1, <3>1, <3>2
    <2>3. batch[b] # Off BY <2>1 DEF Off
    <2> QED BY <1>0, <2>2, <2>3, BatchAtWork DEF WorkersAreBusy
  <1>2. CASE FileInBatch(b)
    <2>1. batch' = [batch EXCEPT ![b].read = {}] /\ \E r \in batch[b].read : TRUE
      BY <1>2 DEF FileInBatch
    <2>2. batch'[b].pc = batch[b].pc /\ \A k \in Batches \ {b} : batch'[k] = batch[k]
      BY <1>0, <2>1 DEF Job
    <2>3. batch[b] # Off BY <2>1 DEF Off
    <2> QED BY <1>0, <2>2, <2>3, BatchAtWork DEF WorkersAreBusy
  <1>3. CASE EndBatch(b)
    <2>1. batch' = [batch EXCEPT ![b] = Off] BY <1>3 DEF EndBatch
    <2> QED BY <1>0, <2>1, BatchAtWork
  <1> QED BY <1>1, <1>2, <1>3 DEF Applying

\* A goroutine that is started is at work.
LEMMA BusyByStarting ==
  ASSUME WorkShaped, WorkersAreBusy, HandleReindex \/ HandleWatched
  PROVE  WorkersAreBusy'
  <1>0. scan \in [Scans -> Job(Files)] /\ batch \in [Batches -> Job(EventType)] BY DEF WorkShaped
  <1>1. CASE HandleReindex
    <2>1. Idle(scan) # {} /\ scan' = Go(scan, {}) /\ batch' = batch BY <1>1 DEF HandleReindex
    <2>2. PICK k \in Scans : scan' = [scan EXCEPT ![k] = Starting({})]
      BY <1>0, <2>1, GoStartsOne
    <2>3. scan'[k].pc = "start" BY <1>0, <2>2 DEF Starting, Off
    <2> QED BY <1>0, <2>1, <2>2, <2>3, ScanAtWork
  <1>2. CASE HandleWatched
    <2>1. Idle(batch) # {} /\ batch' = Go(batch, serving.events) /\ scan' = scan
      BY <1>2 DEF HandleWatched
    <2>2. PICK k \in Batches : batch' = [batch EXCEPT ![k] = Starting(serving.events)]
      BY <1>0, <2>1, GoStartsOne
    <2>3. batch'[k].pc = "start" BY <1>0, <2>2 DEF Starting, Off
    <2> QED BY <1>0, <2>1, <2>2, <2>3, BatchAtWork
  <1> QED BY <1>1, <1>2

\* The session starts with one message in the mail and one scan begun.
LEMMA MoveAtStart ==
  ASSUME WorkspaceAssumption, Init
  PROVE  MInv
  <1>1. inbox = <<Initialized>> /\ serving = Nobody /\ apart = {} /\ call = [c \in Calls |-> "none"]
    BY DEF Init, ReadLoopInit
  <1>2. DOMAIN inbox = {1} /\ inbox[1] # Format BY <1>1, KindsDiffer
  <1>3. RepliesCome BY <1>1, KindsDiffer DEF RepliesCome
  <1>4. FormatsOnce BY <1>1, <1>2, KindsDiffer DEF FormatsOnce
  <1>5. WorkersAreBusy
    <2>1. scan = Go([s \in Scans |-> Off], {}) /\ batch = [b \in Batches |-> Off] BY DEF Init
    <2>2. ASSUME NEW s \in Scans PROVE scan[s] = Off \/ scan[s].pc = "start"
      BY <2>1 DEF Go, Starting, Off
    <2> QED BY <2>1, <2>2 DEF WorkersAreBusy
  <1> QED BY <1>3, <1>4, <1>5 DEF MInv

LEMMA MoveKept ==
  ASSUME WorkspaceAssumption, LInv, MInv, [Next]_vars
  PROVE  MInv'
  <1>0. MailShaped /\ WorkShaped /\ RepliesCome /\ FormatsOnce /\ WorkersAreBusy
    BY DEF LInv, Shaped, MInv
  <1>1. ASSUME UNCHANGED <<scan, batch>> PROVE WorkersAreBusy' BY <1>0, <1>1 DEF WorkersAreBusy
  <1>2. ASSUME UNCHANGED readLoop PROVE RepliesCome' /\ FormatsOnce'
    BY <1>0, <1>2, MailAlone DEF readLoop
  <1>3. CASE UNCHANGED vars BY <1>1, <1>2, <1>3 DEF vars, MInv
  <1>4. ASSUME NEW f \in Files, Change(f) \/ ReadOnDemand(f) PROVE MInv'
    BY <1>1, <1>2, <1>4 DEF Change, ReadOnDemand, MInv
  <1>5. CASE Report
    <2>1. PICK m \in Message : Arrives(m) /\ m # Format
      <3>1. [kind |-> "watched", events |-> news] \in Message BY <1>0 DEF Message, MailShaped
      <3> QED BY <1>5, <3>1 DEF Report, Format
    <2> QED BY <1>0, <1>1, <1>5, <2>1, MailOnRequest DEF Report, MInv
  <1>6. CASE Commands
    <2>1. UNCHANGED <<scan, batch>> BY <1>6 DEF Commands, Request
    <2>2. CASE Request(Reindex)
      BY <1>0, <1>1, <2>1, <2>2, KindsDiffer, MailOnRequest DEF Request, Message, MInv
    <2>3. CASE /\ Format \notin apart \cup {serving} \cup {inbox[i] : i \in DOMAIN inbox}
               /\ Request(Format)
      <3>1. /\ Format \notin apart /\ serving # Format
            /\ \A i \in DOMAIN inbox : inbox[i] # Format
        BY <2>3
      <3> QED BY <1>0, <1>1, <2>1, <2>3, <3>1, MailOnRequest DEF Request, Message, MInv
    <2> QED BY <1>6, <2>2, <2>3 DEF Commands
  <1>7. ASSUME NEW d \in Folders, OpenFolder(d) PROVE MInv'
    <2> DEFINE added == d \notin opened
               m == [kind |-> "folder", folder |-> d, added |-> added]
    <2>1. Arrives(m) /\ UNCHANGED <<scan, batch>> BY <1>7 DEF OpenFolder, Request
    <2>2. added \in BOOLEAN OBVIOUS
    <2> HIDE DEF added
    <2>3. m \in Message /\ m # Format BY <2>2, KindsDiffer DEF Message
    <2> HIDE DEF m
    <2> QED BY <1>0, <1>1, <2>1, <2>3, MailOnRequest DEF MInv
  <1>8. ASSUME NEW c \in Calls, Answers(c) PROVE MInv'
    BY <1>0, <1>1, <1>8, MailOnAnswer DEF Answers, MInv
  <1>9. CASE Reads BY <1>0, <1>1, <1>9, MailOnReading DEF Reads, MInv
  <1>10. CASE Register
    <2>1. "register" \in Calls BY DEF WorkspaceAssumption
    <2> QED BY <1>0, <1>1, <1>10, <2>1, MailOnCall DEF Register, MInv
  <1>11. CASE ReturnFormat
    <2>1. UNCHANGED <<inbox, serving, call, scan, batch>> /\ apart' \subseteq apart
      BY <1>11 DEF ReturnFormat, ReturnApart
    <2> QED BY <1>0, <1>1, <2>1, MailAlone DEF MInv
  <1>12. CASE FileOnDemand BY <1>1, <1>2, <1>12 DEF FileOnDemand, MInv
  <1>13. CASE HandleInitialized \/ CloseFolder \/ EndWalk
    <2>1. Return /\ UNCHANGED <<scan, batch>> BY <1>13 DEF HandleInitialized, CloseFolder, EndWalk
    <2> QED BY <1>0, <1>1, <2>1, MailOnReturn DEF MInv
  <1>14. CASE HandleReindex \/ HandleWatched
    BY <1>0, <1>14, MailOnReturn, BusyByStarting DEF HandleReindex, HandleWatched, MInv
  <1>15. CASE HandleFormat
    <2>1. "edit" \in Calls BY DEF WorkspaceAssumption
    <2> QED BY <1>0, <1>1, <1>15, <2>1, MailOnCall, MailOnReturn DEF HandleFormat, MInv
  <1>16. CASE BeginWalk \/ ReadInWalk \/ CutWalk \/ FileInWalk
    BY <1>1, <1>2, <1>16 DEF BeginWalk, ReadInWalk, CutWalk, FileInWalk, MInv
  <1>17. ASSUME NEW s \in Scans, Scanning(s) PROVE MInv'
    <2>1. UNCHANGED readLoop
      BY <1>17 DEF Scanning, BeginScan, Collect, ReadInScan, FileInScan, EndScan
    <2> QED BY <1>0, <1>2, <1>17, <2>1, BusyByScanning DEF MInv
  <1>18. ASSUME NEW b \in Batches, Applying(b) PROVE MInv'
    <2>1. UNCHANGED readLoop
      BY <1>18 DEF Applying, Delete, ReadInBatch, FileInBatch, EndBatch
    <2> QED BY <1>0, <1>2, <1>18, <2>1, BusyByApplying DEF MInv
  <1> QED BY <1>3, <1>4, <1>5, <1>6, <1>7, <1>8, <1>9, <1>10, <1>11, <1>12, <1>13, <1>14, <1>15,
             <1>16, <1>17, <1>18 DEF Next, Work, Handling

-----------------------------------------------------------------------------
\* A goroutine at work has a next step,
LEMMA BusyWorkerMoves ==
  ASSUME NEW w, NEW room \in Nat \ {0}, w.read = {} => Cardinality(w.read) = 0
  PROVE  WorkerMoves(w, room)
  BY DEF WorkerMoves

LEMMA ScanMoves ==
  ASSUME WorkspaceAssumption, MInv, NEW s \in Scans, scan[s] # Off
  PROVE  CanMove
  <1>1. scan[s].pc \in {"start", "list", "work"} BY DEF MInv, WorkersAreBusy
  <1>2. WorkerMoves(scan[s], Room) BY BusyWorkerMoves, FS_EmptySet DEF WorkspaceAssumption
  <1> QED BY <1>1, <1>2 DEF CanMove

LEMMA BatchMoves ==
  ASSUME MInv, NEW b \in Batches, batch[b] # Off
  PROVE  CanMove
  <1>1. batch[b].pc = "start" BY DEF MInv, WorkersAreBusy
  <1>2. WorkerMoves(batch[b], 1) BY BusyWorkerMoves, FS_EmptySet
  <1> QED BY <1>1, <1>2 DEF CanMove

LEMMA WalkMoves ==
  ASSUME LInv, walk # Off
  PROVE  CanMove
  <1>1. walk.pc = "work" BY DEF LInv, Shaped, WorkShaped
  <1>2. WorkerMoves(walk, 1) BY BusyWorkerMoves, FS_EmptySet
  <1> QED BY <1>1, <1>2 DEF CanMove

\* the handler on the reading goroutine has one, or those it waits for have,
LEMMA HandlerIsNotStuck ==
  ASSUME WorkspaceAssumption, LInv, MInv, serving # Nobody
  PROVE  CanMove
  <1>1. serving \in Message \cup {Nobody} /\ serving.kind # "reply"
    BY DEF LInv, Shaped, MailShaped, MInv, RepliesCome
  <1>2. CASE serving = Initialized BY <1>2 DEF CanMove, HandlerMoves
  <1>3. CASE serving = Reindex
    <2>1. CASE Idle(scan) # {} BY <1>3, <2>1 DEF CanMove, HandlerMoves
    <2>2. CASE Idle(scan) = {}
      <3>1. PICK s \in Scans : TRUE BY DEF WorkspaceAssumption
      <3>2. scan[s] # Off BY <2>2, <3>1 DEF Idle, LInv, Shaped, WorkShaped
      <3> QED BY <3>2, ScanMoves
    <2> QED BY <2>1, <2>2
  <1>4. CASE serving = Format BY <1>4 DEF CanMove, HandlerMoves, MInv, FormatsOnce
  <1>5. CASE serving.kind = "watched"
    <2>1. CASE Idle(batch) # {} BY <1>5, <2>1 DEF CanMove, HandlerMoves
    <2>2. CASE Idle(batch) = {}
      <3>1. PICK b \in Batches : TRUE BY DEF WorkspaceAssumption
      <3>2. batch[b] # Off BY <2>2, <3>1 DEF Idle, LInv, Shaped, WorkShaped
      <3> QED BY <3>2, BatchMoves
    <2> QED BY <2>1, <2>2
  <1>6. CASE serving.kind = "folder" BY <1>6, WalkMoves DEF CanMove, HandlerMoves
  <1> QED BY <1>1, <1>2, <1>3, <1>4, <1>5, <1>6, WhatIsServed

\* and so has the mail, if nobody is served.
LEMMA MailIsRead ==
  ASSUME WorkspaceAssumption, LInv, MInv, inbox # <<>>
  PROVE  CanMove
  BY HandlerIsNotStuck DEF CanMove

LEMMA CallIsAnswered ==
  ASSUME WorkspaceAssumption, LInv, MInv, NEW c \in Calls, call[c] # "none"
  PROVE  CanMove
  <1>1. CASE call[c] = "asked" BY <1>1 DEF CanMove
  <1>2. CASE call[c] = "answered"
    <2>1. inbox # <<>> BY <1>2 DEF MInv, RepliesCome
    <2> QED BY <2>1, MailIsRead
  <1> QED BY <1>1, <1>2 DEF MInv, RepliesCome

\* Whatever the client asks, whatever is asked of it and however many goroutines
\* run: as long as something is to be done, someone can do a step of it.  No
\* handler keeps the reading goroutine while it waits for a reply, and no reply is
\* lost: Server.call and jsonrpc2.Async.
THEOREM NeverEverStuck == Spec => []NeverStuck
  <1> USE WorkspaceAssumption
  <1>1. Init => LInv /\ MInv BY ScanToCome, MoveAtStart
  <1>2. LInv /\ MInv /\ [Next]_vars => LInv' /\ MInv' BY LagKept, MoveKept
  <1>3. LInv /\ MInv => NeverStuck
    <2> SUFFICES ASSUME LInv, MInv, Busy PROVE CanMove BY DEF NeverStuck
    <2>1. CASE inbox # <<>> BY <2>1, MailIsRead
    <2>2. CASE serving # Nobody BY <2>2, HandlerIsNotStuck
    <2>3. CASE apart # {}
      <3>1. Format \in apart BY <2>3 DEF MInv, FormatsOnce
      <3>2. "edit" \in Calls BY DEF WorkspaceAssumption
      <3> QED BY <3>1, <3>2, CallIsAnswered DEF CanMove
    <2>4. CASE walk # Off BY <2>4, WalkMoves
    <2>5. CASE demand # {} BY <2>5 DEF CanMove
    <2>6. CASE \E c \in Calls : call[c] # "none" BY <2>6, CallIsAnswered
    <2>7. CASE \E s \in Scans : scan[s] # Off BY <2>7, ScanMoves
    <2>8. CASE \E b \in Batches : batch[b] # Off BY <2>8, BatchMoves
    <2> QED BY <2>1, <2>2, <2>3, <2>4, <2>5, <2>6, <2>7, <2>8 DEF Busy
  <1> QED BY <1>1, <1>2, <1>3, PTL DEF Spec
=============================================================================
