------------------------- MODULE Diagnostics_proofs -------------------------
(***************************************************************************)
(* For any files, reports, goroutines and revisions: closing a file takes  *)
(* CFLint's findings with it, and a report's entries stay hidden behind    *)
(* CFLint's own, unless the close found a scan past cancelling; a report's *)
(* bookkeeping covers its entries, unless it was loaded twice at once; and *)
(* the client shows what the store holds, unless the last publishes of the *)
(* file crossed.                                                           *)
(***************************************************************************)
EXTENDS Diagnostics, TLAPS

-----------------------------------------------------------------------------
(* Type correctness *)

LEMMA IdleType == Idle \in Doing /\ Nothing \in Message
  BY DiagnosticsAssumption DEF Idle, Doing, Nothing, Message

\* The fields a goroutine's steps change stay well typed.
LEMMA JobTypes ==
    /\ \A f \in Files : ScanJob(f) \in Doing
    /\ \A R \in SUBSET Reports : LoadJob(R) \in Doing
    /\ [Idle EXCEPT !.op = "parse", !.at = "next", !.left = Files] \in Doing
    /\ [Idle EXCEPT !.op = "open"] \in Doing
    /\ \A f \in Files : [Idle EXCEPT !.op = "close", !.at = "unlint", !.file = f] \in Doing
<1> USE IdleType
<1>1. \A f \in Files : ScanJob(f) \in Doing
  BY DEF ScanJob, Doing
<1>2. \A R \in SUBSET Reports : LoadJob(R) \in Doing
  BY DEF LoadJob, Doing
<1>3. [Idle EXCEPT !.op = "parse", !.at = "next", !.left = Files] \in Doing
  BY DEF Doing
<1>4. [Idle EXCEPT !.op = "open"] \in Doing
  BY DEF Doing
<1>5. \A f \in Files : [Idle EXCEPT !.op = "close", !.at = "unlint", !.file = f] \in Doing
  BY DEF Doing
<1> QED
  BY <1>1, <1>2, <1>3, <1>4, <1>5

LEMMA FoundType == \A rev \in 0..MaxRev : Found(rev) \in 0..MaxRev
  BY DiagnosticsAssumption DEF Found

LEMMA ResumeType ==
    ASSUME TypeOK, NEW a \in Actors
    PROVE  Resume(a) \in Doing
<1>1. act[a] \in Doing /\ Nothing \in Message /\ Idle \in Doing /\ 0 \in 0..MaxRev
  BY IdleType, DiagnosticsAssumption DEF TypeOK
<1>2. [act[a] EXCEPT !.at = "finish", !.msg = Nothing, !.rev = 0] \in Doing
  BY <1>1 DEF Doing
<1> DEFINE next == [act[a] EXCEPT !.msg = Nothing, !.file = None]
<1>3. next \in Doing
  BY <1>1 DEF Doing
<1>4. [next EXCEPT !.at = "publish"] \in Doing /\ [next EXCEPT !.at = "next", !.rev = 0] \in Doing
  BY <1>1, <1>3 DEF Doing
<1> QED
  BY <1>1, <1>2, <1>4 DEF Resume

\* What Emit takes out of the lock is well typed if the new store is.
LEMMA MergedNext ==
    ASSUME NEW f \in Files,
           lint' \in [Files -> 0..MaxRev], parse' \in [Files -> 0..MaxRev],
           listed' \in [Files -> SUBSET Reports]
    PROVE  Merged(f)' \in Message
  BY DEF Merged, Message

\* The operands a goroutine's next steps look up are there.
Placed ==
    \A a \in Actors :
      /\ act[a].op = "scan" => act[a].file \in Files
      /\ act[a].op = "load" /\ act[a].at # "next" => act[a].report \in Reports

LEMMA TypeStep == TypeOK /\ Placed /\ [Next]_vars => TypeOK'
<1> SUFFICES ASSUME TypeOK, Placed, [Next]_vars PROVE TypeOK'
  OBVIOUS
<1>a. \A a \in Actors : act[a] \in Doing
  BY DEF TypeOK
<1>b. /\ Idle \in Doing /\ Nothing \in Message /\ 0 \in 0..MaxRev
      /\ Slots \subseteq Actors /\ Reader \in Actors
  BY IdleType, DiagnosticsAssumption DEF Actors
<1> USE <1>a, <1>b
<1>1. CASE UNCHANGED vars
  BY <1>1 DEF TypeOK, vars, outside, store, history
<1>2. ASSUME NEW a \in Actors, Notify(a) PROVE TypeOK'
  <2>1. act' \in [Actors -> Doing]
    BY <1>2, ResumeType DEF TypeOK, Notify
  <2>2. shown' \in [Files -> Message]
    BY <1>2 DEF TypeOK, Notify, Doing
  <2> QED
    BY <1>2, <2>1, <2>2 DEF TypeOK, Notify, outside, store, history
<1>3. ASSUME NEW f \in Files, DidOpen(f) PROVE TypeOK'
  <2>1. open' \subseteq Files
    BY <1>3 DEF TypeOK, DidOpen, DiagnosticsOpened
  <2>2. CASE UNCHANGED <<act, crossed>>
    BY <1>3, <2>1, <2>2 DEF TypeOK, DidOpen, outside
  <2>3. CASE Emit(Reader, [Idle EXCEPT !.op = "open"], f, "send")
    <3>1. Merged(f)' \in Message
      BY <1>3, MergedNext DEF TypeOK, DidOpen
    <3>2. [[Idle EXCEPT !.op = "open"] EXCEPT !.at = "send", !.file = f, !.msg = Merged(f)'] \in Doing
      BY <3>1 DEF Doing
    <3>3. act' \in [Actors -> Doing] /\ crossed' \subseteq Files
      BY <2>3, <3>2 DEF TypeOK, Emit
    <3> QED
      BY <1>3, <2>1, <3>3 DEF TypeOK, DidOpen, outside
  <2> QED
    BY <1>3, <2>2, <2>3 DEF DidOpen, DiagnosticsOpened
<1>4. ASSUME NEW f \in Files, DiagnosticsClosed(f) PROVE TypeOK'
  <2>1. act' \in [Actors -> Doing]
    BY <1>4, JobTypes DEF TypeOK, DiagnosticsClosed
  <2> QED
    BY <1>4, <2>1 DEF TypeOK, DiagnosticsClosed, outside
<1>5. ASSUME ClearLint PROVE TypeOK'
  <2>1. [act[Reader] EXCEPT !.at = "unparse"] \in Doing
    BY DEF Doing
  <2>2. act' \in [Actors -> Doing] /\ lint' \in [Files -> 0..MaxRev]
    BY <1>5, <2>1 DEF TypeOK, ClearLint
  <2> QED
    BY <1>5, <2>2 DEF TypeOK, ClearLint, outside, history
<1>6. ASSUME NEW f \in Files, ClearParse(f) PROVE TypeOK'
  <2>1. parse' \in [Files -> 0..MaxRev]
    BY <1>6 DEF TypeOK, ClearParse
  <2>2. Merged(f)' \in Message
    BY <1>6, <2>1, MergedNext DEF TypeOK, ClearParse
  <2>3. [act[Reader] EXCEPT !.at = "send", !.file = f, !.msg = Merged(f)'] \in Doing
    BY <2>2 DEF Doing
  <2>4. act' \in [Actors -> Doing] /\ crossed' \subseteq Files
    BY <1>6, <2>3 DEF TypeOK, ClearParse, Emit
  <2> QED
    BY <1>6, <2>1, <2>4 DEF TypeOK, ClearParse, outside
<1>7. ASSUME NEW f \in Files, DidSave(f) PROVE TypeOK'
  <2>1. ASSUME NEW s \in Slots, NEW t \in Slots,
               \/ act' = [act EXCEPT ![s] = ScanJob(f)]
               \/ act' = [act EXCEPT ![s] = ScanJob(f), ![t] = LoadJob(Reports)]
        PROVE  act' \in [Actors -> Doing]
    <3>1. ScanJob(f) \in Doing /\ LoadJob(Reports) \in Doing
      BY JobTypes
    <3>2. CASE act' = [act EXCEPT ![s] = ScanJob(f)]
      BY <3>1, <3>2 DEF TypeOK
    <3>3. CASE act' = [act EXCEPT ![s] = ScanJob(f), ![t] = LoadJob(Reports)]
      BY <3>1, <3>3 DEF TypeOK
    <3> QED
      BY <2>1, <3>2, <3>3
  <2>3. act' \in [Actors -> Doing]
    BY <1>7, <2>1 DEF DidSave, Free
  <2>2. disk' \in [Files -> 1..MaxRev]
    BY <1>7, DiagnosticsAssumption DEF TypeOK, DidSave
  <2> QED
    BY <1>7, <2>2, <2>3 DEF TypeOK, DidSave, store, history
<1>8. ASSUME NEW s \in Slots, Register(s) PROVE TypeOK'
  <2>1. \A a \in Actors : /\ [act[a] EXCEPT !.at = "read"] \in Doing
                          /\ [act[a] EXCEPT !.cancelled = TRUE] \in Doing
    BY DEF Doing
  <2>2. act' \in [Actors -> Doing]
    BY <1>8, <2>1 DEF TypeOK, Register
  <2> QED
    BY <1>8, <2>2 DEF TypeOK, Register, outside, store, history
<1>9. ASSUME NEW s \in Slots, ReadText(s) PROVE TypeOK'
  <2>1. disk[act[s].file] \in 0..MaxRev
    BY <1>9, DiagnosticsAssumption DEF TypeOK, Placed, ReadText, At
  <2>2. [act[s] EXCEPT !.at = "lint", !.rev = disk[act[s].file]] \in Doing
    BY <2>1 DEF Doing
  <2>3. act' \in [Actors -> Doing]
    BY <1>9, <2>2 DEF TypeOK, ReadText
  <2> QED
    BY <1>9, <2>3 DEF TypeOK, ReadText, outside, store, history
<1>10. ASSUME NEW s \in Slots, Linted(s) PROVE TypeOK'
  <2>1. /\ [act[s] EXCEPT !.at = "finish", !.rev = 0, !.cancelled = FALSE] \in Doing
        /\ [act[s] EXCEPT !.at = "ran", !.cancelled = FALSE] \in Doing
    BY DEF Doing
  <2>2. act' \in [Actors -> Doing]
    BY <1>10, <2>1 DEF TypeOK, Linted
  <2> QED
    BY <1>10, <2>2 DEF TypeOK, Linted, outside, store, history
<1>11. ASSUME NEW s \in Slots, DiagnosticsRan(s) PROVE TypeOK'
  <2>1. [act[s] EXCEPT !.at = "store"] \in Doing
    BY DEF Doing
  <2>2. act' \in [Actors -> Doing] /\ ran' \subseteq Files
    BY <1>11, <2>1 DEF TypeOK, Placed, DiagnosticsRan, At
  <2> QED
    BY <1>11, <2>2 DEF TypeOK, DiagnosticsRan, outside, history
<1>12. ASSUME NEW s \in Slots, NEW f \in Files, StoreLint(s, f) PROVE TypeOK'
  <2>1. lint' \in [Files -> 0..MaxRev]
    BY <1>12, FoundType DEF TypeOK, StoreLint, Doing
  <2>2. Merged(f)' \in Message
    BY <1>12, <2>1, MergedNext DEF TypeOK, StoreLint
  <2>3. [act[s] EXCEPT !.at = "send", !.file = f, !.msg = Merged(f)'] \in Doing
    BY <2>2 DEF Doing
  <2>4. act' \in [Actors -> Doing] /\ crossed' \subseteq Files
    BY <1>12, <2>3 DEF TypeOK, StoreLint, Emit
  <2> QED
    BY <1>12, <2>1, <2>4 DEF TypeOK, StoreLint, outside
<1>13. ASSUME NEW s \in Slots, FinishScan(s) PROVE TypeOK'
  <2>1. act' \in [Actors -> Doing] /\ cancels' \in [Files -> Slots \cup {None}]
    BY <1>13 DEF TypeOK, FinishScan
  <2> QED
    BY <1>13, <2>1 DEF TypeOK, FinishScan, outside, store, history
<1>14. ASSUME NEW s \in Slots, ScanWorkspace(s) PROVE TypeOK'
  <2>1. act' \in [Actors -> Doing]
    BY <1>14, JobTypes DEF TypeOK, ScanWorkspace
  <2> QED
    BY <1>14, <2>1 DEF TypeOK, ScanWorkspace, outside, store, history
<1>15. ASSUME NEW s \in Slots, ParseFile(s) PROVE TypeOK'
  <2>1. CASE act[s].left = {} /\ act' = [act EXCEPT ![s] = Idle]
    BY <1>15, <2>1 DEF TypeOK, ParseFile, outside, store, history
  <2>2. ASSUME NEW f \in act[s].left,
               act' = [act EXCEPT ![s] = [act[s] EXCEPT !.left = @ \ {f}, !.file = f, !.rev = disk[f],
                             !.at = IF Found(disk[f]) = 0 THEN "parsed" ELSE "store"]]
        PROVE  TypeOK'
    <3>1. f \in Files /\ disk[f] \in 0..MaxRev /\ act[s].left \ {f} \in SUBSET Files
      BY <2>2, DiagnosticsAssumption DEF TypeOK, Doing
    <3>2. [act[s] EXCEPT !.left = @ \ {f}, !.file = f, !.rev = disk[f],
             !.at = IF Found(disk[f]) = 0 THEN "parsed" ELSE "store"] \in Doing
      BY <3>1 DEF Doing
    <3>3. act' \in [Actors -> Doing]
      BY <2>2, <3>2 DEF TypeOK
    <3> QED
      BY <1>15, <3>3 DEF TypeOK, ParseFile, outside, store, history
  <2> QED
    BY <1>15, <2>1, <2>2 DEF ParseFile
<1>16. ASSUME NEW s \in Slots, ParsesClean(s) PROVE TypeOK'
  <2>1. /\ [act[s] EXCEPT !.at = "store"] \in Doing
        /\ [act[s] EXCEPT !.at = "next", !.file = None, !.rev = 0] \in Doing
    BY DEF Doing
  <2>2. act' \in [Actors -> Doing]
    BY <1>16, <2>1 DEF TypeOK, ParsesClean
  <2> QED
    BY <1>16, <2>2 DEF TypeOK, ParsesClean, outside, store, history
<1>17. ASSUME NEW s \in Slots, NEW f \in Files, StoreParse(s, f) PROVE TypeOK'
  <2>1. parse' \in [Files -> 0..MaxRev]
    BY <1>17, FoundType DEF TypeOK, StoreParse, Doing
  <2>2. Merged(f)' \in Message
    BY <1>17, <2>1, MergedNext DEF TypeOK, StoreParse
  <2>3. [act[s] EXCEPT !.at = "send", !.file = f, !.msg = Merged(f)'] \in Doing
    BY <2>2 DEF Doing
  <2>4. act' \in [Actors -> Doing] /\ crossed' \subseteq Files
    BY <1>17, <2>3 DEF TypeOK, StoreParse, Emit
  <2> QED
    BY <1>17, <2>1, <2>4 DEF TypeOK, StoreParse, outside
<1>18. ASSUME NEW r \in Reports, NEW C \in SUBSET Files, ReportChanges(r, C) PROVE TypeOK'
  <2>1. report' \in [Reports -> SUBSET Files]
    BY <1>18 DEF TypeOK, ReportChanges
  <2> QED
    BY <1>18, <2>1 DEF TypeOK, ReportChanges, store, history
<1>19. ASSUME NEW s \in Slots, NEW R \in SUBSET Reports, Reload(s, R) PROVE TypeOK'
  <2>1. act' \in [Actors -> Doing]
    BY <1>19, JobTypes DEF TypeOK, Reload
  <2> QED
    BY <1>19, <2>1 DEF TypeOK, Reload, outside, store, history
<1>20. ASSUME NEW s \in Slots, NEW r \in Reports, BeginLoad(s, r) PROVE TypeOK'
  <2>1. [act[s] EXCEPT !.at = "read", !.report = r, !.reports = @ \ {r}] \in Doing
    BY DEF Doing
  <2>2. act' \in [Actors -> Doing]
    BY <1>20, <2>1 DEF TypeOK, BeginLoad
  <2>3. ran' \subseteq Files /\ doubled' \subseteq Reports
    BY <1>20 DEF TypeOK, BeginLoad, Outrun
  <2> QED
    BY <1>20, <2>2, <2>3 DEF TypeOK, BeginLoad, outside
<1>21. ASSUME NEW s \in Slots, ReadReport(s) PROVE TypeOK'
  <2>1. report[act[s].report] \in SUBSET Files
    BY <1>21 DEF TypeOK, Placed, ReadReport, At
  <2>2. [act[s] EXCEPT !.at = "prev", !.content = report[act[s].report]] \in Doing
    BY <2>1 DEF Doing
  <2>3. act' \in [Actors -> Doing]
    BY <1>21, <2>2 DEF TypeOK, ReadReport
  <2> QED
    BY <1>21, <2>3 DEF TypeOK, ReadReport, outside, store, history
<1>22. ASSUME NEW s \in Slots, ReadPrevious(s) PROVE TypeOK'
  <2>1. Published(s) \in SUBSET Files
    BY <1>22 DEF TypeOK, Placed, ReadPrevious, At, Published, Doing
  <2>2. [act[s] EXCEPT !.at = "publish", !.left = Published(s)] \in Doing
    BY <2>1 DEF Doing
  <2>3. act' \in [Actors -> Doing]
    BY <1>22, <2>2 DEF TypeOK, ReadPrevious
  <2> QED
    BY <1>22, <2>3 DEF TypeOK, ReadPrevious, outside, store, history
<1>23. ASSUME NEW s \in Slots, NEW f \in Files, PublishEntries(s, f) PROVE TypeOK'
  <2>1. act[s].report \in Reports
    BY <1>23 DEF Placed, PublishEntries, At
  <2>2. listed' \in [Files -> SUBSET Reports]
    BY <1>23, <2>1 DEF TypeOK, PublishEntries
  <2>3. Merged(f)' \in Message
    BY <1>23, <2>2, MergedNext DEF TypeOK, PublishEntries
  <2>4. \A at \in {"ask", "send"} :
          [[act[s] EXCEPT !.left = @ \ {f}] EXCEPT !.at = at, !.file = f, !.msg = Merged(f)'] \in Doing
    BY <2>3 DEF Doing
  <2>5. act' \in [Actors -> Doing] /\ crossed' \subseteq Files
    BY <1>23, <2>4 DEF TypeOK, PublishEntries, Emit
  <2> QED
    BY <1>23, <2>2, <2>5 DEF TypeOK, PublishEntries, outside
<1>24. ASSUME NEW s \in Slots, AskOpen(s) PROVE TypeOK'
  <2>1. [act[s] EXCEPT !.at = "send"] \in Doing
    BY DEF Doing
  <2>2. act' \in [Actors -> Doing]
    BY <1>24, <2>1, ResumeType DEF TypeOK, AskOpen
  <2> QED
    BY <1>24, <2>2 DEF TypeOK, AskOpen, outside, store, history
<1>25. ASSUME NEW s \in Slots, EndLoad(s) PROVE TypeOK'
  <2>0. act[s].reports \in SUBSET Reports
    BY DEF Doing
  <2>1. LoadJob(act[s].reports) \in Doing
    BY <2>0, JobTypes
  <2>2. act' \in [Actors -> Doing] /\ known' \in [Reports -> SUBSET Files]
    BY <1>25, <2>1 DEF TypeOK, EndLoad, Doing
  <2> QED
    BY <1>25, <2>2 DEF TypeOK, EndLoad, outside, history
<1> QED
  BY <1>1, <1>2, <1>3, <1>4, <1>5, <1>6, <1>7, <1>8, <1>9, <1>10, <1>11, <1>12,
     <1>13, <1>14, <1>15, <1>16, <1>17, <1>18, <1>19, <1>20, <1>21, <1>22, <1>23,
     <1>24, <1>25
     DEF Next, Handle, Scan, Parse, Load

-----------------------------------------------------------------------------
(* Closing a file, and hiding a report behind CFLint *)

\* No scan of a closed file may still record its answer.
NobodyRecords == \A f \in Files \ (open \cup late), s \in Slots : ~Scanning(s, f)

\* Of a closed file CFLint's findings are gone, or about to go.
FindingsGo ==
    \A f \in Files \ (open \cup late) :
      lint[f] # 0 => At(Reader, "close", "unlint") /\ act[Reader].file = f

\* Whoever is about to record findings has said that CFLint ran, and no report
\* has outrun it since.
SaidItRan ==
    \A f \in Files \ late, s \in Slots :
      At(s, "scan", "store") /\ act[s].file = f => f \in ran

\* The findings of an open file hide the reports' entries.
FindingsHide == \A f \in open \ late : lint[f] # 0 => f \in ran

Parts == NobodyRecords /\ FindingsGo /\ SaidItRan /\ FindingsHide

CloseInv == TypeOK /\ Placed /\ Parts

LEMMA CloseInit == Init => CloseInv
<1> SUFFICES ASSUME Init PROVE CloseInv
  OBVIOUS
<1>1. Idle \in Doing /\ Nothing \in Message
  BY IdleType
<1>2. TypeOK
  BY <1>1, DiagnosticsAssumption DEF Init, TypeOK
<1>3. \A a \in Actors : act[a] = Idle
  BY DEF Init
<1>4. Placed /\ NobodyRecords /\ SaidItRan
  BY <1>3 DEF Placed, NobodyRecords, SaidItRan, Scanning, At, Idle, Actors
<1>5. FindingsGo /\ FindingsHide
  BY DEF Init, FindingsGo, FindingsHide
<1> QED
  BY <1>2, <1>4, <1>5 DEF CloseInv, Parts

LEMMA PlacedStep == TypeOK /\ Placed /\ [Next]_vars => Placed'
<1> SUFFICES ASSUME TypeOK, Placed, [Next]_vars, NEW a \in Actors
             PROVE  /\ act'[a].op = "scan" => act'[a].file \in Files
                    /\ act'[a].op = "load" /\ act'[a].at # "next" => act'[a].report \in Reports
  BY DEF Placed
<1>a. /\ act[a].op = "scan" => act[a].file \in Files
      /\ act[a].op = "load" /\ act[a].at # "next" => act[a].report \in Reports
      /\ act[a] \in Doing
      /\ act \in [Actors -> Doing]
  BY DEF Placed, TypeOK
<1>b. Slots \subseteq Actors /\ Reader \in Actors
  BY DEF Actors
<1> USE <1>a, <1>b DEF Doing
<1> DEFINE Fine == /\ act'[a].op = "scan" => act'[a].file \in Files
                   /\ act'[a].op = "load" /\ act'[a].at # "next" => act'[a].report \in Reports
<1> SUFFICES Fine
  OBVIOUS
<1>1. CASE UNCHANGED vars
  BY <1>1 DEF vars
<1>2. ASSUME NEW b \in Actors, Notify(b) PROVE Fine
  BY <1>2 DEF Notify, Resume, Idle
<1>3. ASSUME NEW f \in Files, DidOpen(f) PROVE Fine
  <2>1. CASE UNCHANGED <<act, crossed>>
    BY <2>1
  <2>2. CASE Emit(Reader, [Idle EXCEPT !.op = "open"], f, "send")
    <3>1. act'[Reader].op = "open"
      BY <2>2 DEF Emit, Idle
    <3>2. a # Reader => act'[a] = act[a]
      BY <2>2 DEF Emit
    <3> QED
      BY <3>1, <3>2
  <2> QED
    BY <1>3, <2>1, <2>2 DEF DidOpen, DiagnosticsOpened
<1>4. ASSUME NEW f \in Files, DiagnosticsClosed(f) PROVE Fine
  BY <1>4 DEF DiagnosticsClosed, Idle
<1>5. ASSUME ClearLint PROVE Fine
  BY <1>5 DEF ClearLint, At
<1>6. ASSUME NEW f \in Files, ClearParse(f) PROVE Fine
  BY <1>6 DEF ClearParse, Emit, At
<1>7. ASSUME NEW f \in Files, DidSave(f) PROVE Fine
  <2>1. /\ ScanJob(f).op = "scan" /\ ScanJob(f).file = f
        /\ LoadJob(Reports).op = "load" /\ LoadJob(Reports).at = "next"
    BY DEF ScanJob, LoadJob, Idle
  <2>2. act'[a] \in {act[a], ScanJob(f), LoadJob(Reports)}
    BY <1>7 DEF DidSave, Free
  <2> QED
    BY <2>1, <2>2
<1>8. ASSUME NEW s \in Slots, Register(s) PROVE Fine
  BY <1>8 DEF Register, At
<1>9. ASSUME NEW s \in Slots, ReadText(s) PROVE Fine
  BY <1>9 DEF ReadText, At
<1>10. ASSUME NEW s \in Slots, Linted(s) PROVE Fine
  BY <1>10 DEF Linted, At
<1>11. ASSUME NEW s \in Slots, DiagnosticsRan(s) PROVE Fine
  BY <1>11 DEF DiagnosticsRan, At
<1>12. ASSUME NEW s \in Slots, NEW f \in Files, StoreLint(s, f) PROVE Fine
  BY <1>12 DEF StoreLint, Emit, At
<1>13. ASSUME NEW s \in Slots, FinishScan(s) PROVE Fine
  BY <1>13 DEF FinishScan, Idle
<1>14. ASSUME NEW s \in Slots, ScanWorkspace(s) PROVE Fine
  BY <1>14 DEF ScanWorkspace, Idle
<1>15. ASSUME NEW s \in Slots, ParseFile(s) PROVE Fine
  <2>1. CASE act' = [act EXCEPT ![s] = Idle]
    BY <2>1 DEF Idle
  <2>2. ASSUME NEW f \in act[s].left,
               act' = [act EXCEPT ![s].left = @ \ {f}, ![s].file = f, ![s].rev = disk[f],
                         ![s].at = IF Found(disk[f]) = 0 THEN "parsed" ELSE "store"]
        PROVE  Fine
    <3>1. act'[s].op = "parse" /\ (a # s => act'[a] = act[a])
      BY <1>15, <2>2 DEF ParseFile, At
    <3> QED
      BY <3>1
  <2> QED
    BY <1>15, <2>1, <2>2 DEF ParseFile
<1>16. ASSUME NEW s \in Slots, ParsesClean(s) PROVE Fine
  BY <1>16 DEF ParsesClean, At
<1>17. ASSUME NEW s \in Slots, NEW f \in Files, StoreParse(s, f) PROVE Fine
  BY <1>17 DEF StoreParse, Emit, At
<1>18. ASSUME NEW r \in Reports, NEW C \in SUBSET Files, ReportChanges(r, C) PROVE Fine
  BY <1>18 DEF ReportChanges
<1>19. ASSUME NEW s \in Slots, NEW R \in SUBSET Reports, Reload(s, R) PROVE Fine
  BY <1>19 DEF Reload, LoadJob, Idle
<1>20. ASSUME NEW s \in Slots, NEW r \in Reports, BeginLoad(s, r) PROVE Fine
  BY <1>20 DEF BeginLoad, At
<1>21. ASSUME NEW s \in Slots, ReadReport(s) PROVE Fine
  BY <1>21 DEF ReadReport, At
<1>22. ASSUME NEW s \in Slots, ReadPrevious(s) PROVE Fine
  BY <1>22 DEF ReadPrevious, At
<1>23. ASSUME NEW s \in Slots, NEW f \in Files, PublishEntries(s, f) PROVE Fine
  BY <1>23 DEF PublishEntries, Emit, At
<1>24. ASSUME NEW s \in Slots, AskOpen(s) PROVE Fine
  BY <1>24 DEF AskOpen, Resume, Idle
<1>25. ASSUME NEW s \in Slots, EndLoad(s) PROVE Fine
  BY <1>25 DEF EndLoad, LoadJob, Idle
<1> QED
  BY <1>1, <1>2, <1>3, <1>4, <1>5, <1>6, <1>7, <1>8, <1>9, <1>10, <1>11, <1>12, <1>13, <1>14, <1>15, <1>16, <1>17, <1>18, <1>19, <1>20, <1>21, <1>22, <1>23, <1>24, <1>25
     DEF Next, Handle, Scan, Parse, Load
\* A step that leaves the store alone and starts no scan of a closed file.
LEMMA Elsewhere ==
    ASSUME Parts, UNCHANGED <<open, late, lint, ran>>,
           At(Reader, "close", "unlint") => act'[Reader] = act[Reader],
           \A s \in Slots, f \in Files :
             /\ Scanning(s, f)' => Scanning(s, f) \/ f \in open
             /\ At(s, "scan", "store")' /\ act'[s].file = f
                  => At(s, "scan", "store") /\ act[s].file = f
    PROVE  Parts'
<1>1. NobodyRecords'
  BY DEF Parts, NobodyRecords
<1>2. FindingsGo'
  BY DEF Parts, FindingsGo, At
<1>3. SaidItRan'
  BY DEF Parts, SaidItRan
<1>4. FindingsHide'
  BY DEF Parts, FindingsHide
<1> QED
  BY <1>1, <1>2, <1>3, <1>4 DEF Parts

LEMMA PartsStep == TypeOK /\ Placed /\ Parts /\ [Next]_vars => Parts'
<1> SUFFICES ASSUME TypeOK, Placed, Parts, [Next]_vars PROVE Parts'
  OBVIOUS
<1>a. /\ act \in [Actors -> Doing] /\ lint \in [Files -> 0..MaxRev]
      /\ ran \subseteq Files /\ open \subseteq Files /\ late \subseteq Files
      /\ \A a \in Actors : act[a] \in Doing
  BY DEF TypeOK
<1>b. /\ Slots \subseteq Actors /\ Reader \in Actors
      /\ \A s \in Slots : s # Reader
  BY DiagnosticsAssumption DEF Actors
<1> USE <1>a, <1>b
<1>1. CASE UNCHANGED vars
  <2>1. UNCHANGED <<act, open, late, lint, ran>>
    BY <1>1 DEF vars, store, history
  <2> QED
    BY <2>1, Elsewhere DEF At, Scanning
<1>2. ASSUME NEW b \in Actors, Notify(b) PROVE Parts'
  <2>1. UNCHANGED <<open, late, lint, ran>>
    BY <1>2 DEF Notify, Resume, Idle, Doing, store, history
  <2>2. At(Reader, "close", "unlint") => act'[Reader] = act[Reader]
    BY <1>2 DEF Notify, Resume, Idle, Doing, store, history, At
  <2>3. \A t \in Slots, g \in Files :
          /\ Scanning(t, g)' => Scanning(t, g) \/ g \in open
          /\ At(t, "scan", "store")' /\ act'[t].file = g
               => At(t, "scan", "store") /\ act[t].file = g
    BY <1>2 DEF Notify, Resume, Idle, Doing, store, history, At, Scanning
  <2> QED
    BY <2>1, <2>2, <2>3, Elsewhere
<1>3. ASSUME NEW f \in Files, DidOpen(f) PROVE Parts'
  <2>1. act[Reader].op = "none" /\ open' = open \cup {f} /\ UNCHANGED <<lint, ran, late>>
    BY <1>3 DEF DidOpen, DiagnosticsOpened, Idle
  <2>2. \A s \in Slots : act'[s] = act[s]
    BY <1>3 DEF DidOpen, DiagnosticsOpened, Emit
  <2>3. NobodyRecords'
    BY <2>1, <2>2 DEF Parts, NobodyRecords, Scanning
  <2>4. \A g \in Files \ (open \cup late) : lint[g] = 0
    BY <2>1 DEF Parts, FindingsGo, At
  <2>5. FindingsGo' /\ FindingsHide'
    BY <2>1, <2>4 DEF Parts, FindingsGo, FindingsHide
  <2>6. SaidItRan'
    BY <2>1, <2>2 DEF Parts, SaidItRan, At
  <2> QED
    BY <2>3, <2>5, <2>6 DEF Parts
<1>4. ASSUME NEW f \in Files, DiagnosticsClosed(f) PROVE Parts'
  <2>1. /\ act[Reader].op = "none" /\ open' = open \ {f} /\ UNCHANGED <<lint, ran>>
        /\ late' = IF \E s \in Slots : Scanning(s, f) THEN late \cup {f} ELSE late \ {f}
    BY <1>4 DEF DiagnosticsClosed, Idle
  <2>2. \A s \in Slots : act'[s] = act[s]
    BY <1>4 DEF DiagnosticsClosed
  <2>3. act'[Reader].op = "close" /\ act'[Reader].at = "unlint" /\ act'[Reader].file = f
    BY <1>4 DEF DiagnosticsClosed, Idle
  <2>4. NobodyRecords'
    BY <2>1, <2>2 DEF Parts, NobodyRecords, Scanning
  <2>5. \A g \in Files \ (open \cup late) : lint[g] = 0
    BY <2>1 DEF Parts, FindingsGo, At
  <2>6. FindingsGo'
    BY <2>1, <2>3, <2>5 DEF FindingsGo, At
  <2>7. SaidItRan'
    BY <2>1, <2>2 DEF Parts, SaidItRan, At, Scanning
  <2>8. FindingsHide'
    BY <2>1 DEF Parts, FindingsHide
  <2> QED
    BY <2>4, <2>6, <2>7, <2>8 DEF Parts
<1>5. ASSUME ClearLint PROVE Parts'
  <2>1. /\ UNCHANGED <<open, late, ran>>
        /\ lint' = [lint EXCEPT ![act[Reader].file] = 0]
        /\ \A s \in Slots : act'[s] = act[s]
    BY <1>5 DEF ClearLint, history
  <2>2. NobodyRecords' /\ SaidItRan'
    BY <2>1 DEF Parts, NobodyRecords, SaidItRan, Scanning, At
  <2>3. FindingsGo' /\ FindingsHide'
    BY <2>1 DEF Parts, FindingsGo, FindingsHide, At
  <2> QED
    BY <2>2, <2>3 DEF Parts
<1>6. ASSUME NEW f \in Files, ClearParse(f) PROVE Parts'
  <2>1. UNCHANGED <<open, late, lint, ran>>
    BY <1>6 DEF ClearParse, Emit, Doing
  <2>2. At(Reader, "close", "unlint") => act'[Reader] = act[Reader]
    BY <1>6 DEF ClearParse, Emit, Doing, At
  <2>3. \A t \in Slots, g \in Files :
          /\ Scanning(t, g)' => Scanning(t, g) \/ g \in open
          /\ At(t, "scan", "store")' /\ act'[t].file = g
               => At(t, "scan", "store") /\ act[t].file = g
    BY <1>6 DEF ClearParse, Emit, Doing, At, Scanning
  <2> QED
    BY <2>1, <2>2, <2>3, Elsewhere
<1>7. ASSUME NEW f \in Files, DidSave(f) PROVE Parts'
  <2>1. UNCHANGED <<open, late, lint, ran>>
    BY <1>7 DEF DidSave, ScanJob, LoadJob, Idle, Free, store, history
  <2>2. At(Reader, "close", "unlint") => act'[Reader] = act[Reader]
    BY <1>7 DEF DidSave, ScanJob, LoadJob, Idle, Free, store, history, At
  <2>3. \A t \in Slots, g \in Files :
          /\ Scanning(t, g)' => Scanning(t, g) \/ g \in open
          /\ At(t, "scan", "store")' /\ act'[t].file = g
               => At(t, "scan", "store") /\ act[t].file = g
    <3>1. /\ ScanJob(f).op = "scan" /\ ScanJob(f).at = "start" /\ ScanJob(f).file = f
          /\ LoadJob(Reports).op = "load"
      BY DEF ScanJob, LoadJob, Idle
    <3>2. f \in open /\ \A t \in Slots : act'[t] \in {act[t], ScanJob(f), LoadJob(Reports)}
      BY <1>7 DEF DidSave, Free
    <3> QED
      BY <3>1, <3>2 DEF At, Scanning
  <2> QED
    BY <2>1, <2>2, <2>3, Elsewhere
<1>8. ASSUME NEW s \in Slots, Register(s) PROVE Parts'
  <2>1. UNCHANGED <<open, late, lint, ran>>
    BY <1>8 DEF Register, Doing, store, history
  <2>2. At(Reader, "close", "unlint") => act'[Reader] = act[Reader]
    BY <1>8 DEF Register, Doing, store, history, At
  <2>3. \A t \in Slots, g \in Files :
          /\ Scanning(t, g)' => Scanning(t, g) \/ g \in open
          /\ At(t, "scan", "store")' /\ act'[t].file = g
               => At(t, "scan", "store") /\ act[t].file = g
    BY <1>8 DEF Register, Doing, store, history, At, Scanning
  <2> QED
    BY <2>1, <2>2, <2>3, Elsewhere
<1>9. ASSUME NEW s \in Slots, ReadText(s) PROVE Parts'
  <2>1. UNCHANGED <<open, late, lint, ran>>
    BY <1>9 DEF ReadText, Doing, store, history
  <2>2. At(Reader, "close", "unlint") => act'[Reader] = act[Reader]
    BY <1>9 DEF ReadText, Doing, store, history, At
  <2>3. \A t \in Slots, g \in Files :
          /\ Scanning(t, g)' => Scanning(t, g) \/ g \in open
          /\ At(t, "scan", "store")' /\ act'[t].file = g
               => At(t, "scan", "store") /\ act[t].file = g
    BY <1>9 DEF ReadText, Doing, store, history, At, Scanning
  <2> QED
    BY <2>1, <2>2, <2>3, Elsewhere
<1>10. ASSUME NEW s \in Slots, Linted(s) PROVE Parts'
  <2>1. UNCHANGED <<open, late, lint, ran>>
    BY <1>10 DEF Linted, Silenced, Doing, store, history
  <2>2. At(Reader, "close", "unlint") => act'[Reader] = act[Reader]
    BY <1>10 DEF Linted, Silenced, Doing, store, history, At
  <2>3. \A t \in Slots, g \in Files :
          /\ Scanning(t, g)' => Scanning(t, g) \/ g \in open
          /\ At(t, "scan", "store")' /\ act'[t].file = g
               => At(t, "scan", "store") /\ act[t].file = g
    BY <1>10 DEF Linted, Silenced, Doing, store, history, At, Scanning
  <2> QED
    BY <2>1, <2>2, <2>3, Elsewhere
<1>11. ASSUME NEW s \in Slots, DiagnosticsRan(s) PROVE Parts'
  <2>1. /\ UNCHANGED <<open, late, lint>>
        /\ ran' = ran \cup {act[s].file} /\ At(s, "scan", "ran")
        /\ act' = [act EXCEPT ![s].at = "store"]
    BY <1>11 DEF DiagnosticsRan, history
  <2>2. act'[s].op = act[s].op /\ act'[s].file = act[s].file /\ act'[s].at = "store"
    BY <2>1 DEF Doing
  <2>3. \A a \in Actors \ {s} : act'[a] = act[a]
    BY <2>1
  <2>4. NobodyRecords'
    BY <2>1, <2>2, <2>3 DEF Parts, NobodyRecords, Scanning, At
  <2>5. FindingsGo' /\ FindingsHide'
    BY <2>1, <2>3 DEF Parts, FindingsGo, FindingsHide, At
  <2>6. SaidItRan'
    BY <2>1, <2>2, <2>3 DEF Parts, SaidItRan, At
  <2> QED
    BY <2>4, <2>5, <2>6 DEF Parts
<1>12. ASSUME NEW s \in Slots, NEW f \in Files, StoreLint(s, f) PROVE Parts'
  <2>1. /\ UNCHANGED <<open, late, ran>>
        /\ lint' = [lint EXCEPT ![f] = Found(act[s].rev)]
        /\ At(s, "scan", "store") /\ act[s].file = f
    BY <1>12 DEF StoreLint
  <2>2. act'[s].at = "send"
    BY <1>12 DEF StoreLint, Emit, Doing
  <2>3. \A a \in Actors \ {s} : act'[a] = act[a]
    BY <1>12 DEF StoreLint, Emit
  <2>4. NobodyRecords' /\ SaidItRan'
    BY <2>1, <2>2, <2>3 DEF Parts, NobodyRecords, SaidItRan, Scanning, At
  <2>5. f \in open \cup late
    BY <2>1 DEF Parts, NobodyRecords, Scanning, At
  <2>6. FindingsGo'
    BY <2>1, <2>3, <2>5 DEF Parts, FindingsGo, At
  <2>7. f \notin late => f \in ran
    BY <2>1 DEF Parts, SaidItRan
  <2>8. FindingsHide'
    BY <2>1, <2>7 DEF Parts, FindingsHide
  <2> QED
    BY <2>4, <2>6, <2>8 DEF Parts
<1>13. ASSUME NEW s \in Slots, FinishScan(s) PROVE Parts'
  <2>1. UNCHANGED <<open, late, lint, ran>>
    BY <1>13 DEF FinishScan, Idle, store, history
  <2>2. At(Reader, "close", "unlint") => act'[Reader] = act[Reader]
    BY <1>13 DEF FinishScan, Idle, store, history, At
  <2>3. \A t \in Slots, g \in Files :
          /\ Scanning(t, g)' => Scanning(t, g) \/ g \in open
          /\ At(t, "scan", "store")' /\ act'[t].file = g
               => At(t, "scan", "store") /\ act[t].file = g
    BY <1>13 DEF FinishScan, Idle, store, history, At, Scanning
  <2> QED
    BY <2>1, <2>2, <2>3, Elsewhere
<1>14. ASSUME NEW s \in Slots, ScanWorkspace(s) PROVE Parts'
  <2>1. UNCHANGED <<open, late, lint, ran>>
    BY <1>14 DEF ScanWorkspace, Idle, store, history
  <2>2. At(Reader, "close", "unlint") => act'[Reader] = act[Reader]
    BY <1>14 DEF ScanWorkspace, Idle, store, history, At
  <2>3. \A t \in Slots, g \in Files :
          /\ Scanning(t, g)' => Scanning(t, g) \/ g \in open
          /\ At(t, "scan", "store")' /\ act'[t].file = g
               => At(t, "scan", "store") /\ act[t].file = g
    BY <1>14 DEF ScanWorkspace, Idle, store, history, At, Scanning
  <2> QED
    BY <2>1, <2>2, <2>3, Elsewhere
<1>15. ASSUME NEW s \in Slots, ParseFile(s) PROVE Parts'
  <2>1. UNCHANGED <<open, late, lint, ran>>
    BY <1>15 DEF ParseFile, Idle, Doing, store, history
  <2>2. At(Reader, "close", "unlint") => act'[Reader] = act[Reader]
    BY <1>15 DEF ParseFile, Idle, Doing, store, history, At
  <2>3. \A t \in Slots, g \in Files :
          /\ Scanning(t, g)' => Scanning(t, g) \/ g \in open
          /\ At(t, "scan", "store")' /\ act'[t].file = g
               => At(t, "scan", "store") /\ act[t].file = g
    <3>1. act[s].op = "parse" /\ \A t \in Slots \ {s} : act'[t] = act[t]
      BY <1>15 DEF ParseFile, At
    <3>2. CASE act' = [act EXCEPT ![s] = Idle]
      BY <3>1, <3>2 DEF Idle, At, Scanning
    <3>3. ASSUME NEW f \in act[s].left,
                 act' = [act EXCEPT ![s].left = @ \ {f}, ![s].file = f, ![s].rev = disk[f],
                           ![s].at = IF Found(disk[f]) = 0 THEN "parsed" ELSE "store"]
          PROVE  act'[s].op = "parse"
      BY <3>1, <3>3 DEF Doing
    <3>4. act'[s].op = "parse" \/ act' = [act EXCEPT ![s] = Idle]
      BY <1>15, <3>3 DEF ParseFile
    <3> QED
      BY <3>1, <3>2, <3>4 DEF At, Scanning
  <2> QED
    BY <2>1, <2>2, <2>3, Elsewhere
<1>16. ASSUME NEW s \in Slots, ParsesClean(s) PROVE Parts'
  <2>1. UNCHANGED <<open, late, lint, ran>>
    BY <1>16 DEF ParsesClean, Doing, store, history
  <2>2. At(Reader, "close", "unlint") => act'[Reader] = act[Reader]
    BY <1>16 DEF ParsesClean, Doing, store, history, At
  <2>3. \A t \in Slots, g \in Files :
          /\ Scanning(t, g)' => Scanning(t, g) \/ g \in open
          /\ At(t, "scan", "store")' /\ act'[t].file = g
               => At(t, "scan", "store") /\ act[t].file = g
    BY <1>16 DEF ParsesClean, Doing, store, history, At, Scanning
  <2> QED
    BY <2>1, <2>2, <2>3, Elsewhere
<1>17. ASSUME NEW s \in Slots, NEW f \in Files, StoreParse(s, f) PROVE Parts'
  <2>1. UNCHANGED <<open, late, lint, ran>>
    BY <1>17 DEF StoreParse, Emit, Doing
  <2>2. At(Reader, "close", "unlint") => act'[Reader] = act[Reader]
    BY <1>17 DEF StoreParse, Emit, Doing, At
  <2>3. \A t \in Slots, g \in Files :
          /\ Scanning(t, g)' => Scanning(t, g) \/ g \in open
          /\ At(t, "scan", "store")' /\ act'[t].file = g
               => At(t, "scan", "store") /\ act[t].file = g
    BY <1>17 DEF StoreParse, Emit, Doing, At, Scanning
  <2> QED
    BY <2>1, <2>2, <2>3, Elsewhere
<1>18. ASSUME NEW r \in Reports, NEW C \in SUBSET Files, ReportChanges(r, C) PROVE Parts'
  <2>1. UNCHANGED <<open, late, lint, ran>>
    BY <1>18 DEF ReportChanges, store, history
  <2>2. At(Reader, "close", "unlint") => act'[Reader] = act[Reader]
    BY <1>18 DEF ReportChanges, store, history, At
  <2>3. \A t \in Slots, g \in Files :
          /\ Scanning(t, g)' => Scanning(t, g) \/ g \in open
          /\ At(t, "scan", "store")' /\ act'[t].file = g
               => At(t, "scan", "store") /\ act[t].file = g
    BY <1>18 DEF ReportChanges, store, history, At, Scanning
  <2> QED
    BY <2>1, <2>2, <2>3, Elsewhere
<1>19. ASSUME NEW s \in Slots, NEW R \in SUBSET Reports, Reload(s, R) PROVE Parts'
  <2>1. UNCHANGED <<open, late, lint, ran>>
    BY <1>19 DEF Reload, LoadJob, Idle, store, history
  <2>2. At(Reader, "close", "unlint") => act'[Reader] = act[Reader]
    BY <1>19 DEF Reload, LoadJob, Idle, store, history, At
  <2>3. \A t \in Slots, g \in Files :
          /\ Scanning(t, g)' => Scanning(t, g) \/ g \in open
          /\ At(t, "scan", "store")' /\ act'[t].file = g
               => At(t, "scan", "store") /\ act[t].file = g
    BY <1>19 DEF Reload, LoadJob, Idle, store, history, At, Scanning
  <2> QED
    BY <2>1, <2>2, <2>3, Elsewhere
<1>20. ASSUME NEW s \in Slots, NEW r \in Reports, BeginLoad(s, r) PROVE Parts'
  <2>1. UNCHANGED <<open, late, lint>> /\ (ran' = ran \/ ran' = ran \cap open)
    BY <1>20 DEF BeginLoad, Outrun
  <2>2. act[s].op = "load" /\ act'[s].op = "load"
    BY <1>20 DEF BeginLoad, At, Doing
  <2>3. \A a \in Actors \ {s} : act'[a] = act[a]
    BY <1>20 DEF BeginLoad
  <2>4. NobodyRecords'
    BY <2>1, <2>2, <2>3 DEF Parts, NobodyRecords, Scanning
  <2>5. FindingsGo' /\ FindingsHide'
    BY <2>1, <2>3 DEF Parts, FindingsGo, FindingsHide, At
  <2>6. SaidItRan'
    BY <2>1, <2>2, <2>3 DEF Parts, SaidItRan, NobodyRecords, Scanning, At
  <2> QED
    BY <2>4, <2>5, <2>6 DEF Parts
<1>21. ASSUME NEW s \in Slots, ReadReport(s) PROVE Parts'
  <2>1. UNCHANGED <<open, late, lint, ran>>
    BY <1>21 DEF ReadReport, Doing, store, history
  <2>2. At(Reader, "close", "unlint") => act'[Reader] = act[Reader]
    BY <1>21 DEF ReadReport, Doing, store, history, At
  <2>3. \A t \in Slots, g \in Files :
          /\ Scanning(t, g)' => Scanning(t, g) \/ g \in open
          /\ At(t, "scan", "store")' /\ act'[t].file = g
               => At(t, "scan", "store") /\ act[t].file = g
    BY <1>21 DEF ReadReport, Doing, store, history, At, Scanning
  <2> QED
    BY <2>1, <2>2, <2>3, Elsewhere
<1>22. ASSUME NEW s \in Slots, ReadPrevious(s) PROVE Parts'
  <2>1. UNCHANGED <<open, late, lint, ran>>
    BY <1>22 DEF ReadPrevious, Doing, store, history
  <2>2. At(Reader, "close", "unlint") => act'[Reader] = act[Reader]
    BY <1>22 DEF ReadPrevious, Doing, store, history, At
  <2>3. \A t \in Slots, g \in Files :
          /\ Scanning(t, g)' => Scanning(t, g) \/ g \in open
          /\ At(t, "scan", "store")' /\ act'[t].file = g
               => At(t, "scan", "store") /\ act[t].file = g
    BY <1>22 DEF ReadPrevious, Doing, store, history, At, Scanning
  <2> QED
    BY <2>1, <2>2, <2>3, Elsewhere
<1>23. ASSUME NEW s \in Slots, NEW f \in Files, PublishEntries(s, f) PROVE Parts'
  <2>1. UNCHANGED <<open, late, lint, ran>>
    BY <1>23 DEF PublishEntries, Emit, Doing
  <2>2. At(Reader, "close", "unlint") => act'[Reader] = act[Reader]
    BY <1>23 DEF PublishEntries, Emit, Doing, At
  <2>3. \A t \in Slots, g \in Files :
          /\ Scanning(t, g)' => Scanning(t, g) \/ g \in open
          /\ At(t, "scan", "store")' /\ act'[t].file = g
               => At(t, "scan", "store") /\ act[t].file = g
    BY <1>23 DEF PublishEntries, Emit, Doing, At, Scanning
  <2> QED
    BY <2>1, <2>2, <2>3, Elsewhere
<1>24. ASSUME NEW s \in Slots, AskOpen(s) PROVE Parts'
  <2>1. UNCHANGED <<open, late, lint, ran>>
    BY <1>24 DEF AskOpen, Resume, Idle, Doing, store, history
  <2>2. At(Reader, "close", "unlint") => act'[Reader] = act[Reader]
    BY <1>24 DEF AskOpen, Resume, Idle, Doing, store, history, At
  <2>3. \A t \in Slots, g \in Files :
          /\ Scanning(t, g)' => Scanning(t, g) \/ g \in open
          /\ At(t, "scan", "store")' /\ act'[t].file = g
               => At(t, "scan", "store") /\ act[t].file = g
    BY <1>24 DEF AskOpen, Resume, Idle, Doing, store, history, At, Scanning
  <2> QED
    BY <2>1, <2>2, <2>3, Elsewhere
<1>25. ASSUME NEW s \in Slots, EndLoad(s) PROVE Parts'
  <2>1. UNCHANGED <<open, late, lint, ran>>
    BY <1>25 DEF EndLoad, LoadJob, Idle, Doing, history
  <2>2. At(Reader, "close", "unlint") => act'[Reader] = act[Reader]
    BY <1>25 DEF EndLoad, LoadJob, Idle, Doing, history, At
  <2>3. \A t \in Slots, g \in Files :
          /\ Scanning(t, g)' => Scanning(t, g) \/ g \in open
          /\ At(t, "scan", "store")' /\ act'[t].file = g
               => At(t, "scan", "store") /\ act[t].file = g
    BY <1>25 DEF EndLoad, LoadJob, Idle, Doing, history, At, Scanning
  <2> QED
    BY <2>1, <2>2, <2>3, Elsewhere
<1> QED
  BY <1>1, <1>2, <1>3, <1>4, <1>5, <1>6, <1>7, <1>8, <1>9, <1>10, <1>11, <1>12, <1>13, <1>14, <1>15, <1>16, <1>17, <1>18, <1>19, <1>20, <1>21, <1>22, <1>23, <1>24, <1>25
     DEF Next, Handle, Scan, Parse, Load

\* The close discipline is inductive.
LEMMA Invariance == Spec => []CloseInv
<1>1. CloseInv /\ [Next]_vars => CloseInv'
  BY TypeStep, PlacedStep, PartsStep DEF CloseInv
<1> QED
  BY <1>1, CloseInit, PTL DEF Spec

\* didClose: when nobody is at work, CFLint's findings of a closed file are
\* gone, unless a scan was past cancelling when it closed.
THEOREM CloseIsClean == Spec => []ClosedHasNoLint
<1>1. CloseInv => ClosedHasNoLint
  <2> SUFFICES ASSUME CloseInv, Quiet, NEW f \in Files \ (open \cup late)
               PROVE  lint[f] = 0
    BY DEF ClosedHasNoLint
  <2>1. act[Reader].op = "none"
    BY DEF Quiet, Actors, Idle
  <2> QED
    BY <2>1 DEF CloseInv, Parts, FindingsGo, At
<1> QED
  BY <1>1, Invariance, PTL

\* loadKnownIssuesFile and diagnosticsRan: when nobody is at work, CFLint's
\* findings of a file hide the entries of every CFLint report, whatever was
\* loaded, opened and closed since, with the same exception.
THEOREM NeverTwiceUnlessLate == Spec => []TwiceOnlyWhenLate
<1>1. ASSUME CloseInv, Quiet, NEW f \in Files \ late, Twice(f)
      PROVE  FALSE
  <2>1. lint[f] # 0 /\ \E r \in LintReports : r \in LintReports => f \notin ran
    BY <1>1 DEF Twice, Merged
  <2>2. act[Reader].op = "none"
    BY <1>1 DEF Quiet, Actors, Idle
  <2>3. f \in open
    BY <1>1, <2>1, <2>2 DEF CloseInv, Parts, FindingsGo, At
  <2> QED
    BY <1>1, <2>1, <2>3 DEF CloseInv, Parts, FindingsHide
<1>2. CloseInv => TwiceOnlyWhenLate
  BY <1>1 DEF TwiceOnlyWhenLate
<1> QED
  BY <1>2, Invariance, PTL

\* The store, the client's view and every goroutine are well typed.
THEOREM DiagnosticsTyped == Spec => []TypeOK
<1>1. CloseInv => TypeOK
  BY DEF CloseInv
<1> QED
  BY <1>1, Invariance, PTL

-----------------------------------------------------------------------------
(* What a report was published to. *)

Publishing == {"publish", "ask", "send"}

\* A report is in hand only while it is loaded,
ReportHeld ==
    \A a \in Actors : act[a].report # None =>
      a \in Slots /\ act[a].op = "load" /\ act[a].at \in {"read", "prev"} \cup Publishing

\* by one goroutine, if it was never loaded twice at once.
LoadsApart ==
    \A r \in Reports \ doubled, s, t \in Slots :
      act[s].report = r /\ act[t].report = r => s = t

\* Before a load publishes, and after, its bookkeeping is right.
EntriesKnown ==
    \A r \in Reports \ doubled :
      (\A s \in Slots : act[s].report = r => act[s].at \notin Publishing)
        => \A f \in Files : f \in known[r] <=> r \in listed[f]

\* In between, the files that are done have the entries of today.
EntriesPublished ==
    \A r \in Reports \ doubled, s \in Slots :
      act[s].report = r /\ act[s].at \in Publishing =>
        \A f \in Files \ act[s].left : f \in act[s].content <=> r \in listed[f]

LoadParts == ReportHeld /\ LoadsApart /\ EntriesKnown /\ EntriesPublished

LEMMA LoadInit == TypeOK /\ Init => LoadParts
<1> SUFFICES ASSUME TypeOK, Init PROVE LoadParts
  OBVIOUS
<1>1. \A a \in Actors : act[a].report = None
  BY DEF Init, Idle
<1>2. \A s \in Slots : s \in Actors
  BY DEF Actors
<1>3. \A r \in Reports : r # None
  BY DiagnosticsAssumption
<1>4. ReportHeld
  BY <1>1 DEF ReportHeld
<1>5. LoadsApart /\ EntriesPublished
  BY <1>1, <1>2, <1>3 DEF LoadsApart, EntriesPublished
<1>6. EntriesKnown
  BY DEF EntriesKnown, Init
<1> QED
  BY <1>4, <1>5, <1>6 DEF LoadParts

\* A step that leaves the loads where they are.
LEMMA LoadsStay ==
    ASSUME LoadParts, UNCHANGED <<listed, known, doubled>>,
           \A a \in Actors :
             \/ act'[a] = act[a]
             \/ act[a].report = None /\ act'[a].report = None
             \/ /\ act'[a].report = act[a].report /\ act'[a].op = act[a].op
                /\ act'[a].at = act[a].at \/ {act[a].at, act'[a].at} \subseteq Publishing
                /\ act'[a].left = act[a].left /\ act'[a].content = act[a].content
    PROVE  LoadParts'
<1>a. \A s \in Slots : s \in Actors
  BY DEF Actors
<1>b. \A r \in Reports : r # None
  BY DiagnosticsAssumption
<1>1. ReportHeld'
  BY DEF LoadParts, ReportHeld
<1>2. \A s \in Slots : act'[s].report = act[s].report
  BY <1>a
<1>3. LoadsApart'
  BY <1>2 DEF LoadParts, LoadsApart
<1>4. \A s \in Slots : act[s].report # None => (act'[s].at \in Publishing <=> act[s].at \in Publishing)
  BY <1>a
<1>5. EntriesKnown'
  BY <1>2, <1>4, <1>b DEF LoadParts, EntriesKnown
<1>6. \A s \in Slots : act[s].report # None =>
        act'[s].left = act[s].left /\ act'[s].content = act[s].content
  BY <1>a
<1>7. EntriesPublished'
  BY <1>2, <1>4, <1>6, <1>b DEF LoadParts, EntriesPublished
<1> QED
  BY <1>1, <1>3, <1>5, <1>7 DEF LoadParts

LEMMA LoadPartsStep == TypeOK /\ LoadParts /\ [Next]_vars => LoadParts'
<1> SUFFICES ASSUME TypeOK, LoadParts, [Next]_vars PROVE LoadParts'
  OBVIOUS
<1>a. act \in [Actors -> Doing] /\ \A a \in Actors : act[a] \in Doing
  BY DEF TypeOK
<1>b. /\ Slots \subseteq Actors /\ Reader \in Actors
      /\ \A s \in Slots : s # Reader
      /\ \A r \in Reports : r # None
  BY DiagnosticsAssumption DEF Actors
<1>c. \A a \in Actors : act[a].report # None =>
        a \in Slots /\ act[a].op = "load" /\ act[a].at \in {"read", "prev"} \cup Publishing
  BY DEF LoadParts, ReportHeld
<1> USE <1>a, <1>b
<1>1. CASE UNCHANGED vars
  BY <1>1, LoadsStay DEF vars, store, history
<1>2. ASSUME NEW b \in Actors, Notify(b) PROVE LoadParts'
  <2>1. act'[b] = Resume(b) /\ \A a \in Actors \ {b} : act'[a] = act[a]
    BY <1>2 DEF Notify
  <2>2. CASE act[b].report = None
    <3>1. Resume(b).report = None
      BY <2>2 DEF Resume, Idle, Doing
    <3> QED
      BY <1>2, <2>1, <2>2, <3>1, LoadsStay DEF Notify, store, history
  <2>3. CASE act[b].report # None
    <3>1. act[b].op = "load"
      BY <1>c, <2>3
    <3>2. Resume(b) = [[act[b] EXCEPT !.msg = Nothing, !.file = None] EXCEPT !.at = "publish"]
      BY <3>1 DEF Resume
    <3>3. /\ Resume(b).report = act[b].report /\ Resume(b).op = act[b].op
          /\ Resume(b).at = "publish" /\ act[b].at = "send"
          /\ Resume(b).left = act[b].left /\ Resume(b).content = act[b].content
      BY <1>2, <3>2 DEF Notify, Doing
    <3> QED
      BY <1>2, <2>1, <3>3, LoadsStay DEF Notify, store, history, Publishing
  <2> QED
    BY <2>2, <2>3
<1>3. ASSUME NEW f \in Files, DidOpen(f) PROVE LoadParts'
  <2>1. act[Reader].report = None /\ act'[Reader].report = None
    BY <1>3, <1>c DEF DidOpen, DiagnosticsOpened, Emit, Idle
  <2>2. \A a \in Actors \ {Reader} : act'[a] = act[a]
    BY <1>3 DEF DidOpen, DiagnosticsOpened, Emit
  <2> QED
    BY <1>3, <2>1, <2>2, LoadsStay DEF DidOpen
<1>4. ASSUME NEW f \in Files, DiagnosticsClosed(f) PROVE LoadParts'
  <2>1. act[Reader].report = None /\ act'[Reader].report = None
    BY <1>4, <1>c DEF DiagnosticsClosed, Idle
  <2>2. \A a \in Actors \ {Reader} : act'[a] = act[a]
    BY <1>4 DEF DiagnosticsClosed
  <2> QED
    BY <1>4, <2>1, <2>2, LoadsStay DEF DiagnosticsClosed
<1>5. ASSUME ClearLint PROVE LoadParts'
  <2>1. act[Reader].report = None /\ act'[Reader].report = None
    BY <1>5, <1>c DEF ClearLint, Doing
  <2>2. \A a \in Actors \ {Reader} : act'[a] = act[a]
    BY <1>5 DEF ClearLint
  <2> QED
    BY <1>5, <2>1, <2>2, LoadsStay DEF ClearLint, history
<1>6. ASSUME NEW f \in Files, ClearParse(f) PROVE LoadParts'
  <2>1. act[Reader].report = None /\ act'[Reader].report = None
    BY <1>6, <1>c DEF ClearParse, Emit, Doing
  <2>2. \A a \in Actors \ {Reader} : act'[a] = act[a]
    BY <1>6 DEF ClearParse, Emit
  <2> QED
    BY <1>6, <2>1, <2>2, LoadsStay DEF ClearParse
<1>7. ASSUME NEW f \in Files, DidSave(f) PROVE LoadParts'
  <2>1. ScanJob(f).report = None /\ LoadJob(Reports).report = None /\ Idle.report = None
    BY DEF ScanJob, LoadJob, Idle
  <2>2. \A a \in Actors : act'[a] = act[a] \/ (act[a].report = None /\ act'[a].report = None)
    <3>1. CASE \E s \in Free : act' = [act EXCEPT ![s] = ScanJob(f)]
      BY <2>1, <3>1 DEF Free
    <3>2. CASE \E s \in Free, t \in Free :
                 act' = [act EXCEPT ![s] = ScanJob(f), ![t] = LoadJob(Reports)]
      BY <2>1, <3>2 DEF Free
    <3> QED
      BY <1>7, <3>1, <3>2 DEF DidSave
  <2> QED
    BY <1>7, <2>2, LoadsStay DEF DidSave, store, history
<1>8. ASSUME NEW s \in Slots, Register(s) PROVE LoadParts'
  <2>1. act[s].report = None /\ act'[s].report = None
    BY <1>8, <1>c DEF Register, At, Doing
  <2>2. \A a \in Actors \ {s} :
          act'[a] = act[a] \/ act'[a] = [act[a] EXCEPT !.cancelled = TRUE]
    BY <1>8 DEF Register
  <2>3. \A a \in Actors \ {s} :
          /\ act'[a].report = act[a].report /\ act'[a].op = act[a].op /\ act'[a].at = act[a].at
          /\ act'[a].left = act[a].left /\ act'[a].content = act[a].content
    <3> TAKE a \in Actors \ {s}
    <3>1. CASE act'[a] = act[a]
      BY <3>1
    <3>2. CASE act'[a] = [act[a] EXCEPT !.cancelled = TRUE]
      BY <3>2 DEF Doing
    <3> QED
      BY <2>2, <3>1, <3>2
  <2> QED
    BY <1>8, <2>1, <2>3, LoadsStay DEF Register, store, history
<1>9. ASSUME NEW s \in Slots, ReadText(s) PROVE LoadParts'
  <2>1. act[s].report = None /\ act'[s].report = None
    BY <1>9, <1>c DEF ReadText, At, Doing
  <2>2. \A a \in Actors \ {s} : act'[a] = act[a]
    BY <1>9 DEF ReadText, At, Doing
  <2> QED
    BY <1>9, <2>1, <2>2, LoadsStay DEF ReadText, store, history
<1>10. ASSUME NEW s \in Slots, Linted(s) PROVE LoadParts'
  <2>1. act[s].report = None /\ act'[s].report = None
    BY <1>10, <1>c DEF Linted, At, Doing
  <2>2. \A a \in Actors \ {s} : act'[a] = act[a]
    BY <1>10 DEF Linted, At, Doing
  <2> QED
    BY <1>10, <2>1, <2>2, LoadsStay DEF Linted, store, history
<1>11. ASSUME NEW s \in Slots, DiagnosticsRan(s) PROVE LoadParts'
  <2>1. act[s].report = None /\ act'[s].report = None
    BY <1>11, <1>c DEF DiagnosticsRan, At, Doing
  <2>2. \A a \in Actors \ {s} : act'[a] = act[a]
    BY <1>11 DEF DiagnosticsRan, At, Doing
  <2> QED
    BY <1>11, <2>1, <2>2, LoadsStay DEF DiagnosticsRan, store, history
<1>12. ASSUME NEW s \in Slots, FinishScan(s) PROVE LoadParts'
  <2>1. act[s].report = None /\ act'[s].report = None
    BY <1>12, <1>c DEF FinishScan, At, Idle
  <2>2. \A a \in Actors \ {s} : act'[a] = act[a]
    BY <1>12 DEF FinishScan, Idle
  <2> QED
    BY <1>12, <2>1, <2>2, LoadsStay DEF FinishScan, store, history
<1>13. ASSUME NEW s \in Slots, ScanWorkspace(s) PROVE LoadParts'
  <2>1. act[s].report = None /\ act'[s].report = None
    BY <1>13, <1>c DEF ScanWorkspace, Free, Idle
  <2>2. \A a \in Actors \ {s} : act'[a] = act[a]
    BY <1>13 DEF ScanWorkspace, Free, Idle
  <2> QED
    BY <1>13, <2>1, <2>2, LoadsStay DEF ScanWorkspace, store, history
<1>14. ASSUME NEW s \in Slots, ParseFile(s) PROVE LoadParts'
  <2>1. act[s].op = "parse" /\ UNCHANGED <<listed, known, doubled>>
    BY <1>14, Zenon DEF ParseFile, At, store, history
  <2>2. act[s].report = None
    BY <1>c, <2>1
  <2> DEFINE Stays == act'[s].report = None /\ \A a \in Actors \ {s} : act'[a] = act[a]
  <2>3. ASSUME act' = [act EXCEPT ![s] = Idle] PROVE Stays
    BY <2>3 DEF Idle
  <2>4. ASSUME NEW f \in act[s].left,
               act' = [act EXCEPT ![s].left = @ \ {f}, ![s].file = f, ![s].rev = disk[f],
                         ![s].at = IF Found(disk[f]) = 0 THEN "parsed" ELSE "store"]
        PROVE  Stays
    BY <2>2, <2>4 DEF Doing
  <2>5. Stays
    BY <1>14, <2>3, <2>4, Zenon DEF ParseFile
  <2> QED
    BY <2>1, <2>2, <2>5, LoadsStay
<1>15. ASSUME NEW s \in Slots, ParsesClean(s) PROVE LoadParts'
  <2>1. act[s].report = None /\ act'[s].report = None
    BY <1>15, <1>c DEF ParsesClean, At, Doing
  <2>2. \A a \in Actors \ {s} : act'[a] = act[a]
    BY <1>15 DEF ParsesClean, At, Doing
  <2> QED
    BY <1>15, <2>1, <2>2, LoadsStay DEF ParsesClean, store, history
<1>16. ASSUME NEW s \in Slots, NEW f \in Files, StoreLint(s, f) PROVE LoadParts'
  <2>1. act[s].report = None /\ act'[s].report = None
    BY <1>16, <1>c DEF StoreLint, Emit, At, Doing
  <2>2. \A a \in Actors \ {s} : act'[a] = act[a]
    BY <1>16 DEF StoreLint, Emit, At, Doing
  <2> QED
    BY <1>16, <2>1, <2>2, LoadsStay DEF StoreLint, store, history
<1>17. ASSUME NEW s \in Slots, NEW f \in Files, StoreParse(s, f) PROVE LoadParts'
  <2>1. act[s].report = None /\ act'[s].report = None
    BY <1>17, <1>c DEF StoreParse, Emit, At, Doing
  <2>2. \A a \in Actors \ {s} : act'[a] = act[a]
    BY <1>17 DEF StoreParse, Emit, At, Doing
  <2> QED
    BY <1>17, <2>1, <2>2, LoadsStay DEF StoreParse, store, history
<1>18. ASSUME NEW r \in Reports, NEW C \in SUBSET Files, ReportChanges(r, C) PROVE LoadParts'
  BY <1>18, LoadsStay DEF ReportChanges, store, history
<1>19. ASSUME NEW s \in Slots, NEW R, Reload(s, R) PROVE LoadParts'
  <2>1. act[s].report = None /\ act'[s].report = None
    BY <1>19, <1>c DEF Reload, Free, LoadJob, Idle
  <2>2. \A a \in Actors \ {s} : act'[a] = act[a]
    BY <1>19 DEF Reload, Free, LoadJob, Idle
  <2> QED
    BY <1>19, <2>1, <2>2, LoadsStay DEF Reload, store, history
<1>20. ASSUME NEW s \in Slots, AskOpen(s) PROVE LoadParts'
  <2>1. \/ act[s].report = None /\ act'[s].report = None
        \/ /\ act'[s].report = act[s].report /\ act'[s].op = act[s].op
           /\ {act[s].at, act'[s].at} \subseteq Publishing
           /\ act'[s].left = act[s].left /\ act'[s].content = act[s].content
    BY <1>20, <1>c DEF AskOpen, Resume, Idle, Doing, Publishing
  <2>2. \A a \in Actors \ {s} : act'[a] = act[a]
    BY <1>20 DEF AskOpen
  <2> QED
    BY <1>20, <2>1, <2>2, LoadsStay DEF AskOpen, store, history
<1>21. ASSUME NEW s \in Slots, NEW r \in Reports, BeginLoad(s, r) PROVE LoadParts'
  <2>1. /\ act[s].op = "load" /\ act[s].report = None
        /\ act'[s].op = "load" /\ act'[s].at = "read" /\ act'[s].report = r
    BY <1>21, <1>c DEF BeginLoad, At, Doing, Publishing
  <2>2. \A a \in Actors \ {s} : act'[a] = act[a]
    BY <1>21 DEF BeginLoad
  <2>3. /\ UNCHANGED <<listed, known>> /\ doubled \subseteq doubled'
        /\ r \notin doubled' => \A t \in Slots \ {s} : act[t].report # r
    BY <1>21 DEF BeginLoad
  <2>4. ReportHeld'
    BY <1>c, <2>1, <2>2 DEF ReportHeld
  <2>5. LoadsApart'
    BY <2>1, <2>2, <2>3 DEF LoadParts, LoadsApart
  <2>6. \A q \in Reports, t \in Slots : act[t].report = q => act'[t] = act[t]
    BY <2>1, <2>2
  <2>7. EntriesPublished'
    BY <2>1, <2>2, <2>3, <2>6 DEF LoadParts, EntriesPublished, Publishing
  <2>8. EntriesKnown'
    BY <2>3, <2>6 DEF LoadParts, EntriesKnown
  <2> QED
    BY <2>4, <2>5, <2>7, <2>8 DEF LoadParts
<1>22. ASSUME NEW s \in Slots, ReadReport(s) PROVE LoadParts'
  <2>1. /\ act'[s].op = act[s].op /\ act'[s].report = act[s].report
        /\ act[s].at = "read" /\ act'[s].at = "prev"
    BY <1>22 DEF ReadReport, At, Doing
  <2>2. \A a \in Actors \ {s} : act'[a] = act[a]
    BY <1>22 DEF ReadReport
  <2>3. UNCHANGED <<listed, known, doubled>>
    BY <1>22 DEF ReadReport, store, history
  <2>4. ReportHeld'
    BY <1>c, <2>1, <2>2 DEF ReportHeld
  <2>5. LoadsApart'
    BY <2>1, <2>2, <2>3 DEF LoadParts, LoadsApart
  <2>6. EntriesPublished'
    BY <2>1, <2>2, <2>3 DEF LoadParts, EntriesPublished, Publishing
  <2>7. EntriesKnown'
    BY <2>1, <2>2, <2>3 DEF LoadParts, EntriesKnown, Publishing
  <2> QED
    BY <2>4, <2>5, <2>6, <2>7 DEF LoadParts
<1>23. ASSUME NEW s \in Slots, ReadPrevious(s) PROVE LoadParts'
  <2>1. /\ act'[s].op = act[s].op /\ act'[s].report = act[s].report
        /\ act[s].at = "prev" /\ act'[s].at = "publish"
        /\ act'[s].content = act[s].content
        /\ act'[s].left = known[act[s].report] \cup act[s].content
    BY <1>23 DEF ReadPrevious, Published, At, Doing
  <2>2. \A a \in Actors \ {s} : act'[a] = act[a]
    BY <1>23 DEF ReadPrevious
  <2>3. UNCHANGED <<listed, known, doubled>>
    BY <1>23 DEF ReadPrevious, store, history
  <2>4. ReportHeld'
    BY <1>c, <2>1, <2>2 DEF ReportHeld, Publishing
  <2>5. LoadsApart'
    BY <2>1, <2>2, <2>3 DEF LoadParts, LoadsApart
  <2>6. ASSUME NEW q \in Reports \ doubled, act[s].report = q, NEW f \in Files \ act'[s].left
        PROVE  f \in act'[s].content <=> q \in listed'[f]
    <3>1. \A t \in Slots : act[t].report = q => act[t].at \notin Publishing
      BY <2>1, <2>6 DEF LoadParts, LoadsApart, Publishing
    <3>2. f \in known[q] <=> q \in listed[f]
      BY <3>1, <2>6 DEF LoadParts, EntriesKnown
    <3> QED
      BY <2>1, <2>3, <2>6, <3>2
  <2>7. EntriesPublished'
    BY <2>1, <2>2, <2>3, <2>6 DEF LoadParts, EntriesPublished
  <2>8. EntriesKnown'
    <3> SUFFICES ASSUME NEW q \in Reports \ doubled,
                        \A t \in Slots : act'[t].report = q => act'[t].at \notin Publishing,
                        NEW f \in Files
                 PROVE  f \in known[q] <=> q \in listed[f]
      BY <2>3 DEF EntriesKnown
    <3>1. \A t \in Slots : act[t].report = q => act[t].at \notin Publishing
      BY <2>1, <2>2 DEF Publishing
    <3> QED
      BY <3>1 DEF LoadParts, EntriesKnown
  <2> QED
    BY <2>4, <2>5, <2>7, <2>8 DEF LoadParts
<1>24. ASSUME NEW s \in Slots, NEW f \in Files, PublishEntries(s, f) PROVE LoadParts'
  <2> DEFINE r == act[s].report
  <2>1. /\ act'[s].op = "load" /\ act'[s].report = r /\ act[s].op = "load"
        /\ act[s].at \in Publishing /\ act'[s].at \in Publishing
        /\ act'[s].content = act[s].content /\ act'[s].left = act[s].left \ {f}
    BY <1>24 DEF PublishEntries, Emit, At, Doing, Publishing
  <2>2. \A a \in Actors \ {s} : act'[a] = act[a]
    BY <1>24 DEF PublishEntries, Emit
  <2>3. UNCHANGED <<known, doubled>>
    BY <1>24 DEF PublishEntries
  <2>4. /\ listed' = [listed EXCEPT ![f] = IF f \in act[s].content THEN @ \cup {r} ELSE @ \ {r}]
        /\ listed \in [Files -> SUBSET Reports]
    BY <1>24 DEF PublishEntries, TypeOK
  <2>5. /\ \A q, g : q # r /\ g \in Files => (q \in listed'[g] <=> q \in listed[g])
        /\ \A g \in Files \ {f} : listed'[g] = listed[g]
        /\ f \in act[s].content <=> r \in listed'[f]
    BY <2>4
  <2>6. ReportHeld'
    BY <1>c, <2>1, <2>2 DEF ReportHeld
  <2>7. LoadsApart'
    BY <2>1, <2>2, <2>3 DEF LoadParts, LoadsApart
  <2>8. EntriesPublished'
    <3> SUFFICES ASSUME NEW q \in Reports \ doubled, NEW t \in Slots,
                        act'[t].report = q, act'[t].at \in Publishing,
                        NEW g \in Files \ act'[t].left
                 PROVE  g \in act'[t].content <=> q \in listed'[g]
      BY <2>3 DEF EntriesPublished
    <3>1. CASE t = s
      <4>1. CASE g = f
        BY <3>1, <4>1, <2>1, <2>5
      <4>2. CASE g # f
        <5>1. g \in Files \ act[s].left
          BY <3>1, <4>2, <2>1
        <5>2. g \in act[s].content <=> q \in listed[g]
          BY <3>1, <5>1, <2>1 DEF LoadParts, EntriesPublished
        <5> QED
          BY <3>1, <4>2, <5>2, <2>1, <2>5
      <4> QED
        BY <4>1, <4>2
    <3>2. CASE t # s
      <4>1. act'[t] = act[t] /\ q # r
        BY <3>2, <2>1, <2>2 DEF LoadParts, LoadsApart
      <4>2. g \in act[t].content <=> q \in listed[g]
        BY <4>1 DEF LoadParts, EntriesPublished
      <4> QED
        BY <4>1, <4>2, <2>5
    <3> QED
      BY <3>1, <3>2
  <2>9. EntriesKnown'
    <3> SUFFICES ASSUME NEW q \in Reports \ doubled,
                        \A t \in Slots : act'[t].report = q => act'[t].at \notin Publishing,
                        NEW g \in Files
                 PROVE  g \in known[q] <=> q \in listed'[g]
      BY <2>3 DEF EntriesKnown
    <3>1. q # r
      BY <2>1
    <3>2. \A t \in Slots : act[t].report = q => act[t].at \notin Publishing
      BY <3>1, <2>2
    <3>3. g \in known[q] <=> q \in listed[g]
      BY <3>2 DEF LoadParts, EntriesKnown
    <3> QED
      BY <3>1, <3>3, <2>5
  <2> QED
    BY <2>6, <2>7, <2>8, <2>9 DEF LoadParts
<1>25. ASSUME NEW s \in Slots, EndLoad(s) PROVE LoadParts'
  <2> DEFINE r == act[s].report
  <2>1. /\ act'[s].report = None /\ act[s].at \in Publishing /\ act[s].left = {}
        /\ act[s].op = "load" /\ act[s].content \subseteq Files
    BY <1>25 DEF EndLoad, At, LoadJob, Idle, Publishing, Doing
  <2>2. \A a \in Actors \ {s} : act'[a] = act[a]
    BY <1>25 DEF EndLoad
  <2>3. UNCHANGED <<listed, doubled>>
    BY <1>25 DEF EndLoad, history
  <2>4. /\ known' = [known EXCEPT ![r] = act[s].content]
        /\ known \in [Reports -> SUBSET Files]
    BY <1>25 DEF EndLoad, TypeOK
  <2>5. ReportHeld'
    BY <1>c, <2>1, <2>2 DEF ReportHeld
  <2>6. LoadsApart'
    BY <2>1, <2>2, <2>3 DEF LoadParts, LoadsApart
  <2>7. EntriesPublished'
    BY <2>1, <2>2, <2>3 DEF LoadParts, EntriesPublished
  <2>8. EntriesKnown'
    <3> SUFFICES ASSUME NEW q \in Reports \ doubled,
                        \A t \in Slots : act'[t].report = q => act'[t].at \notin Publishing,
                        NEW f \in Files
                 PROVE  f \in known'[q] <=> q \in listed[f]
      BY <2>3 DEF EntriesKnown
    <3>1. CASE q = r
      <4>1. f \in act[s].content <=> q \in listed[f]
        BY <3>1, <2>1 DEF LoadParts, EntriesPublished
      <4> QED
        BY <3>1, <4>1, <2>4
    <3>2. CASE q # r
      <4>1. \A t \in Slots : act[t].report = q => act[t].at \notin Publishing
        BY <3>2, <2>2
      <4>2. f \in known[q] <=> q \in listed[f]
        BY <4>1 DEF LoadParts, EntriesKnown
      <4> QED
        BY <3>2, <4>2, <2>4
    <3> QED
      BY <3>1, <3>2
  <2> QED
    BY <2>5, <2>6, <2>7, <2>8 DEF LoadParts
<1> QED
  BY <1>1, <1>2, <1>3, <1>4, <1>5, <1>6, <1>7, <1>8, <1>9, <1>10, <1>11, <1>12, <1>13, <1>14, <1>15, <1>16, <1>17, <1>18, <1>19, <1>20, <1>21, <1>22, <1>23, <1>24, <1>25
     DEF Next, Handle, Scan, Parse, Load

\* loadKnownIssuesFile: when nobody is at work, a report's bookkeeping is the
\* set of files it has entries for, unless it was loaded twice at once: the
\* next load withdraws every entry that is gone from it.
THEOREM BookkeepingCovers == Spec => []KnownCoversEntries
<1>1. TypeOK /\ Init => LoadParts
  BY LoadInit
<1>2. ASSUME TypeOK, LoadParts, Quiet, NEW r \in Reports \ doubled
      PROVE  known[r] = {f \in Files : r \in listed[f]}
  <2>1. \A s \in Slots : act[s].at \notin Publishing
    BY <1>2 DEF Quiet, Actors, Idle, Publishing
  <2>2. \A f \in Files : f \in known[r] <=> r \in listed[f]
    BY <1>2, <2>1 DEF LoadParts, EntriesKnown
  <2> QED
    BY <1>2, <2>2 DEF TypeOK
<1>3. TypeOK /\ LoadParts => KnownCoversEntries
  BY <1>2 DEF KnownCoversEntries
<1>4. Spec => []TypeOK
  BY DiagnosticsTyped
<1> QED
  BY <1>1, <1>3, <1>4, LoadPartsStep, PTL DEF Spec

-----------------------------------------------------------------------------
(* What the client shows. *)

Wide == LintReports \ OpenOnly

\* Reports whose loads may leave the client with less than the store.
Astray == Wide \cap (doubled \cup Uncovered)

Sending == {"ask", "send"}
Holds(a, f) == act[a].at \in Sending /\ act[a].file = f

\* Goroutine a has begun a change to what f's merged set is and will send it.
Changing(a, f) ==
    \/ At(a, "scan", "store") /\ act[a].file = f
    \/ act[a].op = "close" /\ act[a].at \in {"unlint", "unparse"} /\ act[a].file = f
    \/ /\ act[a].report \in listed[f] \cap Wide
       /\ act[a].at \in {"read", "prev"} \/ (act[a].at \in Publishing /\ f \in act[a].left)

Settled(f) ==
    listed[f] \cap Astray = {} /\ \A a \in Actors : ~Changing(a, f)

\* One goroutine at most has a set of f in hand.  Once nobody is changing it,
\* that set is the store's; and if none will be sent, it is what the client
\* shows.
AgreedOn(f) ==
    f \notin crossed =>
      /\ \A a, b \in Actors : Holds(a, f) /\ Holds(b, f) => a = b
      /\ Settled(f) =>
           /\ \A a \in Actors : Holds(a, f) => act[a].msg = Merged(f)
           /\ (\A a \in Actors : Holds(a, f) => act[a].at = "ask" /\ f \notin open)
                => shown[f] = Merged(f)

Agreed == \A f \in Files : AgreedOn(f)

\* A step that neither begins nor ends anything for f.
LEMMA AgreedStays ==
    ASSUME NEW f \in Files, AgreedOn(f),
           f \in crossed => f \in crossed', shown'[f] = shown[f],
           Settled(f)' => Settled(f) /\ Merged(f)' = Merged(f) /\ (f \in open => f \in open'),
           \A a \in Actors :
             /\ Holds(a, f)' <=> Holds(a, f)
             /\ Holds(a, f) => act'[a].msg = act[a].msg /\ act'[a].at = act[a].at
    PROVE  AgreedOn(f)'
  BY DEF AgreedOn

\* A goroutine that had and has nothing in hand, and goes on with what it began.
Aside(a, f) ==
    \/ act'[a] = act[a]
    \/ /\ act[a].at \notin Sending /\ act'[a].at \notin Sending
       /\ Changing(a, f) => Changing(a, f)'

LEMMA AgreedAside ==
    ASSUME NEW f \in Files, AgreedOn(f), \A a \in Actors : Aside(a, f),
           f \in crossed => f \in crossed', shown'[f] = shown[f],
           listed'[f] = listed[f], doubled \subseteq doubled',
           Settled(f)' => Merged(f)' = Merged(f) /\ (f \in open => f \in open')
    PROVE  AgreedOn(f)'
<1>1. \A a \in Actors : Changing(a, f) => Changing(a, f)'
  BY DEF Aside, Changing, At
<1>2. Settled(f)' => Settled(f)
  BY <1>1 DEF Settled, Astray, Uncovered
<1>3. \A a \in Actors :
        /\ Holds(a, f)' <=> Holds(a, f)
        /\ Holds(a, f) => act'[a].msg = act[a].msg /\ act'[a].at = act[a].at
  BY DEF Aside, Holds
<1> QED
  BY <1>2, <1>3, AgreedStays

\* A step of one goroutine that leaves the store and the client alone.
LEMMA AgreedAlone ==
    ASSUME TypeOK, NEW f \in Files, AgreedOn(f), NEW s \in Actors, Aside(s, f),
           \A a \in Actors \ {s} : act'[a] = act[a],
           UNCHANGED <<store, crossed, shown, doubled>>
    PROVE  AgreedOn(f)'
<1>1. Merged(f)' = Merged(f)
  BY DEF Merged, store
<1>2. \A a \in Actors : Aside(a, f)
  BY DEF Aside
<1> QED
  BY <1>1, <1>2, AgreedAside DEF store

\* Whoever sends has the store's set, and is alone or crosses.
LEMMA EmitAgrees ==
    ASSUME TypeOK, NEW f \in Files, NEW a \in Actors, NEW job \in Doing,
           Emit(a, job, f, "send")
    PROVE  AgreedOn(f)'
<1>1. /\ \A b \in Actors \ {a} : act'[b] = act[b]
      /\ act'[a].at = "send" /\ act'[a].file = f /\ act'[a].msg = Merged(f)'
  BY DEF TypeOK, Emit, Doing
<1>2. CASE Unsent(a, f)
  BY <1>2 DEF Emit, AgreedOn
<1>3. CASE ~Unsent(a, f)
  <2>1. \A b \in Actors \ {a} : ~Holds(b, f)'
    BY <1>1, <1>3 DEF Unsent, Holds, Sending
  <2>2. Holds(a, f)'
    BY <1>1 DEF Holds, Sending
  <2> QED
    BY <1>1, <2>1, <2>2 DEF AgreedOn
<1> QED
  BY <1>2, <1>3

\* What is sent of one file leaves the others alone.
LEMMA EmitElsewhere ==
    ASSUME TypeOK, NEW f \in Files, NEW g \in Files \ {f}, AgreedOn(g),
           NEW a \in Actors, NEW job \in Doing, NEW at \in Sending, Emit(a, job, f, at),
           act[a].at \notin Sending, Changing(a, g) => Changing(a, g)',
           shown' = shown, Merged(g)' = Merged(g), listed'[g] = listed[g],
           doubled' = doubled, g \in open => g \in open'
    PROVE  AgreedOn(g)'
<1>1. (\A b \in Actors \ {a} : act'[b] = act[b]) /\ act'[a].file = f
  BY DEF TypeOK, Emit, Doing
<1>2. g \in crossed => g \in crossed'
  BY DEF Emit
<1>3. \A b \in Actors : Changing(b, g) => Changing(b, g)'
  BY <1>1 DEF Changing, At
<1>4. Settled(g)' => Settled(g)
  BY <1>3 DEF Settled, Astray, Uncovered
<1>5. \A b \in Actors :
        /\ Holds(b, g)' <=> Holds(b, g)
        /\ Holds(b, g) => act'[b].msg = act[b].msg /\ act'[b].at = act[b].at
  BY <1>1 DEF Holds
<1> QED
  BY <1>2, <1>4, <1>5, AgreedStays

\* Only a scan at its store, a close or a load changes anything.
LEMMA WhoChanges ==
    ASSUME TypeOK, LoadParts, NEW a \in Actors, NEW f \in Files, Changing(a, f)
    PROVE  \/ act[a].op = "scan" /\ act[a].at = "store" /\ act[a].file = f
           \/ act[a].op = "close" /\ act[a].at \in {"unlint", "unparse"} /\ act[a].file = f
           \/ act[a].op = "load" /\ act[a].at \in {"read", "prev"} \cup Publishing /\ a \in Slots
<1>1. act[a].report \in listed[f] => act[a].report # None
  BY DiagnosticsAssumption DEF TypeOK
<1> QED
  BY <1>1 DEF Changing, At, LoadParts, ReportHeld

\* A step of one goroutine that has nothing in hand and is changing nothing.
LEMMA AgreedBystander ==
    ASSUME TypeOK, LoadParts, NEW f \in Files, AgreedOn(f), NEW s \in Actors,
           \A a \in Actors \ {s} : act'[a] = act[a],
           act[s].at \notin Sending, act'[s].at \notin Sending,
           act[s].op # "load",
           act[s].op = "scan" => act[s].at # "store",
           act[s].op # "close",
           UNCHANGED <<store, crossed, shown, doubled>>
    PROVE  AgreedOn(f)'
<1>1. Aside(s, f)
  BY WhoChanges DEF Aside
<1> QED
  BY <1>1, AgreedAlone

\* The reader's handlers.
LEMMA AgreedByReader ==
    ASSUME TypeOK, LoadParts, NEW f \in Files, AgreedOn(f), NEW g \in Files,
           DidOpen(g) \/ DiagnosticsClosed(g) \/ ClearLint \/ ClearParse(g)
    PROVE  AgreedOn(f)'
<1>a. act \in [Actors -> Doing] /\ Reader \in Actors /\ \A a \in Actors : act[a] \in Doing
  BY DEF TypeOK, Actors
<1>b. \A s \in Slots : s # Reader
  BY DiagnosticsAssumption
<1> USE <1>a
<1>1. CASE DidOpen(g)
  <2>1. /\ act[Reader] = Idle /\ g \notin open /\ open' = open \cup {g}
        /\ UNCHANGED <<lint, parse, listed, ran, shown, doubled>>
    BY <1>1 DEF DidOpen, DiagnosticsOpened
  <2>2. ~Changing(Reader, f) /\ act[Reader].at \notin Sending
    BY <2>1, WhoChanges DEF Idle, Sending
  <2>3. f # g => Merged(f)' = Merged(f)
    BY <2>1 DEF Merged
  <2>4. CASE listed[g] \cap OpenOnly # {}
    <3>1. Emit(Reader, [Idle EXCEPT !.op = "open"], g, "send") /\ [Idle EXCEPT !.op = "open"] \in Doing
      <4>1. Emit(Reader, [Idle EXCEPT !.op = "open"], g, "send")
        BY <1>1, <2>4, Zenon DEF DidOpen, DiagnosticsOpened
      <4>2. [Idle EXCEPT !.op = "open"] \in Doing
        BY JobTypes, Zenon
      <4> QED BY <4>1, <4>2, Zenon
    <3>2. f = g => AgreedOn(f)'
      BY <3>1, EmitAgrees
    <3>3. f # g => AgreedOn(f)'
      BY <3>1, <2>1, <2>2, <2>3, EmitElsewhere DEF Sending
    <3> QED
      BY <3>2, <3>3
  <2>5. CASE listed[g] \cap OpenOnly = {}
    <3>1. UNCHANGED <<act, crossed>>
      BY <1>1, <2>5 DEF DidOpen, DiagnosticsOpened
    <3>2. Merged(f)' = Merged(f)
      <4>1. {r \in listed[f] : (r \in OpenOnly => f \in open') /\ (r \in LintReports => f \notin ran)}
              = {r \in listed[f] : (r \in OpenOnly => f \in open) /\ (r \in LintReports => f \notin ran)}
        BY <2>1, <2>5
      <4> QED
        BY <2>1, <4>1 DEF Merged
    <3> QED
      BY <2>1, <3>1, <3>2, AgreedAside DEF Aside
  <2> QED
    BY <2>4, <2>5
<1>2. CASE DiagnosticsClosed(g)
  <2>1. /\ act[Reader] = Idle /\ open' = open \ {g}
        /\ act' = [act EXCEPT ![Reader] =
             [Idle EXCEPT !.op = "close", !.at = "unlint", !.file = g]]
        /\ UNCHANGED <<lint, parse, listed, ran, shown, doubled, crossed>>
    BY <1>2 DEF DiagnosticsClosed
  <2>2. /\ act'[Reader].op = "close" /\ act'[Reader].at = "unlint" /\ act'[Reader].file = g
        /\ \A a \in Actors \ {Reader} : act'[a] = act[a]
    BY <2>1 DEF Idle
  <2>3. ~Changing(Reader, f) /\ act[Reader].at \notin Sending
    BY <2>1, WhoChanges DEF Idle, Sending
  <2>4. \A a \in Actors : Aside(a, f)
    BY <2>2, <2>3 DEF Aside, Sending
  <2>5. f = g => ~Settled(f)'
    BY <2>2 DEF Settled, Changing
  <2>6. f # g => Merged(f)' = Merged(f) /\ (f \in open => f \in open')
    BY <2>1 DEF Merged
  <2> QED
    BY <2>1, <2>4, <2>5, <2>6, AgreedAside
<1>3. CASE ClearLint
  <2> DEFINE h == act[Reader].file
  <2>1. /\ act[Reader].op = "close" /\ act[Reader].at = "unlint"
        /\ lint' = [lint EXCEPT ![h] = 0] /\ lint \in [Files -> 0..MaxRev]
        /\ act' = [act EXCEPT ![Reader].at = "unparse"]
        /\ UNCHANGED <<parse, listed, ran, open, shown, doubled, crossed>>
    BY <1>3 DEF ClearLint, At, history, TypeOK
  <2>2. /\ act'[Reader].op = "close" /\ act'[Reader].at = "unparse" /\ act'[Reader].file = h
        /\ \A a \in Actors \ {Reader} : act'[a] = act[a]
    BY <2>1 DEF Doing
  <2>3. Changing(Reader, f) => f = h
    BY <2>1, <1>b, WhoChanges
  <2>4. f = h => Changing(Reader, f)'
    BY <2>2 DEF Changing
  <2>5. \A a \in Actors : Aside(a, f)
    BY <2>1, <2>2, <2>3, <2>4 DEF Aside, Sending
  <2>6. f = h => ~Settled(f)'
    BY <2>4 DEF Settled
  <2>7. f # h => Merged(f)' = Merged(f)
    BY <2>1 DEF Merged
  <2> QED
    BY <2>1, <2>5, <2>6, <2>7, AgreedAside
<1>4. CASE ClearParse(g)
  <2>1. /\ act[Reader].op = "close" /\ act[Reader].at = "unparse" /\ act[Reader].file = g
        /\ parse' = [parse EXCEPT ![g] = 0] /\ parse \in [Files -> 0..MaxRev]
        /\ UNCHANGED <<lint, listed, ran, open, shown, doubled>>
        /\ Emit(Reader, act[Reader], g, "send")
    BY <1>4 DEF ClearParse, At, TypeOK
  <2>2. CASE f = g
    BY <2>1, <2>2, EmitAgrees
  <2>3. CASE f # g
    <3>1. ~Changing(Reader, f)
      BY <2>1, <2>3, WhoChanges
    <3>2. Merged(f)' = Merged(f)
      BY <2>1, <2>3 DEF Merged
    <3> QED
      BY <2>1, <2>3, <3>1, <3>2, EmitElsewhere DEF Sending
  <2> QED
    BY <2>2, <2>3
<1> QED
  BY <1>1, <1>2, <1>3, <1>4

\* Whoever has a set in hand sends it or, if nobody wants it, lets it go.
LEMMA AgreedBySending ==
    ASSUME TypeOK, LoadParts, NEW f \in Files, AgreedOn(f), NEW s \in Actors,
           Notify(s) \/ (s \in Slots /\ AskOpen(s))
    PROVE  AgreedOn(f)'
<1>a. act \in [Actors -> Doing] /\ \A a \in Actors : act[a] \in Doing
  BY DEF TypeOK
<1> USE <1>a
<1>1. /\ act[s].at \in Sending /\ UNCHANGED <<store, crossed, doubled>>
      /\ \A a \in Actors \ {s} : act'[a] = act[a]
  BY DEF Notify, AskOpen, history, Sending
<1>2. Merged(f)' = Merged(f) /\ listed' = listed /\ open' = open
  BY <1>1 DEF Merged, store
<1>3. Resume(s).at \notin Sending /\
      (act[s].report # None => /\ Resume(s).report = act[s].report /\ Resume(s).at = "publish"
                               /\ Resume(s).left = act[s].left)
  <2>1. act[s].report # None => act[s].op = "load"
    BY DEF LoadParts, ReportHeld
  <2>2. CASE act[s].op = "scan"
    BY <2>1, <2>2 DEF Resume, Doing, Sending
  <2>3. CASE act[s].op = "load"
    BY <2>3 DEF Resume, Doing, Sending
  <2>4. CASE act[s].op = "parse"
    BY <2>1, <2>4 DEF Resume, Doing, Sending
  <2>5. CASE act[s].op \notin {"scan", "load", "parse"}
    BY <2>1, <2>5 DEF Resume, Idle, Sending
  <2> QED
    BY <2>2, <2>3, <2>4, <2>5
<1>4. ASSUME act'[s] = Resume(s) PROVE Changing(s, f) => Changing(s, f)'
  <2> SUFFICES ASSUME Changing(s, f) PROVE Changing(s, f)'
    OBVIOUS
  <2>1. act[s].report \in listed[f] \cap Wide /\ f \in act[s].left
    BY <1>1 DEF Changing, At, Sending
  <2>2. act[s].report # None
    BY <2>1, DiagnosticsAssumption DEF Wide
  <2> QED
    BY <1>2, <1>3, <1>4, <2>1, <2>2 DEF Changing, Publishing
<1>5. ASSUME act'[s] = Resume(s) PROVE Settled(f)' => Settled(f)
  <2>1. \A a \in Actors : Changing(a, f) => Changing(a, f)'
    BY <1>1, <1>2, <1>4, <1>5 DEF Changing, At
  <2> QED
    BY <1>1, <1>2, <2>1 DEF Settled, Astray, Uncovered
<1>6. ASSUME act'[s] = Resume(s), act[s].file # f, shown'[f] = shown[f] PROVE AgreedOn(f)'
  <2>1. \A a \in Actors :
          /\ Holds(a, f)' <=> Holds(a, f)
          /\ Holds(a, f) => act'[a].msg = act[a].msg /\ act'[a].at = act[a].at
    BY <1>1, <1>3, <1>6 DEF Holds
  <2> QED
    BY <1>1, <1>2, <1>5, <1>6, <2>1, AgreedStays
<1>7. ASSUME act'[s] = Resume(s), act[s].file = f, f \notin crossed,
             Settled(f) => shown'[f] = Merged(f)
      PROVE  AgreedOn(f)'
  <2>1. \A a \in Actors : Holds(a, f) => a = s
    BY <1>1, <1>7 DEF AgreedOn, Holds
  <2>2. \A a \in Actors : ~Holds(a, f)'
    BY <1>1, <1>3, <1>7, <2>1 DEF Holds
  <2> QED
    BY <1>2, <1>5, <1>7, <2>2 DEF AgreedOn
<1>8. CASE Notify(s)
  <2>1. act[s].at = "send" /\ act'[s] = Resume(s)
        /\ shown' = [shown EXCEPT ![act[s].file] = act[s].msg] /\ shown \in [Files -> Message]
    BY <1>8 DEF Notify, TypeOK
  <2>2. CASE act[s].file # f
    BY <1>6, <2>1, <2>2
  <2>3. CASE act[s].file = f /\ f \notin crossed
    <3>1. Settled(f) => act[s].msg = Merged(f)
      BY <1>1, <2>3 DEF AgreedOn, Holds
    <3> QED
      BY <1>7, <2>1, <2>3, <3>1
  <2>4. CASE f \in crossed
    BY <1>1, <2>4 DEF AgreedOn
  <2> QED
    BY <2>2, <2>3, <2>4
<1>9. CASE s \in Slots /\ AskOpen(s)
  <2>1. act[s].at = "ask" /\ shown' = shown
    BY <1>9 DEF AskOpen
  <2>2. CASE act[s].file \in open
    <3> DEFINE x == [act[s] EXCEPT !.at = "send"]
    <3>1. act'[s] = x
      BY <1>9, <2>2 DEF AskOpen
    <3>2. /\ x.at = "send" /\ x.file = act[s].file /\ x.msg = act[s].msg /\ x.op = act[s].op
          /\ x.report = act[s].report /\ x.left = act[s].left
      BY DEF Doing
    <3> HIDE DEF x
    <3>3. \A a \in Actors : Changing(a, f) <=> Changing(a, f)'
      BY <1>1, <1>2, <2>1, <3>1, <3>2 DEF Changing, At, Publishing
    <3>4. Settled(f)' <=> Settled(f)
      BY <1>1, <1>2, <3>3 DEF Settled, Astray, Uncovered
    <3>5. /\ \A a \in Actors : (Holds(a, f)' <=> Holds(a, f)) /\ act'[a].msg = act[a].msg
          /\ \A a \in Actors \ {s} : act'[a].at = act[a].at
      BY <1>1, <2>1, <3>1, <3>2 DEF Holds, Sending
    <3>6. (\A a \in Actors : Holds(a, f)' => act'[a].at = "ask" /\ f \notin open)
            => (\A a \in Actors : Holds(a, f) => act[a].at = "ask" /\ f \notin open)
      BY <2>1, <3>5
    <3> QED
      BY <1>1, <1>2, <2>1, <3>4, <3>5, <3>6 DEF AgreedOn
  <2>3. CASE act[s].file \notin open
    <3>1. act'[s] = Resume(s)
      BY <1>9, <2>3 DEF AskOpen
    <3>2. CASE act[s].file # f
      BY <1>6, <2>1, <3>1, <3>2
    <3>3. CASE act[s].file = f /\ f \notin crossed
      <4>1. \A a \in Actors : Holds(a, f) => a = s
        BY <1>1, <3>3 DEF AgreedOn, Holds
      <4>2. Settled(f) => shown[f] = Merged(f)
        BY <2>1, <2>3, <3>3, <4>1 DEF AgreedOn
      <4> QED
        BY <1>7, <2>1, <3>1, <3>3, <4>2
    <3>4. CASE f \in crossed
      BY <1>1, <3>4 DEF AgreedOn
    <3> QED
      BY <3>2, <3>3, <3>4
  <2> QED
    BY <2>2, <2>3
<1> QED
  BY <1>8, <1>9

\* CFLint's scans.
LEMMA AgreedByScan ==
    ASSUME TypeOK, LoadParts, NEW f \in Files, AgreedOn(f), NEW s \in Slots, Scan(s)
    PROVE  AgreedOn(f)'
<1>a. act \in [Actors -> Doing] /\ s \in Actors /\ \A a \in Actors : act[a] \in Doing
  BY DEF TypeOK, Actors
<1> USE <1>a
<1>1. CASE Register(s)
  <2>1. /\ act[s].op = "scan" /\ act[s].at = "start" /\ act'[s].at = "read"
        /\ UNCHANGED <<store, crossed, shown, doubled>>
    BY <1>1 DEF Register, At, history, Doing
  <2>2. ASSUME NEW a \in Actors PROVE Aside(a, f)
    <3>1. CASE a = s
      BY <2>1, <3>1, WhoChanges DEF Aside, Sending
    <3>2. CASE a # s /\ act[a].at \in {"read", "lint"} /\ act'[a] = [act[a] EXCEPT !.cancelled = TRUE]
      <4>1. /\ act'[a].at = act[a].at /\ act'[a].op = act[a].op /\ act'[a].file = act[a].file
            /\ act'[a].report = act[a].report /\ act'[a].left = act[a].left
        BY <3>2 DEF Doing
      <4> QED
        BY <2>1, <3>2, <4>1 DEF Aside, Changing, At, Sending, store
    <3>3. CASE a # s /\ act'[a] = act[a]
      BY <3>3 DEF Aside
    <3> QED
      BY <1>1, <3>1, <3>2, <3>3 DEF Register
  <2>3. Merged(f)' = Merged(f)
    BY <2>1 DEF Merged, store
  <2> QED
    BY <2>1, <2>2, <2>3, AgreedAside DEF store
<1>2. CASE ReadText(s) \/ Linted(s) \/ FinishScan(s)
  <2>1. /\ act[s].op = "scan" /\ act[s].at \in {"read", "lint", "finish"}
        /\ UNCHANGED <<store, crossed, shown, doubled>>
    BY <1>2 DEF ReadText, Linted, FinishScan, At, history
  <2>2. act'[s].at \notin Sending
    BY <1>2 DEF ReadText, Linted, FinishScan, Doing, Idle, Sending
  <2>3. \A a \in Actors \ {s} : act'[a] = act[a]
    BY <1>2 DEF ReadText, Linted, FinishScan, Idle
  <2> QED
    BY <2>1, <2>2, <2>3, AgreedBystander DEF Sending
<1>3. CASE DiagnosticsRan(s)
  <2>1. /\ act[s].op = "scan" /\ act[s].at = "ran" /\ ran' = ran \cup {act[s].file}
        /\ UNCHANGED <<lint, parse, listed, open, crossed, shown, doubled>>
    BY <1>3 DEF DiagnosticsRan, At, history
  <2>2. /\ act'[s].op = "scan" /\ act'[s].at = "store" /\ act'[s].file = act[s].file
        /\ \A a \in Actors \ {s} : act'[a] = act[a]
    BY <1>3 DEF DiagnosticsRan, At, Doing
  <2>3. \A a \in Actors : Aside(a, f)
    BY <2>1, <2>2, WhoChanges DEF Aside, Sending
  <2>4. f = act[s].file => ~Settled(f)'
    BY <2>2 DEF Settled, Changing, At
  <2>5. f # act[s].file => Merged(f)' = Merged(f)
    BY <2>1 DEF Merged
  <2> QED
    BY <2>1, <2>3, <2>4, <2>5, AgreedAside
<1>4. ASSUME NEW g \in Files, StoreLint(s, g) PROVE AgreedOn(f)'
  <2>1. /\ act[s].op = "scan" /\ act[s].at = "store" /\ act[s].file = g
        /\ lint' = [lint EXCEPT ![g] = Found(act[s].rev)] /\ lint \in [Files -> 0..MaxRev]
        /\ UNCHANGED <<parse, listed, ran, open, shown, doubled>>
        /\ Emit(s, act[s], g, "send")
    BY <1>4 DEF StoreLint, At, TypeOK
  <2>2. CASE f = g
    BY <2>1, <2>2, EmitAgrees
  <2>3. CASE f # g
    <3>1. ~Changing(s, f)
      BY <2>1, <2>3, WhoChanges
    <3>2. Merged(f)' = Merged(f)
      BY <2>1, <2>3 DEF Merged
    <3> QED
      BY <2>1, <2>3, <3>1, <3>2, EmitElsewhere DEF Sending
  <2> QED
    BY <2>2, <2>3
<1> QED
  BY <1>1, <1>2, <1>3, <1>4 DEF Scan

\* The workspace's parse scan.
LEMMA AgreedByParse ==
    ASSUME TypeOK, LoadParts, NEW f \in Files, AgreedOn(f), NEW s \in Slots, Parse(s)
    PROVE  AgreedOn(f)'
<1>a. act \in [Actors -> Doing] /\ s \in Actors /\ \A a \in Actors : act[a] \in Doing
  BY DEF TypeOK, Actors
<1> USE <1>a
<1>1. CASE ParseFile(s)
  <2>1. /\ act[s].op = "parse" /\ act[s].at = "next"
        /\ UNCHANGED <<store, crossed, shown, doubled>>
    BY <1>1, Zenon DEF ParseFile, At, history
  <2> DEFINE Moves == act'[s].at \notin Sending /\ \A a \in Actors \ {s} : act'[a] = act[a]
  <2>2. ASSUME act' = [act EXCEPT ![s] = Idle] PROVE Moves
    BY <2>2 DEF Idle, Sending
  <2>3. ASSUME NEW g \in act[s].left,
               act' = [act EXCEPT ![s].left = @ \ {g}, ![s].file = g, ![s].rev = disk[g],
                         ![s].at = IF Found(disk[g]) = 0 THEN "parsed" ELSE "store"]
        PROVE  Moves
    BY <2>3 DEF Doing, Sending
  <2>4. Moves
    BY <1>1, <2>2, <2>3, Zenon DEF ParseFile
  <2> QED
    BY <2>1, <2>4, AgreedBystander DEF Sending
<1>2. CASE ParsesClean(s)
  <2>1. /\ act[s].op = "parse" /\ act[s].at = "parsed"
        /\ UNCHANGED <<store, crossed, shown, doubled>>
    BY <1>2 DEF ParsesClean, At, history
  <2>2. act'[s].at \notin Sending /\ \A a \in Actors \ {s} : act'[a] = act[a]
    BY <1>2 DEF ParsesClean, Doing, Sending
  <2> QED
    BY <2>1, <2>2, AgreedBystander DEF Sending
<1>3. ASSUME NEW g \in Files, StoreParse(s, g) PROVE AgreedOn(f)'
  <2>1. /\ act[s].op = "parse" /\ act[s].at = "store" /\ act[s].file = g
        /\ parse' = [parse EXCEPT ![g] = Found(act[s].rev)] /\ parse \in [Files -> 0..MaxRev]
        /\ UNCHANGED <<lint, listed, ran, open, shown, doubled>>
        /\ Emit(s, act[s], g, "send")
    BY <1>3 DEF StoreParse, At, TypeOK
  <2>2. CASE f = g
    BY <2>1, <2>2, EmitAgrees
  <2>3. CASE f # g
    <3>1. ~Changing(s, f)
      BY <2>1, <2>3, WhoChanges
    <3>2. Merged(f)' = Merged(f)
      BY <2>1, <2>3 DEF Merged
    <3> QED
      BY <2>1, <2>3, <3>1, <3>2, EmitElsewhere DEF Sending
  <2> QED
    BY <2>2, <2>3
<1> QED
  BY <1>1, <1>2, <1>3 DEF Parse

\* The beginning of a load, which takes runs back: what that uncovers of a
\* report of workspace scope is the report's own, and it will be published.
LEMMA AgreedByBegin ==
    ASSUME TypeOK, LoadParts, NEW f \in Files, AgreedOn(f),
           NEW s \in Slots, NEW r \in Reports, BeginLoad(s, r)
    PROVE  AgreedOn(f)'
<1>a. act \in [Actors -> Doing] /\ s \in Actors /\ act[s] \in Doing
  BY DEF TypeOK, Actors
<1> USE <1>a
<1>1. /\ act[s].op = "load" /\ act[s].at = "next"
      /\ act'[s].at = "read" /\ act'[s].report = r
      /\ \A a \in Actors \ {s} : act'[a] = act[a]
  BY DEF BeginLoad, At, Doing
<1>2. /\ UNCHANGED <<lint, parse, listed, open, crossed, shown>>
      /\ doubled \subseteq doubled'
      /\ ran' = IF r \in LintReports THEN Outrun ELSE ran
  BY DEF BeginLoad
<1>3. \A a \in Actors : Aside(a, f)
  BY <1>1, WhoChanges DEF Aside, Sending, Publishing
<1>4. ASSUME Settled(f)' PROVE Merged(f)' = Merged(f)
  <2>1. ~(r \in listed[f] /\ r \in Wide)
    BY <1>1, <1>2, <1>4 DEF Settled, Changing
  <2>2. ASSUME NEW q \in listed[f], q \in LintReports, r \in LintReports, q \in OpenOnly => f \in open
        PROVE  f \notin ran' <=> f \notin ran
    <3>1. CASE f \in open
      BY <1>2, <2>2, <3>1 DEF Outrun
    <3>2. CASE f \notin open
      <4>1. q \in Wide
        BY <2>2, <3>2 DEF Wide
      <4>2. q = r
        BY <1>4, <2>2, <4>1 DEF Settled, Astray, Wide, Uncovered, BeginLoad
      <4> QED
        BY <2>1, <4>1, <4>2
    <3> QED
      BY <3>1, <3>2
  <2>3. {q \in listed[f] : (q \in OpenOnly => f \in open) /\ (q \in LintReports => f \notin ran')}
          = {q \in listed[f] : (q \in OpenOnly => f \in open) /\ (q \in LintReports => f \notin ran)}
    BY <1>2, <2>2
  <2> QED
    BY <1>2, <2>3 DEF Merged
<1> QED
  BY <1>2, <1>3, <1>4, AgreedAside

\* The rest of a load.
LEMMA AgreedByLoad ==
    ASSUME TypeOK, LoadParts, NEW f \in Files, AgreedOn(f), NEW s \in Slots, Load(s)
    PROVE  AgreedOn(f)'
<1>a. act \in [Actors -> Doing] /\ s \in Actors /\ \A a \in Actors : act[a] \in Doing
  BY DEF TypeOK, Actors
<1>b. \A r \in Wide : r \in Reports /\ r \notin OpenOnly
  BY DiagnosticsAssumption DEF Wide
<1> USE <1>a
<1>1. ASSUME NEW r \in Reports, BeginLoad(s, r) PROVE AgreedOn(f)'
  BY <1>1, AgreedByBegin
<1>2. CASE ReadReport(s)
  <2>1. /\ act[s].op = "load" /\ act[s].at = "read" /\ act'[s].at = "prev"
        /\ act'[s].report = act[s].report
        /\ \A a \in Actors \ {s} : act'[a] = act[a]
        /\ UNCHANGED <<store, crossed, shown, doubled>>
    BY <1>2 DEF ReadReport, At, Doing, history
  <2>2. Aside(s, f)
    BY <2>1 DEF Aside, Changing, At, Sending, Publishing, store
  <2> QED
    BY <2>1, <2>2, AgreedAlone
<1>3. CASE ReadPrevious(s)
  <2> DEFINE r == act[s].report
  <2>1. /\ act[s].op = "load" /\ act[s].at = "prev" /\ act'[s].at = "publish"
        /\ act'[s].report = r /\ act'[s].left = known[r] \cup act[s].content
        /\ \A a \in Actors \ {s} : act'[a] = act[a]
        /\ UNCHANGED <<store, crossed, shown, doubled>>
    BY <1>3 DEF ReadPrevious, Published, At, Doing, history
  <2>2. ASSUME r \in listed[f] \cap Wide, r \notin doubled PROVE f \in act'[s].left
    <3>1. \A t \in Slots : act[t].report = r => act[t].at \notin Publishing
      BY <1>b, <2>1, <2>2 DEF LoadParts, LoadsApart, Publishing
    <3>2. f \in known[r]
      BY <1>b, <2>2, <3>1 DEF LoadParts, EntriesKnown
    <3> QED
      BY <2>1, <3>2
  <2>3. CASE listed[f] \cap Astray = {}
    <3>1. Changing(s, f) => Changing(s, f)'
      BY <2>1, <2>2, <2>3 DEF Changing, At, Publishing, store, Astray
    <3>2. Aside(s, f)
      BY <2>1, <3>1 DEF Aside, Sending
    <3> QED
      BY <2>1, <3>2, AgreedAlone
  <2>4. CASE listed[f] \cap Astray # {}
    <3>1. ~Settled(f)'
      BY <2>1, <2>4 DEF Settled, store, Astray, Uncovered, Wide
    <3>2. \A a \in Actors :
            /\ Holds(a, f)' <=> Holds(a, f)
            /\ Holds(a, f) => act'[a].msg = act[a].msg /\ act'[a].at = act[a].at
      BY <2>1 DEF Holds, Sending
    <3> QED
      BY <2>1, <3>1, <3>2, AgreedStays
  <2> QED
    BY <2>3, <2>4
<1>4. ASSUME NEW g \in Files, PublishEntries(s, g) PROVE AgreedOn(f)'
  <2> DEFINE r == act[s].report
             job == [act[s] EXCEPT !.left = @ \ {g}]
             at == IF r \in OpenOnly THEN "ask" ELSE "send"
  <2>1. /\ act[s].op = "load" /\ act[s].at = "publish" /\ g \in act[s].left
        /\ listed' = [listed EXCEPT ![g] = IF g \in act[s].content THEN @ \cup {r} ELSE @ \ {r}]
        /\ listed \in [Files -> SUBSET Reports]
        /\ UNCHANGED <<lint, parse, ran, open, shown, doubled>>
        /\ Emit(s, job, g, at)
    BY <1>4 DEF PublishEntries, At, TypeOK
  <2>2. job \in Doing /\ job.left = act[s].left \ {g} /\ job.report = r /\ at \in Sending
    BY DEF Doing, Sending
  <2> HIDE DEF job
  <2>3. /\ act'[s].left = act[s].left \ {g} /\ act'[s].report = r
        /\ act'[s].at = at /\ act'[s].file = g /\ act'[s].msg = Merged(g)'
        /\ \A a \in Actors \ {s} : act'[a] = act[a]
    BY <2>1, <2>2 DEF Emit, Doing
  <2>4. CASE f # g
    <3>1. listed'[f] = listed[f] /\ Merged(f)' = Merged(f)
      BY <2>1, <2>4 DEF Merged
    <3>2. Changing(s, f) => Changing(s, f)'
      BY <2>1, <2>2, <2>3, <2>4, <3>1 DEF Changing, At, Publishing, Sending
    <3> QED
      BY <2>1, <2>2, <2>4, <3>1, <3>2, EmitElsewhere DEF Sending
  <2>5. CASE f = g /\ r \notin OpenOnly
    BY <2>1, <2>2, <2>5, EmitAgrees
  <2>6. CASE f = g /\ r \in OpenOnly
    <3>1. \A q : q # r => (q \in listed'[f] <=> q \in listed[f])
      BY <2>1, <2>6
    <3>2. r \notin Wide
      BY <2>6 DEF Wide
    <3>3. listed'[f] \cap Wide = listed[f] \cap Wide
      BY <3>1, <3>2
    <3>4. Settled(f)' => Settled(f)
      <4>1. \A a \in Actors : Changing(a, f) => Changing(a, f)'
        BY <2>1, <2>3, <3>2, <3>3 DEF Changing, At
      <4> QED
        BY <2>1, <3>3, <4>1 DEF Settled, Astray, Uncovered
    <3>5. f \notin open => Merged(f)' = Merged(f)
      <4>1. ASSUME f \notin open PROVE
              {q \in listed'[f] : (q \in OpenOnly => f \in open) /\ (q \in LintReports => f \notin ran)}
                = {q \in listed[f] : (q \in OpenOnly => f \in open) /\ (q \in LintReports => f \notin ran)}
        BY <2>6, <3>1, <4>1
      <4> QED
        BY <2>1, <4>1 DEF Merged
    <3>6. CASE Unsent(s, f)
      BY <2>1, <2>6, <3>6 DEF Emit, AgreedOn
    <3>7. CASE ~Unsent(s, f)
      <4>1. \A a \in Actors : ~Holds(a, f)
        BY <2>1, <3>7 DEF Unsent, Holds, Sending
      <4>2. \A a \in Actors : Holds(a, f)' => a = s
        BY <2>3, <4>1 DEF Holds
      <4>3. f \notin crossed' => f \notin crossed
        BY <2>1, <2>6, <3>7 DEF Emit
      <4>4. f \notin crossed /\ Settled(f) => shown[f] = Merged(f)
        BY <4>1 DEF AgreedOn
      <4>5. Holds(s, f)'
        BY <2>2, <2>3, <2>6 DEF Holds
      <4> QED
        BY <2>1, <2>3, <2>6, <3>4, <3>5, <4>2, <4>3, <4>4, <4>5 DEF AgreedOn
    <3> QED
      BY <3>6, <3>7
  <2> QED
    BY <2>4, <2>5, <2>6
<1>5. CASE AskOpen(s)
  BY <1>5, AgreedBySending
<1>6. CASE EndLoad(s)
  <2>1. /\ act[s].op = "load" /\ act[s].at = "publish" /\ act[s].left = {}
        /\ act'[s].at \notin Sending
        /\ \A a \in Actors \ {s} : act'[a] = act[a]
        /\ UNCHANGED <<lint, parse, listed, ran, open, crossed, shown, doubled>>
    BY <1>6 DEF EndLoad, At, LoadJob, Idle, history, Sending
  <2>2. ~Changing(s, f)
    BY <2>1 DEF Changing, At
  <2>3. \A a \in Actors : Aside(a, f)
    BY <2>1, <2>2 DEF Aside, Sending
  <2>4. Merged(f)' = Merged(f)
    BY <2>1 DEF Merged
  <2> QED
    BY <2>1, <2>3, <2>4, AgreedAside
<1> QED
  BY <1>1, <1>2, <1>3, <1>4, <1>5, <1>6 DEF Load

LEMMA AgreedStep == TypeOK /\ LoadParts /\ Agreed /\ [Next]_vars => Agreed'
<1> SUFFICES ASSUME TypeOK, LoadParts, Agreed, [Next]_vars, NEW f \in Files
             PROVE  AgreedOn(f)'
  BY DEF Agreed
<1>a. AgreedOn(f) /\ act \in [Actors -> Doing] /\ Slots \subseteq Actors
  BY DEF Agreed, TypeOK, Actors
<1> USE <1>a
<1>1. ASSUME act' = act, UNCHANGED <<store, crossed, shown, doubled>> PROVE AgreedOn(f)'
  <2>1. Merged(f)' = Merged(f) /\ \A a \in Actors : Aside(a, f)
    BY <1>1 DEF Merged, Aside, store
  <2> QED
    BY <1>1, <2>1, AgreedAside DEF store
<1>2. CASE UNCHANGED vars
  BY <1>1, <1>2 DEF vars, history
<1>3. ASSUME NEW r \in Reports, NEW C \in SUBSET Files, ReportChanges(r, C) PROVE AgreedOn(f)'
  BY <1>1, <1>3 DEF ReportChanges, history
<1>4. ASSUME NEW a \in Actors, Notify(a) PROVE AgreedOn(f)'
  BY <1>4, AgreedBySending
<1>5. ASSUME NEW g \in Files, DidSave(g) PROVE AgreedOn(f)'
  <2>1. /\ ScanJob(g).at \notin Sending /\ LoadJob(Reports).at \notin Sending
        /\ Idle.at \notin Sending /\ Idle.op = "none"
    BY DEF ScanJob, LoadJob, Idle, Sending
  <2>2. \A a \in Actors : act[a] = Idle => ~Changing(a, f)
    BY <2>1, WhoChanges
  <2>3. \A a \in Actors : Aside(a, f)
    <3>1. CASE \E s \in Free : act' = [act EXCEPT ![s] = ScanJob(g)]
      BY <2>1, <2>2, <3>1 DEF Free, Aside
    <3>2. CASE \E s \in Free, t \in Free :
                 act' = [act EXCEPT ![s] = ScanJob(g), ![t] = LoadJob(Reports)]
      BY <2>1, <2>2, <3>2 DEF Free, Aside
    <3> QED
      BY <1>5, <3>1, <3>2 DEF DidSave
  <2>4. UNCHANGED <<store, crossed, shown, doubled>>
    BY <1>5 DEF DidSave, history
  <2>5. Merged(f)' = Merged(f)
    BY <2>4 DEF Merged, store
  <2> QED
    BY <2>3, <2>4, <2>5, AgreedAside DEF store
<1>6. ASSUME NEW s \in Slots, NEW R, ScanWorkspace(s) \/ Reload(s, R) PROVE AgreedOn(f)'
  <2>1. act[s] = Idle /\ UNCHANGED <<store, crossed, shown, doubled>>
    <3>1. CASE ScanWorkspace(s)
      BY <3>1 DEF ScanWorkspace, Free, history
    <3>2. CASE Reload(s, R)
      BY <3>2 DEF Reload, Free, history
    <3> QED
      BY <1>6, <3>1, <3>2
  <2>2. act'[s].at = "next" /\ \A a \in Actors \ {s} : act'[a] = act[a]
    <3>1. CASE ScanWorkspace(s)
      BY <3>1 DEF ScanWorkspace, Idle
    <3>2. CASE Reload(s, R)
      BY <3>2 DEF Reload, LoadJob, Idle
    <3> QED
      BY <1>6, <3>1, <3>2
  <2>3. Idle.at = "idle" /\ Idle.op = "none"
    BY DEF Idle
  <2> QED
    BY <2>1, <2>2, <2>3, AgreedBystander DEF Sending
<1> QED
  BY <1>2, <1>3, <1>4, <1>5, <1>6, AgreedByReader, AgreedByScan, AgreedByParse, AgreedByLoad
     DEF Next, Handle

\* diagnosticsFor, "the merged set the server last published": when nobody is
\* at work the client shows what the store holds, for any files, reports and
\* goroutines, except of a file whose last publishes crossed on their way out
\* or that is in a report loaded twice at once or uncovered by another.
THEOREM ClientAlwaysAgrees == Spec => []ClientAgrees
<1>1. TypeOK /\ Init => LoadParts /\ Agreed
  <2> SUFFICES ASSUME TypeOK, Init PROVE Agreed
    BY LoadInit
  <2>1. \A f \in Files, a \in Actors : ~Holds(a, f)
    BY DEF Init, Idle, Holds, Sending
  <2>2. \A f \in Files : shown[f] = Merged(f)
    BY DEF Init, Merged, Nothing
  <2> QED
    BY <2>1, <2>2 DEF Agreed, AgreedOn
<1>2. TypeOK /\ LoadParts /\ Agreed => ClientAgrees
  <2> SUFFICES ASSUME TypeOK, LoadParts, Agreed, Quiet, NEW f \in Files \ crossed, listed[f] \cap (doubled \cup Uncovered) = {}
               PROVE  shown[f] = Merged(f)
    BY DEF ClientAgrees
  <2>1. \A a \in Actors : act[a].at = "idle" /\ act[a].op = "none"
    BY DEF Quiet, Idle
  <2>2. Settled(f)
    BY <2>1, WhoChanges DEF Settled, Astray, Publishing
  <2>3. \A a \in Actors : ~Holds(a, f)
    BY <2>1 DEF Holds, Sending
  <2> QED
    BY <2>2, <2>3 DEF Agreed, AgreedOn
<1>3. Spec => []TypeOK
  BY DiagnosticsTyped
<1>4. TypeOK /\ LoadParts /\ Agreed /\ [Next]_vars => LoadParts' /\ Agreed'
  BY LoadPartsStep, AgreedStep
<1> QED
  BY <1>1, <1>2, <1>3, <1>4, PTL DEF Spec
=============================================================================
