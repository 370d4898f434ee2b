------------------------- MODULE ConnTracker_proofs -------------------------
(***************************************************************************)
(* The tracker's invariants for any number of connections, and that it     *)
(* implements the safety part of Drain.                                    *)
(***************************************************************************)
EXTENDS ConnTracker, FiniteSetTheorems, TLAPS

\* Channels are numbered in the order they are made: a fresh one is open.
ClosedAreOld == \A n \in closed : n <= done

IInv ==
    /\ TypeOK
    /\ CountIsActive
    /\ ClosedAreOld
    /\ DoneIsLevel
    /\ NoLostWakeup

\* Any set of connections is finite, and empty exactly at cardinality 0.
LEMMA ConnSets ==
    ASSUME NEW S \in SUBSET Conns
    PROVE  /\ IsFiniteSet(S)
           /\ Cardinality(S) \in Nat
           /\ Cardinality(S) = 0 <=> S = {}
<1>1. IsFiniteSet(S)
  BY ConnsAssumption, FS_Subset
<1> QED
  BY <1>1, FS_CardinalityType, FS_EmptySet

LEMMA ActiveFinite ==
    /\ IsFiniteSet(Active)
    /\ Cardinality(Active) \in Nat
    /\ Cardinality(Active) = 0 <=> Active = {}
BY ConnSets DEF Active

\* Add counts one connection more and leaves the current channel open.
LEMMA AddStep ==
    ASSUME TypeOK, CountIsActive, NEW c \in Conns, Add(c)
    PROVE  /\ Active' = Active \cup {c} /\ c \notin Active
           /\ count' = Cardinality(Active')
<1>1. Active' = Active \cup {c} /\ c \notin Active
  BY DEF Add, Active, TypeOK
<1>2. Cardinality(Active \cup {c}) = Cardinality(Active) + 1
  BY <1>1, ActiveFinite, FS_AddElement
<1> QED
  BY <1>1, <1>2 DEF Add, CountIsActive

\* Remove takes one connection out, and never meets its early return.
LEMMA RemoveStep ==
    ASSUME TypeOK, CountIsActive, NEW c \in Conns, Remove(c)
    PROVE  /\ Active' = Active \ {c} /\ c \in Active
           /\ count # 0
           /\ count' = count - 1
           /\ count' = Cardinality(Active')
<1>1. Active' = Active \ {c} /\ c \in Active
  BY DEF Remove, Active, TypeOK
<1>2. Cardinality(Active \ {c}) = Cardinality(Active) - 1
  BY <1>1, ActiveFinite, FS_RemoveElement
<1>3. count # 0
  BY <1>1, ActiveFinite DEF CountIsActive
<1> QED
  BY <1>1, <1>2, <1>3 DEF Remove, CountIsActive, TypeOK

LEMMA InitIInv == Init => IInv
<1> SUFFICES ASSUME Init PROVE IInv
  OBVIOUS
<1>1. TypeOK
  BY ConnsAssumption DEF Init, TypeOK, WaiterAt
<1>2. Active = {}
  BY DEF Init, Active
<1>3. CountIsActive
  BY <1>2, FS_EmptySet DEF Init, CountIsActive
<1> QED
  BY <1>1, <1>3 DEF IInv, Init, ClosedAreOld, DoneIsLevel, NoLostWakeup

LEMMA StepIInv == IInv /\ [Next]_vars => IInv'
<1> SUFFICES ASSUME IInv, [Next]_vars PROVE IInv'
  OBVIOUS
<1> USE DEF IInv
<1>1. ASSUME NEW c \in Conns, Add(c),
             UNCHANGED <<closed, held, cancelled>>,
             UNCHANGED waiter \/ (waiter = "boot" /\ waiter' = "top")
      PROVE  IInv'
  <2>1. TypeOK'
    BY <1>1 DEF Add, TypeOK, WaiterAt
  <2>2. CountIsActive'
    BY <1>1, AddStep DEF CountIsActive
  <2>3. done' \notin closed'
    <3>1. CASE count = 0
      BY <1>1, <3>1 DEF Add, TypeOK, ClosedAreOld
    <3>2. CASE count # 0
      <4>1. Active # {}
        BY <3>2, ActiveFinite DEF CountIsActive
      <4>2. done \notin closed
        BY <4>1 DEF DoneIsLevel, Active
      <4> QED
        BY <1>1, <3>2, <4>2 DEF Add
    <3> QED
      BY <3>1, <3>2
  <2>4. ClosedAreOld' /\ DoneIsLevel'
    <3>1. ClosedAreOld'
      BY <1>1 DEF Add, ClosedAreOld, TypeOK
    <3>2. Active' # {}
      BY <1>1, AddStep
    <3> QED
      BY <2>3, <3>1, <3>2 DEF DoneIsLevel
  <2>5. NoLostWakeup'
    BY <1>1 DEF Add, NoLostWakeup, TypeOK
  <2> QED
    BY <2>1, <2>2, <2>4, <2>5
<1>2. ASSUME NEW c \in Conns, Connect(c) PROVE IInv'
  BY <1>1, <1>2 DEF Connect
<1>3. CASE CountStdio
  BY <1>1, <1>3, ConnsAssumption DEF CountStdio
<1>4. ASSUME NEW c \in Conns, Disconnect(c) PROVE IInv'
  <2>0. Remove(c)
    BY <1>4 DEF Disconnect
  <2>1. TypeOK'
    BY <1>4, <2>0, RemoveStep DEF Disconnect, Remove, TypeOK
  <2>2. CountIsActive'
    BY <2>0, RemoveStep DEF CountIsActive
  <2>3. ClosedAreOld'
    BY <1>4 DEF Disconnect, Remove, ClosedAreOld, TypeOK
  <2>4. DoneIsLevel'
    <3>1. Active' = {} <=> count = 1
      <4>1. Active' \in SUBSET Conns
        BY DEF Active
      <4>2. Cardinality(Active') = 0 <=> Active' = {}
        BY <4>1, ConnSets
      <4> QED
        BY <2>0, <4>2, RemoveStep DEF TypeOK
    <3>2. done \notin closed
      BY <2>0, RemoveStep DEF DoneIsLevel, Active
    <3> QED
      BY <1>4, <3>1, <3>2 DEF Disconnect, Remove, DoneIsLevel
  <2>5. NoLostWakeup'
    BY <1>4 DEF Disconnect, Remove, NoLostWakeup
  <2> QED
    BY <2>1, <2>2, <2>3, <2>4, <2>5
<1>5. CASE WaiterStep \/ Cancel \/ UNCHANGED vars
  <2> USE DEF WaiterStep, ReadDone, Wake, GraceOver, Recheck, Abandon, Cancel, vars
  <2>1. TypeOK'
    BY <1>5 DEF TypeOK, WaiterAt
  <2>2. CountIsActive' /\ ClosedAreOld' /\ DoneIsLevel'
    BY <1>5 DEF CountIsActive, ClosedAreOld, DoneIsLevel, Active
  <2>3. NoLostWakeup'
    BY <1>5 DEF NoLostWakeup, TypeOK
  <2> QED
    BY <2>1, <2>2, <2>3
<1> QED
  BY <1>2, <1>3, <1>4, <1>5 DEF Next

\* The tracker's state stays in its types, its counter is the number of
\* sessions, Done() is closed exactly at zero, and no waiter is left asleep,
\* whatever the number of connections and the order of their goroutines.
THEOREM TrackerCorrect ==
    Spec => [](TypeOK /\ CountIsActive /\ DoneIsLevel /\ NoLostWakeup)
<1>1. IInv => TypeOK /\ CountIsActive /\ DoneIsLevel /\ NoLostWakeup
  BY DEF IInv
<1> QED
  BY <1>1, InitIInv, StepIInv, PTL DEF Spec

-----------------------------------------------------------------------------
\* Every step of the tracker and its waiter is one Drain allows: in particular
\* the wait ends only with nobody counted, or cancelled.
THEOREM RefinesDrain == Spec => Abstract!DrainSafety
<1> USE DEF Abstract!drainVars
<1>1. Init => Abstract!DrainInit
  BY DEF Init, Abstract!DrainInit, Active
<1>2. IInv /\ [Next]_vars => [Abstract!DrainNext]_(Abstract!drainVars)
  <2> SUFFICES ASSUME IInv, [Next]_vars
               PROVE  [Abstract!DrainNext]_(Abstract!drainVars)
    OBVIOUS
  <2> USE DEF IInv
  <2>1. ASSUME NEW c \in Conns, Connect(c) PROVE Abstract!Join(c)
    BY <2>1, AddStep DEF Connect, Abstract!Join
  <2>2. ASSUME NEW c \in Conns, Disconnect(c) PROVE Abstract!Leave(c)
    BY <2>2, RemoveStep DEF Disconnect, Abstract!Leave
  <2>3. CASE CountStdio
    <3>1. Abstract!Begin(Stdio)
      BY <2>3, AddStep, ConnsAssumption DEF CountStdio, Abstract!Begin
    <3> QED
      BY <3>1, ConnsAssumption DEF Abstract!DrainNext
  <2>4. CASE ReadDone \/ Wake \/ GraceOver \/ UNCHANGED vars
    BY <2>4 DEF ReadDone, Wake, GraceOver, vars, Active
  <2>5. CASE Recheck
    <3>1. CASE count = 0
      <4>1. Active = {}
        BY <3>1, ActiveFinite DEF CountIsActive
      <4>2. Active' = Active
        BY <2>5 DEF Recheck, Active
      <4>3. Abstract!Finish
        BY <2>5, <3>1, <4>1, <4>2 DEF Recheck, Abstract!Finish
      <4> QED
        BY <4>3 DEF Abstract!DrainNext
    <3>2. CASE count # 0
      BY <2>5, <3>2 DEF Recheck, Active
    <3> QED
      BY <3>1, <3>2
  <2>6. CASE Abandon
    <3>1. Abstract!Finish
      BY <2>6 DEF Abandon, Abstract!Finish, Active
    <3> QED
      BY <3>1 DEF Abstract!DrainNext
  <2>7. CASE Cancel
    <3>1. Abstract!CancelWait
      BY <2>7 DEF Cancel, Abstract!CancelWait, Active
    <3> QED
      BY <3>1 DEF Abstract!DrainNext
  <2> QED
    BY <2>1, <2>2, <2>3, <2>4, <2>5, <2>6, <2>7
       DEF Next, WaiterStep, Abstract!DrainNext
<1> QED
  BY <1>1, <1>2, InitIInv, StepIInv, PTL DEF Spec, Abstract!DrainSafety
=============================================================================
