--------------------------- MODULE Daemon_proofs ---------------------------
(***************************************************************************)
(* What holds of the processes sharing a socket for any number of them, of *)
(* crashes and of failing calls.  Always: a tracker counts its sessions, a *)
(* daemon nobody needs has a step left to its end, and each daemon uses    *)
(* its tracker as Drain says.  While editors start one at a time: no two   *)
(* daemons answer for the project, and the socket's file name leads to     *)
(* the one that does.                                                      *)
(***************************************************************************)
EXTENDS Daemon, FiniteSetTheorems, TLAPS

-----------------------------------------------------------------------------
(* Counters *)

\* Sessions belong to processes that became daemons, and a process counts
\* nothing before it does.
SessionsHaveDaemons ==
    /\ \A c \in Procs : at[c] # None => role[at[c]] \in {"daemon", "gone"}
    /\ \A c \in Procs : at[c] = None => sess[c] = "none"
    /\ \A c \in Procs : role[c] = "daemon" => at[c] = c
    /\ \A c \in Procs : role[c] \in {"off", "dialing"} => at[c] = None /\ count[c] = 0
    /\ \A c \in Procs : role[c] = "proxy" => count[c] = 0
    /\ \A d \in Procs : srv[d] # "none" => role[d] \in {"daemon", "gone"}

CountInv == TypeOK /\ SessionsHaveDaemons /\ CountIsSessions

LEMMA ProcSets ==
    ASSUME NEW S \in SUBSET Procs
    PROVE  /\ IsFiniteSet(S)
           /\ Cardinality(S) \in Nat
           /\ Cardinality(S) = 0 <=> S = {}
<1>1. IsFiniteSet(S)
  BY ProcsAssumption, FS_Subset
<1> QED
  BY <1>1, FS_CardinalityType, FS_EmptySet

\* One session more, one session less, and none moved.
LEMMA CountedAdd ==
    ASSUME TypeOK, NEW d \in Procs, NEW c \in Procs, at[c] = d, sess[c] # "counted",
           sess' = [sess EXCEPT ![c] = "counted"], at' = at
    PROVE  /\ Cardinality(Counted(d)') = Cardinality(Counted(d)) + 1
           /\ \A e \in Procs \ {d} : Counted(e)' = Counted(e)
<1>1. Counted(d)' = Counted(d) \cup {c} /\ c \notin Counted(d)
  BY DEF Counted, TypeOK
<1>2. \A e \in Procs \ {d} : Counted(e)' = Counted(e)
  BY DEF Counted, TypeOK
<1>3. IsFiniteSet(Counted(d))
  BY ProcSets DEF Counted
<1> QED
  BY <1>1, <1>2, <1>3, FS_AddElement

LEMMA CountedRemove ==
    ASSUME TypeOK, NEW d \in Procs, NEW c \in Procs, at[c] = d, sess[c] = "counted",
           sess' = [sess EXCEPT ![c] = "removed"], at' = at
    PROVE  /\ Cardinality(Counted(d)') = Cardinality(Counted(d)) - 1
           /\ \A e \in Procs \ {d} : Counted(e)' = Counted(e)
<1>1. Counted(d)' = Counted(d) \ {c} /\ c \in Counted(d)
  BY DEF Counted, TypeOK
<1>2. \A e \in Procs \ {d} : Counted(e)' = Counted(e)
  BY DEF Counted, TypeOK
<1>3. IsFiniteSet(Counted(d))
  BY ProcSets DEF Counted
<1> QED
  BY <1>1, <1>2, <1>3, FS_RemoveElement

LEMMA InitCountInv == Init => CountInv
<1> SUFFICES ASSUME Init PROVE CountInv
  OBVIOUS
<1>1. TypeOK
  BY ProcsAssumption, BoundsAssumption
     DEF Init, TypeOK, ServeAt, SessionAt, DrainAt
<1> QED
  BY <1>1 DEF Init, CountInv, SessionsHaveDaemons, CountIsSessions

LEMMA StepCountInv == CountInv /\ [Next]_vars => CountInv'
<1> SUFFICES ASSUME CountInv, [Next]_vars PROVE CountInv'
  OBVIOUS
<1> USE ProcsAssumption, BoundsAssumption DEF CountInv, failures
<1>u. CASE UNCHANGED vars
  BY <1>u DEF vars, TypeOK, SessionsHaveDaemons, CountIsSessions, Counted
\* Steps that move no session in or out of "counted".
<1>1. ASSUME TypeOK', SessionsHaveDaemons', UNCHANGED count,
             \A d \in Procs : role'[d] = "daemon"
               => role[d] = "daemon" /\ Counted(d)' = Counted(d)
      PROVE  CountInv'
  BY <1>1 DEF CountIsSessions
<1>2. ASSUME NEW p \in Procs, Launch(p) PROVE CountInv'
  <2>1. TypeOK'
    BY <1>2 DEF Launch, TypeOK, ServeAt, SessionAt, DrainAt
  <2>2. SessionsHaveDaemons'
    BY <1>2 DEF Launch, TypeOK, SessionsHaveDaemons
  <2>3. UNCHANGED count /\ \A d \in Procs : role'[d] = "daemon"
           => role[d] = "daemon" /\ Counted(d)' = Counted(d)
    BY <1>2 DEF Launch, TypeOK, Counted
  <2> QED
    BY <1>1, <2>1, <2>2, <2>3
<1>3. ASSUME NEW p \in Procs, RemovePath(p) PROVE CountInv'
  <2>1. TypeOK'
    BY <1>3 DEF RemovePath, TypeOK, ServeAt, SessionAt, DrainAt
  <2>2. SessionsHaveDaemons'
    BY <1>3 DEF RemovePath, TypeOK, SessionsHaveDaemons
  <2>3. UNCHANGED count /\ \A d \in Procs : role'[d] = "daemon"
           => role[d] = "daemon" /\ Counted(d)' = Counted(d)
    BY <1>3 DEF RemovePath, TypeOK, Counted
  <2> QED
    BY <1>1, <2>1, <2>2, <2>3
<1>4. ASSUME NEW p \in Procs, Listen(p) PROVE CountInv'
  <2>1. TypeOK'
    BY <1>4 DEF Listen, TypeOK, ServeAt, SessionAt, DrainAt
  <2>2. SessionsHaveDaemons'
    BY <1>4 DEF Listen, TypeOK, SessionsHaveDaemons
  <2>3. UNCHANGED count /\ \A d \in Procs : role'[d] = "daemon"
           => role[d] = "daemon" /\ Counted(d)' = Counted(d)
    BY <1>4 DEF Listen, TypeOK, Counted
  <2> QED
    BY <1>1, <2>1, <2>2, <2>3
<1>5. ASSUME NEW p \in Procs, CloseEditor(p) PROVE CountInv'
  <2>1. TypeOK'
    BY <1>5 DEF CloseEditor, TypeOK, ServeAt, SessionAt, DrainAt
  <2>2. SessionsHaveDaemons'
    BY <1>5 DEF CloseEditor, TypeOK, SessionsHaveDaemons
  <2>3. UNCHANGED count /\ \A d \in Procs : role'[d] = "daemon"
           => role[d] = "daemon" /\ Counted(d)' = Counted(d)
    BY <1>5 DEF CloseEditor, TypeOK, Counted
  <2> QED
    BY <1>1, <2>1, <2>2, <2>3
<1>6. ASSUME NEW p \in Procs, StartGrace(p) PROVE CountInv'
  <2>1. TypeOK'
    BY <1>6 DEF StartGrace, TypeOK, ServeAt, SessionAt, DrainAt
  <2>2. SessionsHaveDaemons'
    BY <1>6 DEF StartGrace, TypeOK, SessionsHaveDaemons
  <2>3. UNCHANGED count /\ \A d \in Procs : role'[d] = "daemon"
           => role[d] = "daemon" /\ Counted(d)' = Counted(d)
    BY <1>6 DEF StartGrace, TypeOK, Counted
  <2> QED
    BY <1>1, <2>1, <2>2, <2>3
<1>7. ASSUME NEW p \in Procs, Recheck(p) PROVE CountInv'
  <2>1. TypeOK'
    BY <1>7 DEF Recheck, Rechecked, TypeOK, ServeAt, SessionAt, DrainAt
  <2>2. SessionsHaveDaemons'
    BY <1>7 DEF Recheck, Rechecked, TypeOK, SessionsHaveDaemons
  <2>3. UNCHANGED count /\ \A d \in Procs : role'[d] = "daemon"
           => role[d] = "daemon" /\ Counted(d)' = Counted(d)
    BY <1>7 DEF Recheck, Rechecked, TypeOK, Counted
  <2> QED
    BY <1>1, <2>1, <2>2, <2>3
<1>8. ASSUME NEW p \in Procs, Cancel(p) PROVE CountInv'
  <2>1. TypeOK'
    BY <1>8 DEF Cancel, TypeOK, ServeAt, SessionAt, DrainAt
  <2>2. SessionsHaveDaemons'
    BY <1>8 DEF Cancel, TypeOK, SessionsHaveDaemons
  <2>3. UNCHANGED count /\ \A d \in Procs : role'[d] = "daemon"
           => role[d] = "daemon" /\ Counted(d)' = Counted(d)
    BY <1>8 DEF Cancel, TypeOK, Counted
  <2> QED
    BY <1>1, <2>1, <2>2, <2>3
<1>9. ASSUME NEW p \in Procs, Unlink(p) PROVE CountInv'
  <2>1. TypeOK'
    BY <1>9 DEF Unlink, TypeOK, ServeAt, SessionAt, DrainAt
  <2>2. SessionsHaveDaemons'
    BY <1>9 DEF Unlink, TypeOK, SessionsHaveDaemons
  <2>3. UNCHANGED count /\ \A d \in Procs : role'[d] = "daemon"
           => role[d] = "daemon" /\ Counted(d)' = Counted(d)
    BY <1>9 DEF Unlink, TypeOK, Counted
  <2> QED
    BY <1>1, <2>1, <2>2, <2>3
<1>9a. ASSUME NEW p \in Procs, ServeFails(p) PROVE CountInv'
  <2>1. TypeOK'
    BY <1>9a DEF ServeFails, TypeOK, ServeAt, SessionAt
  <2>2. SessionsHaveDaemons'
    BY <1>9a DEF ServeFails, TypeOK, SessionsHaveDaemons
  <2>3. UNCHANGED count /\ \A d \in Procs : role'[d] = "daemon"
           => role[d] = "daemon" /\ Counted(d)' = Counted(d)
    BY <1>9a DEF ServeFails, TypeOK, Counted
  <2> QED
    BY <1>1, <2>1, <2>2, <2>3
<1>10. ASSUME NEW p \in Procs, CloseListener(p) PROVE CountInv'
  <2>1. TypeOK'
    BY <1>10 DEF CloseListener, TypeOK, ServeAt, SessionAt, DrainAt
  <2>2. SessionsHaveDaemons'
    BY <1>10 DEF CloseListener, TypeOK, SessionsHaveDaemons
  <2>3. UNCHANGED count /\ \A d \in Procs : role'[d] = "daemon"
           => role[d] = "daemon" /\ Counted(d)' = Counted(d)
    BY <1>10 DEF CloseListener, TypeOK, Counted
  <2> QED
    BY <1>1, <2>1, <2>2, <2>3
<1>11. ASSUME NEW p \in Procs, DialAnswered(p) PROVE CountInv'
  <2>0. path \in Procs /\ role[path] \in {"daemon", "gone"}
    BY <1>11 DEF DialAnswered, Answered, Listening, SessionsHaveDaemons
  <2>1. TypeOK'
    BY <1>11, <2>0 DEF DialAnswered, TypeOK, SessionAt
  <2>2. SessionsHaveDaemons'
    BY <1>11, <2>0 DEF DialAnswered, TypeOK, SessionsHaveDaemons
  <2>3. UNCHANGED count /\ \A d \in Procs : role'[d] = "daemon"
           => role[d] = "daemon" /\ Counted(d)' = Counted(d)
    BY <1>11 DEF DialAnswered, TypeOK, Counted, SessionsHaveDaemons
  <2> QED
    BY <1>1, <2>1, <2>2, <2>3
<1>12. ASSUME NEW p \in Procs, DialFails(p) PROVE CountInv'
  <2> USE <1>12 DEF DialFails, BecomeDaemon
  <2>1. TypeOK'
    BY DEF TypeOK, ServeAt
  <2>2. SessionsHaveDaemons'
    BY DEF TypeOK, SessionsHaveDaemons
  <2>3. Counted(p)' = {} /\ count[p] = 0
    BY DEF TypeOK, Counted, SessionsHaveDaemons
  <2>4. \A d \in Procs \ {p} : Counted(d)' = Counted(d) /\ role'[d] = role[d]
    BY DEF TypeOK, Counted, SessionsHaveDaemons
  <2> QED
    BY <2>1, <2>2, <2>3, <2>4, FS_EmptySet DEF CountIsSessions
<1>13. ASSUME NEW p \in Procs, CountOwn(p) PROVE CountInv'
  <2> USE <1>13 DEF CountOwn
  <2>1. TypeOK'
    BY DEF TypeOK, SessionAt, DrainAt
  <2>2. SessionsHaveDaemons'
    BY DEF TypeOK, SessionsHaveDaemons
  <2>3. /\ Cardinality(Counted(p)') = Cardinality(Counted(p)) + 1
        /\ \A e \in Procs \ {p} : Counted(e)' = Counted(e)
    BY CountedAdd DEF SessionsHaveDaemons
  <2> QED
    BY <2>1, <2>2, <2>3 DEF CountIsSessions, TypeOK
<1>14. ASSUME NEW p \in Procs, NEW c \in Procs, Accept(p, c) PROVE CountInv'
  <2>1. TypeOK'
    BY <1>14 DEF Accept, ToAccept, TypeOK, SessionAt
  <2>2. SessionsHaveDaemons'
    BY <1>14 DEF Accept, ToAccept, TypeOK, SessionsHaveDaemons
  <2>3. UNCHANGED count /\ \A d \in Procs : role'[d] = "daemon"
           => role[d] = "daemon" /\ Counted(d)' = Counted(d)
    BY <1>14 DEF Accept, ToAccept, TypeOK, Counted
  <2> QED
    BY <1>1, <2>1, <2>2, <2>3
<1>15. ASSUME NEW p \in Procs, NEW c \in Procs, Count(p, c) PROVE CountInv'
  <2> USE <1>15 DEF Count
  <2>1. TypeOK'
    BY DEF TypeOK, SessionAt
  <2>2. SessionsHaveDaemons'
    BY DEF TypeOK, SessionsHaveDaemons
  <2>3. /\ Cardinality(Counted(p)') = Cardinality(Counted(p)) + 1
        /\ \A e \in Procs \ {p} : Counted(e)' = Counted(e)
    BY CountedAdd
  <2> QED
    BY <2>1, <2>2, <2>3 DEF CountIsSessions, TypeOK
<1>16. ASSUME NEW p \in Procs, NEW c \in Procs, Depart(p, c) PROVE CountInv'
  <2> USE <1>16 DEF Depart, Remaining
  <2>1. /\ Cardinality(Counted(p)') = Cardinality(Counted(p)) - 1
        /\ \A e \in Procs \ {p} : Counted(e)' = Counted(e)
    BY CountedRemove
  <2>2. count[p] = Cardinality(Counted(p)) /\ Counted(p)' \in SUBSET Procs
    BY DEF CountIsSessions, Counted
  <2>3. count[p] - 1 \in Nat
    BY <2>1, <2>2, ProcSets
  <2>4. TypeOK'
    BY <2>3 DEF TypeOK, SessionAt, DrainAt
  <2>5. SessionsHaveDaemons'
    BY DEF TypeOK, SessionsHaveDaemons
  <2> QED
    BY <2>1, <2>2, <2>4, <2>5 DEF CountIsSessions, TypeOK
<1>17. ASSUME NEW p \in Procs, Exit(p) \/ Crash(p) PROVE CountInv'
  <2> USE DEF Exit, Crash, Vanish
  <2>1. TypeOK'
    BY <1>17 DEF TypeOK, ServeAt, SessionAt
  <2>2. SessionsHaveDaemons'
    BY <1>17 DEF TypeOK, SessionsHaveDaemons
  <2>3. UNCHANGED count /\ \A d \in Procs : role'[d] = "daemon"
           => role[d] = "daemon" /\ Counted(d)' = Counted(d)
    BY <1>17 DEF TypeOK, Counted
  <2> QED
    BY <1>1, <2>1, <2>2, <2>3
<1> QED
  BY <1>u, <1>2, <1>3, <1>4, <1>5, <1>6, <1>7, <1>8, <1>9, <1>9a, <1>10, <1>11, <1>12, <1>13, <1>14, <1>15, <1>16, <1>17
     DEF Next, Startup, Serving, Draining

\* In every run, however starts and crashes interleave, the state keeps its
\* types and a daemon's counter is the number of sessions it has counted.
THEOREM CountersCorrect == Spec => [](TypeOK /\ CountIsSessions)
<1>1. CountInv => TypeOK /\ CountIsSessions
  BY DEF CountInv
<1> QED
  BY <1>1, InitCountInv, StepCountInv, PTL DEF Spec

-----------------------------------------------------------------------------
(* Editors starting one at a time, whatever calls of Serve fail           *)

\* What keeps the file name and the listening daemon together: one process is
\* starting at most, nobody listens from its failed dial until it binds, and a
\* daemon that accepts, cancelled or not, is the one the name leads to.  A bind
\* never finds the name taken, so a daemon is deaf only if a call of Serve failed.
SerialInv ==
    /\ CountInv
    /\ \A p, q \in Procs : Starting(p) /\ Starting(q) => p = q
    /\ \A d \in Procs : srv[d] = "accept" => path = d /\ role[d] = "daemon"
    /\ \A p, d \in Procs : srv[p] \in {"remove", "listen"} => srv[d] # "accept"
    /\ \A p \in Procs : srv[p] = "listen" => path = None
    /\ \A p \in Procs : srv[p] \in {"remove", "listen"} => role[p] = "daemon"
    /\ \A d \in Procs : srv[d] = "deaf" => faults # 0
    /\ \A d \in Procs : Host(d) => srv[d] \in {"remove", "listen", "accept", "deaf"}

LEMMA InitSerialInv == Init => SerialInv
BY InitCountInv DEF Init, SerialInv, Starting, Host

LEMMA StepSerialInv ==
    ASSUME SerialStarts, SerialInv, [Next]_vars
    PROVE  SerialInv'
<1> USE ProcsAssumption DEF SerialInv, failures
<1>0. CountInv'
  BY StepCountInv
<1>t. TypeOK
  BY DEF CountInv
<1>s. SessionsHaveDaemons
  BY DEF CountInv
<1>u. CASE UNCHANGED vars
  BY <1>0, <1>u DEF vars, Starting, Host
<1>1. ASSUME NEW p \in Procs, Launch(p) PROVE SerialInv'
  BY <1>0, <1>1, <1>t DEF Launch, Starting, Host, TypeOK
<1>2. ASSUME NEW p \in Procs, DialAnswered(p) PROVE SerialInv'
  BY <1>0, <1>2, <1>t DEF DialAnswered, Starting, Host, TypeOK
<1>3. ASSUME NEW p \in Procs, DialFails(p) PROVE SerialInv'
  <2>1. \A d \in Procs : srv[d] # "accept"
    BY <1>3 DEF DialFails, Answered, Listening
  <2>2. \A q \in Procs : srv[q] \notin {"remove", "listen"}
    BY <1>3, <1>t DEF DialFails, Starting
  <2>3. cancelled[p] = FALSE \/ cancelled[p] = TRUE
    BY <1>t DEF TypeOK
  <2> QED
    BY <1>0, <1>3, <2>1, <2>2, <1>t DEF DialFails, BecomeDaemon, Starting, Host, TypeOK
<1>4. ASSUME NEW p \in Procs, RemovePath(p) PROVE SerialInv'
  BY <1>0, <1>4, <1>t DEF RemovePath, Starting, Host, TypeOK
<1>5. ASSUME NEW p \in Procs, Listen(p) PROVE SerialInv'
  <2>1. \A q \in Procs \ {p} : srv[q] \notin {"remove", "listen", "accept"}
    BY <1>5, <1>t DEF Listen, Starting
  <2> QED
    BY <1>0, <1>5, <2>1, <1>t DEF Listen, Starting, Host, TypeOK
<1>6. ASSUME NEW p \in Procs, CountOwn(p) \/ StartGrace(p) \/ Recheck(p) \/ Cancel(p)
      PROVE SerialInv'
  BY <1>0, <1>6, <1>t DEF CountOwn, StartGrace, Recheck, Cancel, Starting, Host, TypeOK
<1>7. ASSUME NEW p \in Procs, NEW c \in Procs,
             Accept(p, c) \/ Count(p, c) \/ Depart(p, c)
      PROVE SerialInv'
  BY <1>0, <1>7, <1>t DEF Accept, Count, Depart, Starting, Host, TypeOK
<1>8. ASSUME NEW p \in Procs, CloseEditor(p) PROVE SerialInv'
  BY <1>0, <1>8, <1>t DEF CloseEditor, Starting, Host, TypeOK
<1>9. ASSUME NEW p \in Procs, Unlink(p) \/ CloseListener(p) PROVE SerialInv'
  BY <1>0, <1>9, <1>t DEF Unlink, CloseListener, Starting, Host, TypeOK
<1>10. ASSUME NEW p \in Procs, Exit(p) \/ Crash(p) PROVE SerialInv'
  BY <1>0, <1>10, <1>t DEF Exit, Crash, Vanish, Starting, Host, TypeOK
<1>11. ASSUME NEW p \in Procs, ServeFails(p) PROVE SerialInv'
  <2>1. faults' = faults + 1 /\ faults' # 0
    BY <1>11, <1>t, BoundsAssumption DEF ServeFails, TypeOK
  <2>2. srv' = [srv EXCEPT ![p] = "deaf"] /\ UNCHANGED <<role, cancelled>>
    BY <1>11 DEF ServeFails
  <2>3. \A d \in Procs : srv'[d] # "deaf" => srv'[d] = srv[d] /\ d # p
    BY <2>2, <1>t DEF TypeOK
  <2>4. path' = path \/ (path' = None /\ srv[p] = "accept")
    BY <1>11 DEF ServeFails
  <2>5. \A d \in Procs : srv'[d] = "accept" => path' = d
    BY <2>3, <2>4
  <2>6. \A d \in Procs : srv'[d] = "listen" => path' = None
    BY <2>3, <2>4
  <2>7. \A q, r \in Procs : Starting(q)' /\ Starting(r)' => q = r
    BY <2>2, <2>3 DEF Starting
  <2>8. \A d \in Procs : Host(d)' => srv'[d] \in {"remove", "listen", "accept", "deaf"}
    BY <2>2, <2>3 DEF Host
  <2> QED
    BY <1>0, <2>1, <2>2, <2>3, <2>5, <2>6, <2>7, <2>8
<1> QED
  BY <1>u, <1>1, <1>2, <1>3, <1>4, <1>5, <1>6, <1>7, <1>8, <1>9, <1>10, <1>11
     DEF Next, Startup, Serving, Draining

\* A host that has not lost its socket to a failing call: it is about to bind, or
\* accepts.
Answering(d) == Host(d) /\ srv[d] # "deaf"

OneAnswers == \A d, e \in Procs : Answering(d) /\ Answering(e) => d = e

\* While editors start one at a time, whatever daemons are killed and calls fail: a
\* serving daemon is the one an editor would reach, and one at most answers or is
\* about to; as long as no call of Serve failed, one process at most hosts the
\* project and none lost its bind.
THEOREM OneReachableDaemon ==
    ASSUME SerialStarts
    PROVE  Spec => [](/\ NamedWhileServing /\ OneAnswers
                      /\ faults = 0 => OneDaemon /\ NeverDeaf)
<1>1. ASSUME SerialInv
      PROVE  /\ NamedWhileServing /\ OneAnswers
             /\ faults = 0 => OneDaemon /\ NeverDeaf
  <2>1. NamedWhileServing
    BY <1>1 DEF SerialInv, NamedWhileServing, Host
  <2>2. OneAnswers
    BY <1>1 DEF SerialInv, OneAnswers, Answering, Host, Starting
  <2>3. faults = 0 => NeverDeaf
    BY <1>1 DEF SerialInv, NeverDeaf
  <2>4. faults = 0 => OneDaemon
    BY <2>2, <2>3 DEF OneAnswers, Answering, OneDaemon, NeverDeaf, Host
  <2> QED
    BY <2>1, <2>2, <2>3, <2>4
<1>2. SerialInv /\ [Next]_vars => SerialInv'
  BY StepSerialInv
<1> QED
  BY <1>1, <1>2, InitSerialInv, PTL DEF Spec

\* While editors start one at a time, a daemon shutting down removes its own
\* socket's name, or none.
THEOREM UnlinksOnlyItsOwn ==
    ASSUME SerialStarts
    PROVE  Spec => UnlinksOwn
<1>1. SerialInv /\ [Next]_vars =>
        [\A d \in Procs :
           srv[d] = "accept" /\ srv'[d] = "unlinked" => path \in {d, None}]_vars
  BY DEF SerialInv
<1>2. SerialInv /\ [Next]_vars => SerialInv'
  BY StepSerialInv
<1> QED
  BY <1>1, <1>2, InitSerialInv, PTL DEF Spec, UnlinksOwn

\* A process becomes a daemon only when its dial fails.
LEMMA OnlyDialsBecomeDaemons ==
    ASSUME TypeOK, [Next]_vars, NEW p \in Procs, role[p] = "dialing", role'[p] = "daemon"
    PROVE  ~Answered
<1> USE DEF failures
<1>1. ASSUME NEW q \in Procs, DialFails(q) PROVE ~Answered
  BY <1>1 DEF DialFails
<1>2. ASSUME UNCHANGED role PROVE FALSE
  BY <1>2
<1>3. ASSUME NEW q \in Procs, Launch(q) \/ DialAnswered(q) \/ CloseEditor(q) PROVE FALSE
  BY <1>3 DEF Launch, DialAnswered, CloseEditor, TypeOK
<1>4. ASSUME NEW q \in Procs, Exit(q) \/ Crash(q) PROVE FALSE
  BY <1>4 DEF Exit, Crash, Vanish, TypeOK
<1>5. ASSUME NEW q \in Procs, NEW c \in Procs, Accept(q, c) \/ Count(q, c) \/ Depart(q, c)
      PROVE  FALSE
  BY <1>2, <1>5 DEF Accept, Count, Depart
<1>6. ASSUME NEW q \in Procs,
             \/ CountOwn(q) \/ RemovePath(q) \/ Listen(q) \/ ServeFails(q) \/ StartGrace(q)
             \/ Recheck(q) \/ Cancel(q) \/ Unlink(q) \/ CloseListener(q)
      PROVE  FALSE
  BY <1>2, <1>6 DEF CountOwn, RemovePath, Listen, ServeFails, StartGrace, Recheck, Cancel, Unlink,
                    CloseListener
<1> QED
  BY <1>1, <1>2, <1>3, <1>4, <1>5, <1>6 DEF vars, Next, Startup, Serving, Draining

\* "Subsequent sessions connect to the existing daemon", while editors start one
\* at a time: nobody becomes a daemon beside one that accepts.
THEOREM SubsequentAlwaysConnect ==
    ASSUME SerialStarts
    PROVE  Spec => SubsequentSessionsConnect
<1>1. SerialInv /\ [Next]_vars =>
        [\A p, d \in Procs :
           role[p] = "dialing" /\ role'[p] = "daemon" => ~(Host(d) /\ srv[d] = "accept")]_vars
  <2> SUFFICES ASSUME SerialInv, [Next]_vars, NEW p \in Procs, NEW d \in Procs,
                      role[p] = "dialing", role'[p] = "daemon", srv[d] = "accept"
               PROVE  FALSE
    OBVIOUS
  <2>1. path = d /\ Answered
    BY DEF SerialInv, Answered, Listening
  <2> QED
    BY <2>1, OnlyDialsBecomeDaemons DEF SerialInv, CountInv
<1>2. SerialInv /\ [Next]_vars => SerialInv'
  BY StepSerialInv
<1> QED
  BY <1>1, <1>2, InitSerialInv, PTL DEF Spec, SubsequentSessionsConnect
-----------------------------------------------------------------------------
(* What an editor or a drain waits for, however editors start              *)
(*                                                                         *)
(* That an answered dial is settled and that a deserted daemon exits is    *)
(* liveness.  What can go wrong there is a state from which nobody would   *)
(* take the next step, and that is a matter of invariants.                 *)

\* The drain begins with the daemon's own session, and no zero passes a wait by.
Drained ==
    /\ \A d \in Procs : drain[d] # "off" => role[d] \in {"daemon", "gone"}
    /\ \A d \in Procs : role[d] = "daemon" => (drain[d] = "off" <=> sess[d] = "none")
    /\ \A d \in Procs : role[d] = "daemon" /\ drain[d] = "wait" => count[d] # 0
    /\ \A d \in Procs : cancelled[d] => drain[d] = "final"

\* A session that is not over has a daemon, and one that was not accepted a socket
\* that will be.
Attended ==
    /\ \A d \in Procs : Listening(d) => role[d] = "daemon"
    /\ \A c \in Procs : sess[c] \in {"backlog", "accepted", "counted"} => role[at[c]] = "daemon"
    /\ \A c \in Procs : sess[c] = "backlog" => Listening(at[c])
    /\ \A d \in Procs : role[d] = "daemon" => sess[d] \in {"none", "counted", "removed"}

LifeInv == CountInv /\ Drained /\ Attended

LEMMA InitLifeInv == Init => LifeInv
BY InitCountInv DEF Init, LifeInv, Drained, Attended, Listening

\* The sessions and the daemons stay what they are.
LEMMA LifeAside ==
    ASSUME LifeInv, CountInv', UNCHANGED <<role, srv, at, sess, count, drain, cancelled>>
    PROVE  LifeInv'
BY DEF LifeInv, Drained, Attended, Listening

LEMMA StepLifeInv ==
    ASSUME LifeInv, [Next]_vars
    PROVE  LifeInv'
<1> USE ProcsAssumption DEF failures
<1>0. CountInv'
  BY StepCountInv DEF LifeInv
<1>t. TypeOK /\ TypeOK' /\ SessionsHaveDaemons /\ CountIsSessions /\ Drained /\ Attended
  BY <1>0 DEF LifeInv, CountInv
<1>b. \A c \in Procs : sess[c] # "none" => at[c] \in Procs
  BY <1>t DEF TypeOK, SessionsHaveDaemons
<1>q. ASSUME Drained', Attended' PROVE LifeInv'
  BY <1>0, <1>q DEF LifeInv
<1>u. CASE UNCHANGED vars
  BY <1>0, <1>u, LifeAside DEF vars
<1>1. ASSUME NEW p \in Procs, Launch(p) PROVE LifeInv'
  <2>1. Drained'
    BY <1>1, <1>t DEF Launch, Drained, TypeOK
  <2>2. Attended'
    BY <1>1, <1>t DEF Launch, Attended, Listening, TypeOK, SessionsHaveDaemons
  <2> QED
    BY <2>1, <2>2, <1>q
<1>2. ASSUME NEW p \in Procs, DialAnswered(p) PROVE LifeInv'
  <2>0. path \in Procs /\ Listening(path) /\ role[path] = "daemon" /\ path # p
    BY <1>2, <1>t DEF DialAnswered, Answered, Attended
  <2>1. Drained'
    BY <1>2, <1>t DEF DialAnswered, Drained, TypeOK
  <2>2. Attended'
    BY <1>2, <1>t, <2>0 DEF DialAnswered, Attended, Listening, TypeOK, SessionsHaveDaemons
  <2> QED
    BY <2>1, <2>2, <1>q
<1>3. ASSUME NEW p \in Procs, DialFails(p) PROVE LifeInv'
  <2> USE <1>3 DEF DialFails, BecomeDaemon
  <2>0. at[p] = None /\ sess[p] = "none" /\ drain[p] = "off"
    BY <1>t DEF SessionsHaveDaemons, Drained, TypeOK, DrainAt
  <2>1. Drained'
    BY <1>t, <2>0 DEF Drained, TypeOK
  <2>2. Attended'
    BY <1>t, <2>0 DEF Attended, Listening, TypeOK, SessionsHaveDaemons
  <2> QED
    BY <2>1, <2>2, <1>q
<1>4. ASSUME NEW p \in Procs, CountOwn(p) PROVE LifeInv'
  <2> USE <1>4 DEF CountOwn
  <2>1. Drained'
    <3>1. count'[p] # 0
      BY <1>t DEF TypeOK
    <3>2. ~cancelled[p]
      BY <1>t DEF Drained
    <3> QED
      BY <1>t, <3>1, <3>2 DEF Drained, TypeOK
  <2>2. Attended'
    BY <1>t DEF Attended, Listening, TypeOK, SessionsHaveDaemons
  <2> QED
    BY <2>1, <2>2, <1>q
<1>5. ASSUME NEW p \in Procs, RemovePath(p) \/ Listen(p) PROVE LifeInv'
  <2>1. UNCHANGED <<role, at, sess, count, drain, cancelled>>
    BY <1>5 DEF RemovePath, Listen
  <2>2. role[p] = "daemon" /\ ~Listening(p)
    BY <1>5, <1>t DEF RemovePath, Listen, Listening
  <2>3. \A d \in Procs \ {p} : srv'[d] = srv[d]
    BY <1>5, <1>t DEF RemovePath, Listen, TypeOK
  <2>4. Drained'
    BY <1>t, <2>1 DEF Drained
  <2>5. Attended'
    <3>1. \A d \in Procs : Listening(d)' => role[d] = "daemon"
      BY <1>t, <2>2, <2>3 DEF Attended, Listening
    <3>2. \A c \in Procs : sess[c] = "backlog" => Listening(at[c])'
      BY <1>t, <1>b, <2>1, <2>2, <2>3 DEF Attended, Listening
    <3> QED
      BY <1>t, <2>1, <3>1, <3>2 DEF Attended
  <2> QED
    BY <2>4, <2>5, <1>q
<1>6. ASSUME NEW p \in Procs, ServeFails(p) \/ CloseListener(p) PROVE LifeInv'
  <2>1. /\ UNCHANGED <<role, at, count, drain, cancelled>> /\ ~Listening(p)'
        /\ \A d \in Procs \ {p} : srv'[d] = srv[d]
        /\ sess' = [c \in Procs |-> IF at[c] = p /\ sess[c] = "backlog" THEN "cut" ELSE sess[c]]
    BY <1>6, <1>t DEF ServeFails, CloseListener, Listening, TypeOK
  <2>2. \A d \in Procs : role[d] = "daemon" => sess'[d] = sess[d]
    BY <1>t, <2>1 DEF Attended
  <2>3. Drained'
    BY <1>t, <2>1, <2>2 DEF Drained
  <2>4. Attended'
    <3>1. \A d \in Procs : Listening(d)' => role[d] = "daemon"
      BY <1>t, <2>1 DEF Attended, Listening
    <3>2. \A c \in Procs : sess'[c] \in {sess[c], "cut"} /\ (sess'[c] = "backlog" => at[c] # p)
      BY <2>1
    <3>3. \A c \in Procs : sess'[c] = "backlog" => Listening(at[c])'
      BY <1>t, <1>b, <2>1, <3>2 DEF Attended, Listening
    <3> QED
      BY <1>t, <2>1, <2>2, <3>1, <3>2, <3>3 DEF Attended, Listening
  <2> QED
    BY <2>3, <2>4, <1>q
<1>7. ASSUME NEW p \in Procs, NEW c \in Procs, Accept(p, c) PROVE LifeInv'
  <2> USE <1>7 DEF Accept, ToAccept
  <2>1. role[c] # "daemon"
    BY <1>t DEF Attended
  <2>2. Drained'
    BY <1>t, <2>1 DEF Drained, TypeOK
  <2>3. Attended'
    BY <1>t, <2>1 DEF Attended, Listening, TypeOK
  <2> QED
    BY <2>2, <2>3, <1>q
<1>8. ASSUME NEW p \in Procs, NEW c \in Procs, Count(p, c) PROVE LifeInv'
  <2> USE <1>8 DEF Count
  <2>1. role[c] # "daemon" /\ \A d \in Procs : count[d] # 0 => count'[d] # 0
    BY <1>t DEF Attended, TypeOK
  <2>2. Drained'
    BY <1>t, <2>1 DEF Drained, TypeOK
  <2>3. Attended'
    BY <1>t, <2>1 DEF Attended, Listening, TypeOK
  <2> QED
    BY <2>2, <2>3, <1>q
<1>9. ASSUME NEW p \in Procs, NEW c \in Procs, Depart(p, c) PROVE LifeInv'
  <2> USE <1>9 DEF Depart
  <2>1. /\ count' = [count EXCEPT ![p] = Remaining(p)] /\ sess' = [sess EXCEPT ![c] = "removed"]
        /\ UNCHANGED <<role, srv, at, cancelled>>
    OBVIOUS
  <2>2. drain' = drain \/ (drain[p] = "wait" /\ drain' = [drain EXCEPT ![p] = "fired"])
    OBVIOUS
  <2>3. drain'[p] = "wait" => count'[p] # 0
    BY <1>t DEF TypeOK
  <2>4. Drained'
    BY <1>t, <2>1, <2>2, <2>3 DEF Drained, TypeOK
  <2>5. Attended'
    BY <1>t, <2>1 DEF Attended, Listening, TypeOK
  <2> QED
    BY <2>4, <2>5, <1>q
<1>10. ASSUME NEW p \in Procs, CloseEditor(p) PROVE LifeInv'
  <2> USE <1>10 DEF CloseEditor
  <2>1. \A d \in Procs : role'[d] = "daemon" <=> role[d] = "daemon"
    BY <1>t DEF TypeOK
  <2>2. Drained'
    BY <1>t, <2>1 DEF Drained, TypeOK
  <2>3. Attended'
    BY <1>t, <2>1 DEF Attended, Listening, SessionsHaveDaemons
  <2> QED
    BY <2>2, <2>3, <1>q
<1>11. ASSUME NEW p \in Procs, StartGrace(p) \/ Recheck(p) PROVE LifeInv'
  <2>1. /\ drain[p] \in {"fired", "grace"} /\ UNCHANGED <<role, srv, at, sess, count, cancelled>>
        /\ drain' = [drain EXCEPT ![p] = IF StartGrace(p) THEN "grace" ELSE Rechecked(p)]
    BY <1>11 DEF StartGrace, Recheck
  <2>2. drain'[p] \in {"grace", "final", "wait"} /\ (drain'[p] = "wait" => count[p] # 0)
    BY <1>t, <2>1 DEF Rechecked, TypeOK
  <2>3. ~cancelled[p]
    BY <1>t, <2>1 DEF Drained
  <2>4. \A d \in Procs \ {p} : drain'[d] = drain[d]
    BY <1>t, <2>1 DEF TypeOK
  <2>5. role[p] = "daemon"
    BY <1>11 DEF StartGrace, Recheck
  <2>6. Drained'
    BY <1>t, <2>1, <2>2, <2>3, <2>4, <2>5 DEF Drained
  <2>7. Attended'
    BY <1>t, <2>1 DEF Attended, Listening
  <2> QED
    BY <2>6, <2>7, <1>q
<1>12. ASSUME NEW p \in Procs, Cancel(p) PROVE LifeInv'
  <2> USE <1>12 DEF Cancel
  <2>1. Drained'
    BY <1>t DEF Drained, TypeOK
  <2>2. Attended'
    BY <1>t DEF Attended, Listening
  <2> QED
    BY <2>1, <2>2, <1>q
<1>13. ASSUME NEW p \in Procs, Unlink(p) PROVE LifeInv'
  <2> USE <1>13 DEF Unlink
  <2>1. Drained'
    BY <1>t DEF Drained
  <2>2. \A d \in Procs : Listening(d)' <=> Listening(d)
    BY <1>t DEF Listening, TypeOK
  <2>3. Attended'
    BY <1>t, <2>2 DEF Attended, SessionsHaveDaemons, TypeOK
  <2> QED
    BY <2>1, <2>3, <1>q
<1>14. ASSUME NEW p \in Procs, Exit(p) \/ Crash(p) PROVE LifeInv'
  <2>1. role[p] = "daemon" /\ Vanish(p)
    BY <1>14 DEF Exit, Crash
  <2>2. \A d \in Procs : role'[d] \in {role[d], "gone"} /\ (role'[d] = "daemon" => d # p)
    BY <1>t, <2>1 DEF Vanish, TypeOK
  <2>3. \A d \in Procs \ {p} : srv'[d] = srv[d]
    BY <1>t, <2>1 DEF Vanish, TypeOK
  <2>4. srv'[p] \in {"none", "closed"}
    BY <1>t, <2>1 DEF Vanish, TypeOK
  <2>5. \A c \in Procs : IF at[c] = p THEN sess'[c] \in {"cut", "removed"} ELSE sess'[c] = sess[c]
    BY <1>t, <2>1 DEF Vanish, TypeOK
  <2>6. \A c \in Procs : role[c] = "daemon" => role'[c] = "daemon" \/ c = p
    BY <1>t, <2>1 DEF Vanish, TypeOK
  <2>7. UNCHANGED <<at, count, drain, cancelled>>
    BY <2>1 DEF Vanish
  <2>8. Drained'
    <3>1. \A d \in Procs : role'[d] = "daemon" => role[d] = "daemon" /\ sess'[d] = sess[d]
      BY <1>t, <2>2, <2>5 DEF SessionsHaveDaemons
    <3>2. \A d \in Procs : role[d] \in {"daemon", "gone"} => role'[d] \in {"daemon", "gone"}
      BY <2>2
    <3> QED
      BY <1>t, <2>7, <3>1, <3>2 DEF Drained
  <2>9. Attended'
    <3>1. \A d \in Procs : Listening(d)' => d # p /\ role'[d] = "daemon"
      BY <1>t, <2>3, <2>4, <2>6 DEF Attended, Listening
    <3>2. ASSUME NEW c \in Procs, sess'[c] \in {"backlog", "accepted", "counted"}
          PROVE  /\ role'[at'[c]] = "daemon"
                 /\ sess'[c] = "backlog" => Listening(at[c])'
      <4>1. at[c] # p /\ sess'[c] = sess[c]
        BY <2>5, <3>2
      <4>2. role[at[c]] = "daemon" /\ at[c] # None
        BY <1>t, <3>2, <4>1 DEF Attended, SessionsHaveDaemons
      <4>3. at[c] \in Procs
        BY <1>t, <4>2 DEF TypeOK
      <4>4. role'[at[c]] = "daemon"
        BY <2>6, <4>1, <4>2, <4>3
      <4>5. sess[c] = "backlog" => srv'[at[c]] \in {"accept", "unlinked"}
        BY <1>t, <2>3, <4>1, <4>3 DEF Attended, Listening
      <4> QED
        BY <2>7, <4>1, <4>4, <4>5 DEF Listening
    <3>3. \A d \in Procs : role'[d] = "daemon" => sess'[d] \in {"none", "counted", "removed"}
      BY <1>t, <2>2, <2>5 DEF Attended, SessionsHaveDaemons
    <3> QED
      BY <2>7, <3>1, <3>2, <3>3 DEF Attended, Listening
  <2> QED
    BY <2>8, <2>9, <1>q
<1> QED
  BY <1>u, <1>1, <1>2, <1>3, <1>4, <1>5, <1>6, <1>7, <1>8, <1>9, <1>10, <1>11, <1>12, <1>13, <1>14
     DEF Next, Startup, Serving, Draining

\* The guards of what a daemon does to come to its end: it counts its own session,
\* a session of an editor that is gone departs, or the drain goes on.
CanEnd(d) ==
    \/ sess[d] = "none"
    \/ \E c \in Counted(d) : ~editor[c]
    \/ drain[d] \in {"fired", "grace", "final"}

\* A daemon whose editors have all gone is never without a next step towards its
\* exit, whatever races, crashes and failures there were: no zero of the counter
\* passes WaitForLastClient by.
THEOREM DesertedDaemonMoves ==
    Spec => [](\A d \in Procs : role[d] = "daemon" /\ Deserted(d) => CanEnd(d))
<1>1. LifeInv => \A d \in Procs : role[d] = "daemon" /\ Deserted(d) => CanEnd(d)
  <2> SUFFICES ASSUME LifeInv, NEW d \in Procs, role[d] = "daemon", Deserted(d)
               PROVE  CanEnd(d)
    OBVIOUS
  <2>1. drain[d] = "off" => sess[d] = "none"
    BY DEF LifeInv, Drained
  <2>2. ASSUME drain[d] = "wait" PROVE \E c \in Counted(d) : ~editor[c]
    <3>1. count[d] = Cardinality(Counted(d)) /\ count[d] # 0
      BY <2>2 DEF LifeInv, Drained, CountInv, CountIsSessions
    <3>2. Counted(d) # {}
      BY <3>1, FS_EmptySet
    <3> QED
      BY <3>2 DEF Deserted, Counted
  <2>3. drain[d] \in {"off", "wait", "fired", "grace", "final"}
    BY DEF LifeInv, CountInv, TypeOK, DrainAt
  <2> QED
    BY <2>1, <2>2, <2>3 DEF CanEnd
<1> QED
  BY <1>1, InitLifeInv, StepLifeInv, PTL DEF Spec

\* Where a session whose dial was answered can be after a step: it stays, it comes
\* one stage further, or it is cut - out of the backlog only when the socket stops
\* listening, and from Accept on only when the daemon's process is gone.
SessionStep(c) ==
    /\ at'[c] = at[c]
    /\ sess[c] = "backlog" =>
         \/ sess'[c] \in {"backlog", "accepted"}
         \/ sess'[c] = "cut" /\ ~Listening(at[c])'
    /\ sess[c] = "accepted" =>
         \/ sess'[c] \in {"accepted", "counted"}
         \/ sess'[c] = "cut" /\ role'[at[c]] = "gone"

\* One session, over one step.
LEMMA SessionSteps ==
    ASSUME LifeInv, [Next]_vars, NEW c \in Procs, sess[c] \in {"backlog", "accepted"}
    PROVE  SessionStep(c)
<1> USE DEF failures
<1>t. TypeOK /\ SessionsHaveDaemons /\ Attended
  BY DEF LifeInv, CountInv
<1>c. at[c] \in Procs /\ role[at[c]] = "daemon" /\ role[c] \notin {"off", "dialing"}
  BY <1>t DEF TypeOK, SessionsHaveDaemons, Attended
<1>a. ASSUME UNCHANGED <<at, sess>> PROVE SessionStep(c)
  BY <1>a DEF SessionStep
<1>1. CASE UNCHANGED vars
  BY <1>1, <1>a DEF vars
<1>2. ASSUME NEW p \in Procs,
             \/ Launch(p) \/ RemovePath(p) \/ Listen(p) \/ CloseEditor(p)
             \/ StartGrace(p) \/ Recheck(p) \/ Cancel(p) \/ Unlink(p)
      PROVE  SessionStep(c)
  BY <1>2, <1>a DEF Launch, RemovePath, Listen, CloseEditor, StartGrace, Recheck, Cancel, Unlink
<1>3. ASSUME NEW p \in Procs, DialAnswered(p) \/ DialFails(p) PROVE SessionStep(c)
  <2>1. p # c
    BY <1>3, <1>c DEF DialAnswered, DialFails
  <2> QED
    BY <1>3, <1>t, <2>1 DEF DialAnswered, DialFails, BecomeDaemon, SessionStep, TypeOK
<1>4. ASSUME NEW p \in Procs, CountOwn(p) PROVE SessionStep(c)
  <2>1. p # c
    BY <1>4 DEF CountOwn
  <2> QED
    BY <1>4, <1>t, <2>1 DEF CountOwn, SessionStep, TypeOK
<1>5. ASSUME NEW d \in Procs, NEW p \in Procs, Accept(d, p) \/ Count(d, p) \/ Depart(d, p)
      PROVE  SessionStep(c)
  BY <1>5, <1>t DEF Accept, ToAccept, Count, Depart, SessionStep, TypeOK
<1>6. ASSUME NEW d \in Procs, ServeFails(d) \/ CloseListener(d) PROVE SessionStep(c)
  <2>1. srv'[d] \in {"deaf", "closed"} /\ at' = at
    BY <1>6, <1>t DEF ServeFails, CloseListener, TypeOK
  <2>2. sess'[c] = IF at[c] = d /\ sess[c] = "backlog" THEN "cut" ELSE sess[c]
    BY <1>6 DEF ServeFails, CloseListener
  <2> QED
    BY <2>1, <2>2 DEF SessionStep, Listening
<1>7. ASSUME NEW d \in Procs, Exit(d) \/ Crash(d) PROVE SessionStep(c)
  <2>1. role'[d] = "gone" /\ srv'[d] \in {"none", "closed"} /\ at' = at
    BY <1>7, <1>t DEF Exit, Crash, Vanish, TypeOK
  <2>2. sess'[c] = IF at[c] = d /\ sess[c] # "removed" THEN "cut" ELSE sess[c]
    BY <1>7 DEF Exit, Crash, Vanish
  <2> QED
    BY <2>1, <2>2 DEF SessionStep, Listening
<1> QED
  BY <1>1, <1>2, <1>3, <1>4, <1>5, <1>6, <1>7 DEF Next, Startup, Serving, Draining

\* A session whose dial was answered is never without its daemon: with any starts,
\* crashes and failures, the daemon's next step for it - to accept it, to count it,
\* to remove it once its editor is gone or the daemon was cancelled - is free to be
\* taken, and until it is counted a step takes it at most one stage further or cuts it.
\* That the daemon takes the step is fairness, and DialIsSettled's.
THEOREM SessionsAreAttended ==
    Spec => /\ [](\A c \in Procs :
                    (\/ sess[c] \in {"backlog", "accepted"}
                     \/ sess[c] = "counted" /\ (~editor[c] \/ cancelled[at[c]]))
                       => ServedNext(c))
            /\ [][\A c \in Procs : sess[c] \in {"backlog", "accepted"} => SessionStep(c)]_vars
<1>1. LifeInv => \A c \in Procs :
                   (\/ sess[c] \in {"backlog", "accepted"}
                    \/ sess[c] = "counted" /\ (~editor[c] \/ cancelled[at[c]]))
                      => ServedNext(c)
  BY DEF LifeInv, CountInv, TypeOK, SessionsHaveDaemons, Attended, ServedNext, ToAccept
<1>2. LifeInv /\ [Next]_vars =>
        [\A c \in Procs : sess[c] \in {"backlog", "accepted"} => SessionStep(c)]_vars
  BY SessionSteps
<1> QED
  BY <1>1, <1>2, InitLifeInv, StepLifeInv, PTL DEF Spec
-----------------------------------------------------------------------------
(* A daemon that lives is a Drain                                          *)
(*                                                                         *)
(* ConnTracker implements Drain: sessions join and leave, and the wait     *)
(* ends at an instant without any.  Here the other half: what a daemon     *)
(* does with its tracker, from its failed dial on, is a behaviour of       *)
(* Drain, so that the one may stand for the other.                         *)

\* The wait is over when the look after the grace period found nobody.
Waited(d) == IF drain[d] = "off" THEN "no" ELSE IF drain[d] = "final" THEN "over" ELSE "yes"

DrainOf(d) == INSTANCE Drain
    WITH Conns <- Procs, active <- Counted(d), waiting <- Waited(d), cancelled <- FALSE

\* Up to the end of its process, a step of anyone is a step of d's Drain, or none.
IsADrain(d) ==
    role'[d] # "gone" => DrainOf(d)!DrainNext \/ UNCHANGED DrainOf(d)!drainVars

\* Steps that count nobody and leave the wait where it is.
LEMMA DrainAside ==
    ASSUME NEW d \in Procs, Counted(d)' = Counted(d), drain'[d] = drain[d]
    PROVE  IsADrain(d)
<1>1. Waited(d)' = Waited(d)
  BY DEF Waited
<1> QED
  BY <1>1 DEF IsADrain, DrainOf!drainVars

LEMMA DaemonDrains ==
    ASSUME LifeInv, [Next]_vars, NEW d \in Procs
    PROVE  IsADrain(d)
<1> SUFFICES ASSUME role'[d] # "gone" PROVE IsADrain(d)
  BY DEF IsADrain
<1> USE DEF failures
<1>t. TypeOK /\ SessionsHaveDaemons /\ CountIsSessions /\ Drained /\ Attended
  BY DEF LifeInv, CountInv
<1>a. ASSUME UNCHANGED <<at, sess, drain>> PROVE IsADrain(d)
  BY <1>a, DrainAside DEF Counted
<1>1. CASE UNCHANGED vars
  BY <1>1, <1>a DEF vars
<1>2. ASSUME NEW p \in Procs,
             \/ Launch(p) \/ RemovePath(p) \/ Listen(p) \/ CloseEditor(p) \/ Cancel(p) \/ Unlink(p)
      PROVE  IsADrain(d)
  BY <1>2, <1>a DEF Launch, RemovePath, Listen, CloseEditor, Cancel, Unlink
<1>3. ASSUME NEW p \in Procs,
             DialAnswered(p) \/ ServeFails(p) \/ CloseListener(p) \/ \E c \in Procs : Accept(p, c)
      PROVE  IsADrain(d)
  <2>1. drain' = drain
    BY <1>3 DEF DialAnswered, ServeFails, CloseListener, Accept
  <2>2. \A c \in Procs : at'[c] = d /\ sess'[c] = "counted" <=> at[c] = d /\ sess[c] = "counted"
    <3>1. CASE DialAnswered(p)
      BY <1>t, <3>1 DEF DialAnswered, SessionsHaveDaemons, TypeOK
    <3>2. CASE ServeFails(p) \/ CloseListener(p)
      BY <1>t, <3>2 DEF ServeFails, CloseListener, TypeOK
    <3>3. ASSUME NEW c \in Procs, Accept(p, c)
          PROVE  \A k \in Procs : at'[k] = d /\ sess'[k] = "counted" <=> at[k] = d /\ sess[k] = "counted"
      BY <1>t, <3>3 DEF Accept, ToAccept, TypeOK
    <3> QED
      BY <1>3, <3>1, <3>2, <3>3
  <2>3. Counted(d)' = Counted(d)
    BY <2>2 DEF Counted
  <2> QED
    BY <1>3, <2>1, <2>3, DrainAside
<1>4. ASSUME NEW p \in Procs, CountOwn(p) PROVE IsADrain(d)
  <2> USE <1>4 DEF CountOwn
  <2>0. at[p] = p /\ sess[p] # "counted" /\ drain[p] = "off"
    BY <1>t DEF SessionsHaveDaemons, Drained
  <2>1. CASE d = p
    <3>1. Counted(d)' = Counted(d) \cup {d} /\ d \notin Counted(d)
      BY <1>t, <2>0, <2>1 DEF Counted, TypeOK
    <3>2. Waited(d) = "no" /\ Waited(d)' = "yes"
      BY <1>t, <2>0, <2>1 DEF Waited, TypeOK
    <3>3. DrainOf(d)!Begin(d)
      BY <3>1, <3>2 DEF DrainOf!Begin
    <3> QED
      BY <3>3, <1>4 DEF IsADrain, DrainOf!DrainNext
  <2>2. CASE d # p
    <3>1. Counted(d)' = Counted(d) /\ drain'[d] = drain[d]
      BY <1>t, <2>0, <2>2 DEF Counted, TypeOK
    <3> QED
      BY <1>4, <3>1, DrainAside
  <2> QED
    BY <2>1, <2>2
<1>5. ASSUME NEW p \in Procs, NEW c \in Procs, Count(p, c) PROVE IsADrain(d)
  <2> USE <1>5 DEF Count
  <2>1. CASE d = p
    <3>1. Counted(d)' = Counted(d) \cup {c} /\ c \notin Counted(d)
      BY <1>t, <2>1 DEF Counted, TypeOK
    <3>2. Waited(d)' = Waited(d)
      BY DEF Waited
    <3>3. DrainOf(d)!Join(c)
      BY <3>1, <3>2 DEF DrainOf!Join
    <3> QED
      BY <3>3, <1>5 DEF IsADrain, DrainOf!DrainNext
  <2>2. CASE d # p
    <3>1. Counted(d)' = Counted(d)
      BY <1>t, <2>2 DEF Counted, TypeOK
    <3> QED
      BY <1>5, <3>1, DrainAside
  <2> QED
    BY <2>1, <2>2
<1>6. ASSUME NEW p \in Procs, NEW c \in Procs, Depart(p, c) PROVE IsADrain(d)
  <2> USE <1>6 DEF Depart
  <2>1. CASE d = p
    <3>1. Counted(d)' = Counted(d) \ {c} /\ c \in Counted(d)
      BY <1>t, <2>1 DEF Counted, TypeOK
    <3>2. Waited(d)' = Waited(d)
      BY <1>t, <2>1 DEF Waited, TypeOK
    <3>3. DrainOf(d)!Leave(c)
      BY <3>1, <3>2 DEF DrainOf!Leave
    <3> QED
      BY <3>3, <1>6 DEF IsADrain, DrainOf!DrainNext
  <2>2. CASE d # p
    <3>1. Counted(d)' = Counted(d)
      BY <1>t, <2>2 DEF Counted, TypeOK
    <3>2. drain'[d] = drain[d]
      BY <1>t, <2>2 DEF TypeOK
    <3> QED
      BY <1>6, <3>1, <3>2, DrainAside
  <2> QED
    BY <2>1, <2>2
<1>7. ASSUME NEW p \in Procs, StartGrace(p) \/ Recheck(p) PROVE IsADrain(d)
  <2>1. Counted(d)' = Counted(d)
    BY <1>7 DEF StartGrace, Recheck, Counted
  <2>2. CASE d # p \/ StartGrace(p) \/ count[p] # 0
    <3>1. Waited(d)' = Waited(d)
      <4>1. CASE d # p
        BY <1>7, <1>t, <4>1 DEF StartGrace, Recheck, Waited, TypeOK
      <4>2. CASE StartGrace(p)
        BY <1>t, <4>2 DEF StartGrace, Waited, TypeOK
      <4>3. CASE Recheck(p) /\ count[p] # 0
        BY <1>t, <4>3 DEF Recheck, Rechecked, Waited, TypeOK
      <4> QED
        BY <1>7, <2>2, <4>1, <4>2, <4>3
    <3> QED
      BY <1>7, <2>1, <3>1 DEF IsADrain, DrainOf!drainVars
  <2>3. CASE d = p /\ Recheck(p) /\ count[p] = 0
    <3>1. Counted(d) = {}
      <4>1. Cardinality(Counted(d)) = 0
        BY <1>t, <2>3 DEF CountIsSessions, Recheck
      <4> QED
        BY <4>1, ProcSets DEF Counted
    <3>2. Waited(d) = "yes" /\ Waited(d)' = "over"
      BY <1>t, <2>3 DEF Recheck, Rechecked, Waited, TypeOK
    <3>3. DrainOf(d)!Finish
      BY <2>1, <3>1, <3>2 DEF DrainOf!Finish
    <3> QED
      BY <3>3, <1>7 DEF IsADrain, DrainOf!DrainNext
  <2> QED
    BY <1>7, <2>2, <2>3
<1>8. ASSUME NEW p \in Procs, DialFails(p) PROVE IsADrain(d)
  <2> USE <1>8 DEF DialFails, BecomeDaemon
  <2>1. sess[p] = "none"
    BY <1>t DEF SessionsHaveDaemons
  <2>2. Counted(d)' = Counted(d)
    BY <1>t, <2>1 DEF Counted, TypeOK
  <2> QED
    BY <2>2, DrainAside
<1>9. ASSUME NEW p \in Procs, Exit(p) \/ Crash(p) PROVE IsADrain(d)
  <2>1. Vanish(p) /\ d # p
    BY <1>9, <1>t DEF Exit, Crash, Vanish, TypeOK
  <2>2. \A c \in Procs : at[c] = d => sess'[c] = sess[c]
    BY <1>t, <2>1 DEF Vanish, TypeOK
  <2>3. Counted(d)' = Counted(d) /\ drain' = drain
    BY <2>1, <2>2 DEF Vanish, Counted
  <2> QED
    BY <1>9, <2>3, DrainAside
<1> QED
  BY <1>1, <1>2, <1>3, <1>4, <1>5, <1>6, <1>7, <1>8, <1>9
     DEF Next, Startup, Serving, Draining

\* From its launch to its end, whoever joins, leaves, arrives or crashes, a process
\* uses its tracker as Drain says: sessions are counted one by one, its own first,
\* and its wait ends only at an instant when none is.
THEOREM DaemonIsADrain ==
    Spec => /\ \A d \in Procs : DrainOf(d)!DrainInit
            /\ [][\A d \in Procs : IsADrain(d)]_vars
<1>1. Init => \A d \in Procs : DrainOf(d)!DrainInit
  BY ProcsAssumption DEF Init, DrainOf!DrainInit, Counted, Waited
<1>2. LifeInv /\ [Next]_vars => [\A d \in Procs : IsADrain(d)]_vars
  BY DaemonDrains
<1> QED
  BY <1>1, <1>2, InitLifeInv, StepLifeInv, PTL DEF Spec
=============================================================================
