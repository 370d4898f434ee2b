---------------------------- MODULE ConnTracker ----------------------------
(***************************************************************************)
(* internal/daemon/conntracker.go: the counter of a daemon's sessions, the *)
(* channel Done() returns, and WaitForLastClient, which waits on it.       *)
(*                                                                         *)
(* A channel is a number: 0 is the one NewConnTracker makes, and the n-th  *)
(* make(chan struct{}) yields channel n.  A channel once closed stays so.  *)
(* A step that holds ct.mu is one action; between two such steps of the    *)
(* waiter any session may come or go.                                      *)
(***************************************************************************)
EXTENDS Naturals, FiniteSets

CONSTANTS
    Conns,                \* the connections the daemon sees, each used once
    Stdio                 \* the daemon process's own session

ASSUME ConnsAssumption == IsFiniteSet(Conns) /\ Stdio \in Conns

VARIABLES
    phase,                \* connection -> "away", "active", "gone"
    count,                \* ct.count
    done,                 \* ct.done
    closed,               \* the channels that have been closed
    waiter,               \* where WaitForLastClient is
    held,                 \* the channel its select is waiting on
    cancelled             \* ctx.Done() is closed

vars == <<phase, count, done, closed, waiter, held, cancelled>>

\* "boot": runServer has not counted its own session yet.  "top": head of the
\* loop.  "select": blocked on the held channel.  "grace": the timer runs.
\* "check": it fired and Count() is next.
WaiterAt == {"boot", "top", "select", "grace", "check", "returned"}

TypeOK ==
    /\ phase \in [Conns -> {"away", "active", "gone"}]
    /\ count \in Nat
    /\ done \in Nat
    /\ closed \in SUBSET Nat
    /\ waiter \in WaiterAt
    /\ held \in Nat
    /\ cancelled \in BOOLEAN

Active == {c \in Conns : phase[c] = "active"}

Init ==
    /\ phase = [c \in Conns |-> "away"]
    /\ count = 0
    /\ done = 0
    /\ closed = {}
    /\ waiter = "boot"
    /\ held = 0
    /\ cancelled = FALSE

-----------------------------------------------------------------------------
(* The tracker *)

\* Mutants of Add: the channel is never re-armed, as when Done() was one-shot;
\* and every arrival swaps the channel, a waiter holding the old one or not.
AddOneShot(c) ==
    /\ phase[c] = "away"
    /\ phase' = [phase EXCEPT ![c] = "active"]
    /\ count' = count + 1
    /\ UNCHANGED done

AddAlwaysFresh(c) ==
    /\ phase[c] = "away"
    /\ phase' = [phase EXCEPT ![c] = "active"]
    /\ done' = done + 1
    /\ count' = count + 1

\* A drop to zero closed the channel: the next arrival makes a fresh one.
Add(c) ==
    /\ phase[c] = "away"
    /\ phase' = [phase EXCEPT ![c] = "active"]
    /\ done' = IF count = 0 /\ done \in closed THEN done + 1 ELSE done
    /\ count' = count + 1

\* Mutants of Remove: the early return is off by one; and it is missing while
\* a connection removes itself on two paths.
RemoveOffByOne(c) ==
    /\ phase[c] = "active"
    /\ phase' = [phase EXCEPT ![c] = "gone"]
    /\ count' = IF count <= 1 THEN count ELSE count - 1
    /\ UNCHANGED closed

RemoveTwice(c) ==
    /\ phase[c] = "active"
    /\ phase' = [phase EXCEPT ![c] = "gone"]
    /\ count' = count - 2
    /\ closed' = IF count = 1 THEN closed \cup {done} ELSE closed

\* Connections remove themselves once, so count = 0, the early return, is
\* met only by a tracker whose count is wrong.
Remove(c) ==
    /\ phase[c] = "active"
    /\ phase' = [phase EXCEPT ![c] = "gone"]
    /\ count' = IF count = 0 THEN 0 ELSE count - 1
    /\ closed' = IF count = 1 THEN closed \cup {done} ELSE closed

\* A socket connection's goroutine.
Connect(c) ==
    /\ c # Stdio
    /\ Add(c)
    /\ UNCHANGED <<closed, waiter, held, cancelled>>

Disconnect(c) ==
    /\ Remove(c)
    /\ UNCHANGED <<done, waiter, held, cancelled>>

-----------------------------------------------------------------------------
(* runServer and WaitForLastClient *)

\* runServer counts the session on stdin before it calls WaitForLastClient.
CountStdio ==
    /\ waiter = "boot"
    /\ Add(Stdio)
    /\ waiter' = "top"
    /\ UNCHANGED <<closed, held, cancelled>>

\* ct.Done() is evaluated once as the select is entered.
ReadDone ==
    /\ waiter = "top"
    /\ held' = done
    /\ waiter' = "select"
    /\ UNCHANGED <<phase, count, done, closed, cancelled>>

Wake ==
    /\ waiter = "select"
    /\ held \in closed
    /\ waiter' = "grace"
    /\ UNCHANGED <<phase, count, done, closed, held, cancelled>>

GraceOver ==
    /\ waiter = "grace"
    /\ waiter' = "check"
    /\ UNCHANGED <<phase, count, done, closed, held, cancelled>>

\* Mutant: the first zero is final.
RecheckNothing ==
    /\ waiter = "check"
    /\ waiter' = "returned"
    /\ UNCHANGED <<phase, count, done, closed, held, cancelled>>

Recheck ==
    /\ waiter = "check"
    /\ waiter' = IF count = 0 THEN "returned" ELSE "top"
    /\ UNCHANGED <<phase, count, done, closed, held, cancelled>>

\* Either select returns when the context is cancelled; with both channels
\* ready Go picks one, so Wake stays enabled too.
Abandon ==
    /\ waiter \in {"select", "grace"}
    /\ cancelled
    /\ waiter' = "returned"
    /\ UNCHANGED <<phase, count, done, closed, held, cancelled>>

Cancel ==
    /\ ~cancelled
    /\ cancelled' = TRUE
    /\ UNCHANGED <<phase, count, done, closed, waiter, held>>

-----------------------------------------------------------------------------
WaiterStep == ReadDone \/ Wake \/ GraceOver \/ Recheck \/ Abandon

Next ==
    \/ \E c \in Conns : Connect(c) \/ Disconnect(c)
    \/ CountStdio
    \/ WaiterStep
    \/ Cancel

\* The waiter's goroutine is scheduled and its timer fires.  Nothing makes a
\* client connect or leave.
Spec == Init /\ [][Next]_vars /\ WF_vars(WaiterStep)

-----------------------------------------------------------------------------
(* Properties *)

\* conntracker.go's count is the number of sessions between their Add and
\* their Remove, whatever order the goroutines run in.
CountIsActive == count = Cardinality(Active)

\* "Done returns a channel that is closed while no connections are active":
\* from the first session on, the current channel is closed exactly at zero.
DoneIsLevel ==
    (\E c \in Conns : phase[c] # "away") => (done \in closed <=> Active = {})

\* A waiter never sleeps on a channel nobody will close: the channel it holds
\* is the current one, or one that is closed already.
NoLostWakeup == waiter = "select" => held = done \/ held \in closed

\* The sessions and the waiter, channels forgotten, behave as Drain allows:
\* the wait ends only with nobody counted, and ends if that lasts.
Abstract == INSTANCE Drain WITH
    active <- Active,
    waiting <- CASE waiter = "boot" -> "no"
                 [] waiter = "returned" -> "over"
                 [] OTHER -> "yes"

ImplementsDrain == Abstract!DrainSpec
=============================================================================
