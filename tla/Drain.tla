------------------------------- MODULE Drain -------------------------------
(***************************************************************************)
(* What the daemon's connection tracker promises its waiter, without the   *)
(* channel it is built from: sessions join and leave, the wait may end     *)
(* only at an instant when nobody is counted (or when its context was      *)
(* cancelled), and it does end once the sessions are gone for good.        *)
(* ConnTracker implements this specification.                              *)
(***************************************************************************)
CONSTANT Conns            \* the connections a daemon may see in its life

VARIABLES
    active,               \* the connections counted now
    waiting,              \* the waiter: "no", "yes" or "over"
    cancelled             \* its context was cancelled

drainVars == <<active, waiting, cancelled>>

DrainInit ==
    /\ active = {}
    /\ waiting = "no"
    /\ cancelled = FALSE

Join(c) ==
    /\ c \notin active
    /\ active' = active \cup {c}
    /\ UNCHANGED <<waiting, cancelled>>

Leave(c) ==
    /\ c \in active
    /\ active' = active \ {c}
    /\ UNCHANGED <<waiting, cancelled>>

\* The process hosting the daemon counts its own session, then starts to wait.
Begin(c) ==
    /\ waiting = "no"
    /\ c \notin active
    /\ active' = active \cup {c}
    /\ waiting' = "yes"
    /\ UNCHANGED cancelled

Finish ==
    /\ waiting = "yes"
    /\ active = {} \/ cancelled
    /\ waiting' = "over"
    /\ UNCHANGED <<active, cancelled>>

CancelWait ==
    /\ ~cancelled
    /\ cancelled' = TRUE
    /\ UNCHANGED <<active, waiting>>

DrainNext ==
    \/ \E c \in Conns : Join(c) \/ Leave(c) \/ Begin(c)
    \/ Finish
    \/ CancelWait

DrainSafety == DrainInit /\ [][DrainNext]_drainVars

\* A zero that lasts, or a cancellation, ends the wait.
DrainSpec == DrainSafety /\ WF_drainVars(Finish)
=============================================================================
