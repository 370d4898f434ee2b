------------------------------ MODULE MCDaemon ------------------------------
(* Daemon for TLC: until they are launched, processes are interchangeable. *)
EXTENDS Daemon, TLC

Interchangeable == Permutations(Procs)

\* ServedNext is the guard of the steps a daemon takes for a session, which a
\* proof about them rests on.
GuardsAreSteps ==
    \A c \in Procs :
        ServedNext(c) <=> \E d \in Procs : ENABLED (Accept(d, c) \/ Count(d, c) \/ Depart(d, c))
=============================================================================
