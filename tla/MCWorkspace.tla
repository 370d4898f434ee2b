---------------------------- MODULE MCWorkspace ----------------------------
(* Two files in one folder.                                                  *)
EXTENDS Workspace

CONSTANTS f, g, A

OneFolder == [k \in Files |-> A]

\* CanMove says of Work what TLC finds of its actions.
MovesAreSteps == CanMove <=> ENABLED Work
=============================================================================
