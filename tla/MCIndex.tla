------------------------------ MODULE MCIndex ------------------------------
(***************************************************************************)
(* Two files, a in the workspace folder ws and b outside it.  The client   *)
(* spells a's URI one way (a1), uri.File another (a2).                     *)
(***************************************************************************)
EXTENDS Index, TLC

CONSTANTS a1, a2, b1, a, b, ws

AKeyOf == (a1 :> a) @@ (a2 :> a) @@ (b1 :> b)

\* Both spellings of a begin with the folder's.
AlikeRaw == ws :> {a1, a2}

\* Only the client's does: it escapes a character of the folder's name that
\* uri.File leaves alone.
ClientRaw == ws :> {a1}

AUnderKey == ws :> {a}

ADeltas == {-1, 1}
=============================================================================
