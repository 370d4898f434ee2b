------------------------------ MODULE FileTable ------------------------------
(***************************************************************************)
(* What internal/index promises its readers: for every file, whether it    *)
(* has been indexed and what it declares, each write replacing exactly     *)
(* what it is about.                                                       *)
(***************************************************************************)
EXTENDS Integers

CONSTANTS
    Keys,                 \* files
    Folders, UnderKey,    \* workspace folders, and the files each one holds
    Names, Lines,         \* what a declaration is called and where it is
    Deltas,               \* by how many lines an edit may move what follows it
    Scopes, Top           \* functions of a file, and what is outside them

Decl == [name : Names, line : Lines]

VARIABLES
    table,                \* file -> its declarations, with their scopes
    known                 \* the files that have been indexed

tvars == <<table, known>>

TableInit ==
    /\ table = [k \in Keys |-> {}]
    /\ known = {}

In(s, D) == {[name |-> d.name, line |-> d.line, scope |-> s] : d \in D}

Put(k, D) ==
    /\ known' = known \cup {k}
    /\ table' = [table EXCEPT ![k] = In(Top, D)]

Remove(k) ==
    /\ known' = known \ {k}
    /\ table' = [table EXCEPT ![k] = {}]

RemoveFolder(p) ==
    /\ table' = [k \in Keys |-> IF k \in UnderKey[p] THEN {} ELSE table[k]]
    /\ known' = known \ UnderKey[p]

\* A function's declarations replace the ones it had.
PutScope(k, s, D) ==
    /\ UNCHANGED known
    /\ table' = [table EXCEPT ![k] = {d \in @ : d.scope # s} \cup In(s, D)]

\* Lines are inserted or removed after a line.
ShiftDecl(d, after, delta) ==
    IF d.line > after THEN [d EXCEPT !.line = @ + delta] ELSE d

Shift(k, after, delta) ==
    /\ UNCHANGED known
    /\ table' = [table EXCEPT ![k] = {ShiftDecl(d, after, delta) : d \in @}]

TableNext ==
    \/ \E k \in Keys, D \in SUBSET Decl : Put(k, D)
    \/ \E k \in Keys : Remove(k)
    \/ \E p \in Folders : RemoveFolder(p)
    \/ \E k \in Keys, s \in Scopes, D \in SUBSET Decl : PutScope(k, s, D)
    \/ \E k \in Keys, after \in Lines, delta \in Deltas : Shift(k, after, delta)

TableSpec == TableInit /\ [][TableNext]_tvars
=============================================================================
