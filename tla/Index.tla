-------------------------------- MODULE Index --------------------------------
(***************************************************************************)
(* internal/index: the definitions and component references every session  *)
(* of a daemon shares.  The same entries are held in two views, by name    *)
(* (funcs, comprefs) and by file (fileFuncs, fileRefs), and the references *)
(* of one function are remembered once more (scopeRefs) so that they can   *)
(* be replaced.  Entries are told apart by pointer, files by uriKey, and   *)
(* every operation is one step: it holds the index's lock throughout.      *)
(*                                                                         *)
(* Definitions and references are kept alike, so one set of entries stands *)
(* for both; a name here is a function's or a variable's.  Entries that     *)
(* agree in everything, address included, are one.                         *)
(***************************************************************************)
EXTENDS Integers, FiniteSets

CONSTANTS
    Uris, Keys, KeyOf,    \* URI spellings, and the uriKey each one has
    Folders,              \* workspace folders, as the client spells them
    UnderRaw,             \* the URIs a folder's spelling is a prefix of
    UnderKey,             \* the keys its uriKey is a prefix of
    Names, Scopes, Top,
    MaxLine,              \* the last line there is (a bound)
    Deltas,               \* by how many lines an edit moves what follows it (a bound)
    Addresses             \* where entries may live (a bound)

Lines == 0..MaxLine

ASSUME IndexAssumption ==
    /\ KeyOf \in [Uris -> Keys]
    /\ UnderRaw \in [Folders -> SUBSET Uris]
    /\ UnderKey \in [Folders -> SUBSET Keys]
    /\ Top \notin Scopes
    /\ MaxLine \in Nat
    /\ Deltas \subseteq Int
    /\ Addresses \subseteq Nat

\* The folder's URI and its files' are spelled alike: the client and uri.File
\* escape the same characters and use the same case.
SpelledAlike ==
    \A p \in Folders, u \in Uris : u \in UnderRaw[p] <=> KeyOf[u] \in UnderKey[p]

Decl  == [name : Names, line : Lines]
Entry == [at : Addresses, uri : Uris, name : Names, line : Lines,
          scope : Scopes \cup {Top}]

VARIABLES
    named,                \* the entries the name buckets hold
    filed,                \* fileFuncs and fileRefs: key -> entries
    scoped,               \* scopeRefs: key -> scope -> entries
    indexed               \* keys with an entry in fileFuncs, empty or not

vars == <<named, filed, scoped, indexed>>

TypeOK ==
    /\ named \subseteq Entry
    /\ filed \in [Keys -> SUBSET Entry]
    /\ scoped \in [Keys -> [Scopes -> SUBSET Entry]]
    /\ indexed \subseteq Keys

NoScopes == [s \in Scopes |-> {}]

Init ==
    /\ named = {}
    /\ filed = [k \in Keys |-> {}]
    /\ scoped = [k \in Keys |-> NoScopes]
    /\ indexed = {}

\* A new entry lives where no entry does that anything still points to.  The
\* lowest such address is as good as any.
Live == named \cup UNION {filed[k] : k \in Keys}
              \cup UNION {UNION {scoped[k][s] : s \in Scopes} : k \in Keys}
Free == Addresses \ {e.at : e \in Live}
New(g) == g \in Free /\ \A h \in Free : g <= h

\* The entries of one write, alike but for name and line.
Own(u, s, D, g) ==
    {[at |-> g, uri |-> u, name |-> d.name, line |-> d.line, scope |-> s] : d \in D}

-----------------------------------------------------------------------------

\* Mutant of RemoveFileEntries: the file's entries stay in the name buckets.
RemoveFileEntriesFileOnly(k) ==
    /\ UNCHANGED named
    /\ filed' = [filed EXCEPT ![k] = {}]
    /\ scoped' = [scoped EXCEPT ![k] = NoScopes]
    /\ indexed' = indexed \ {k}

\* removeFileEntries: the name buckets are reached through the file's entries.
RemoveFileEntries(k) ==
    /\ named' = named \ filed[k]
    /\ filed' = [filed EXCEPT ![k] = {}]
    /\ scoped' = [scoped EXCEPT ![k] = NoScopes]
    /\ indexed' = indexed \ {k}

\* IndexFileFromResult, and what IndexFile does after parsing.
IndexFile(u, D, g) ==
    /\ New(g)
    /\ named' = (named \ filed[KeyOf[u]]) \cup Own(u, Top, D, g)
    /\ filed' = [filed EXCEPT ![KeyOf[u]] = Own(u, Top, D, g)]
    /\ scoped' = [scoped EXCEPT ![KeyOf[u]] = NoScopes]
    /\ indexed' = indexed \cup {KeyOf[u]}

RemoveFile(u) == RemoveFileEntries(KeyOf[u])

\* Mutant of RemoveFilesUnder: as it once was, it clears the name buckets alone.
RemoveFilesUnderNames(p) ==
    /\ named' = {e \in named : e.uri \notin UnderRaw[p]}
    /\ UNCHANGED <<filed, scoped, indexed>>

\* RemoveFilesUnder: the name buckets are filtered by the entries' own URIs,
\* the per-file maps by their keys.
RemoveFilesUnder(p) ==
    /\ named' = {e \in named : e.uri \notin UnderRaw[p]}
    /\ filed' = [k \in Keys |-> IF k \in UnderKey[p] THEN {} ELSE filed[k]]
    /\ scoped' = [k \in Keys |-> IF k \in UnderKey[p] THEN NoScopes ELSE scoped[k]]
    /\ indexed' = indexed \ UnderKey[p]

\* Mutant of Moves: the entries on the edited line itself move too.
MovesBackToo(e, k, after) == e \in filed[k] /\ e.line >= after

\* ShiftLines replaces an entry that moves by a new one.
Moves(e, k, after) == e \in filed[k] /\ e.line > after
Shifted(e, k, after, delta, g) ==
    IF Moves(e, k, after) THEN [e EXCEPT !.line = @ + delta, !.at = g] ELSE e

\* Mutant of RemapScopes: the functions keep pointing to the old entries.
RemapScopesNot(k, after, delta, g) == UNCHANGED scoped

RemapScopes(k, after, delta, g) ==
    scoped' = [scoped EXCEPT ![k] =
                 [s \in Scopes |-> {Shifted(e, k, after, delta, g) : e \in @[s]}]]

\* All three places an entry is kept change together.
ShiftLines(u, after, delta, g) ==
    LET k == KeyOf[u] IN
    /\ New(g)
    /\ \E e \in filed[k] : Moves(e, k, after)
    /\ \A e \in filed[k] : e.line > after => e.line + delta \in Lines
    /\ named' = {Shifted(e, k, after, delta, g) : e \in named}
    /\ filed' = [filed EXCEPT ![k] = {Shifted(e, k, after, delta, g) : e \in @}]
    /\ RemapScopes(k, after, delta, g)
    /\ UNCHANGED indexed

\* SetFuncRefs: the references the function had are dropped wherever they are.
SetFuncRefs(u, s, D, g) ==
    LET prev == scoped[KeyOf[u]][s] IN
    /\ New(g)
    /\ named' = (named \ prev) \cup Own(u, s, D, g)
    /\ filed' = [filed EXCEPT ![KeyOf[u]] = (@ \ prev) \cup Own(u, s, D, g)]
    /\ scoped' = [scoped EXCEPT ![KeyOf[u]][s] = Own(u, s, D, g)]
    /\ UNCHANGED indexed

Next ==
    \/ \E u \in Uris, D \in SUBSET Decl, g \in Addresses : IndexFile(u, D, g)
    \/ \E u \in Uris : RemoveFile(u)
    \/ \E p \in Folders : RemoveFilesUnder(p)
    \/ \E u \in Uris, after \in Lines, delta \in Deltas, g \in Addresses :
         ShiftLines(u, after, delta, g)
    \/ \E u \in Uris, s \in Scopes, D \in SUBSET Decl, g \in Addresses :
         SetFuncRefs(u, s, D, g)

Spec == Init /\ [][Next]_vars

-----------------------------------------------------------------------------
(* Properties *)

\* "The two views cannot disagree": what a lookup by name finds is what the
\* lookups by file find, each entry filed under its own URI's key, whatever
\* spellings the file was opened, indexed and removed under.
ViewsAgree ==
    \A e \in Entry, k \in Keys :
        e \in filed[k] <=> e \in named /\ KeyOf[e.uri] = k

\* A function's references can always be replaced: every one that is filed is
\* remembered under its function, so hovering and editing in turn leaves one
\* generation of them and not one per hover.
NothingAccumulates ==
    \A k \in Keys, s \in Scopes : scoped[k][s] = {e \in filed[k] : e.scope = s}

\* What the name buckets hold is a table of files in which each operation
\* replaces what it is about and nothing else.
Row(e) == [name |-> e.name, line |-> e.line, scope |-> e.scope]
Declared ==
    [k \in Keys |-> {Row(e) : e \in {n \in named : KeyOf[n.uri] = k}}]

Abstract == INSTANCE FileTable WITH table <- Declared, known <- indexed

ImplementsFileTable == Abstract!TableSpec

=============================================================================
