---------------------------- MODULE Index_proofs ----------------------------
(***************************************************************************)
(* The two views of the index, and the references remembered per function, *)
(* agree after every sequence of writes, for any files, spellings, names   *)
(* and lines, as long as a folder's URI is spelled like its files'; and    *)
(* each write has the effect on lookups that FileTable gives it.           *)
(***************************************************************************)
EXTENDS Index, TLAPS

IInv == TypeOK /\ ViewsAgree /\ NothingAccumulates

\* The entries of one write are entries, all of one file and one scope.
LEMMA OwnEntries ==
    ASSUME NEW u \in Uris, NEW s \in Scopes \cup {Top}, NEW D \in SUBSET Decl,
           NEW g \in Addresses
    PROVE  /\ Own(u, s, D, g) \in SUBSET Entry
           /\ \A e \in Own(u, s, D, g) : e.uri = u /\ e.scope = s
    BY DEF Own, Entry, Decl

\* An entry that is replaced keeps its file and its scope, and stays an entry.
LEMMA ShiftedEntry ==
    ASSUME TypeOK, NEW k \in Keys, NEW after \in Lines, NEW delta \in Deltas,
           NEW g \in Addresses, NEW e \in Entry,
           \A x \in filed[k] : x.line > after => x.line + delta \in Lines
    PROVE  /\ Shifted(e, k, after, delta, g) \in Entry
           /\ Shifted(e, k, after, delta, g).uri = e.uri
           /\ Shifted(e, k, after, delta, g).scope = e.scope
           /\ Shifted(e, k, after, delta, g).name = e.name
    <1>1. CASE Moves(e, k, after)
        <2>1. e.line + delta \in Lines BY <1>1 DEF Moves
        <2> QED BY <1>1, <2>1 DEF Shifted, Entry
    <1>2. CASE ~Moves(e, k, after)
        BY <1>2 DEF Shifted
    <1> QED BY <1>1, <1>2

LEMMA InitInv == Init => IInv
    BY DEF Init, IInv, TypeOK, ViewsAgree, NothingAccumulates, NoScopes

LEMMA IndexFileInv ==
    ASSUME IInv, NEW u \in Uris, NEW D \in SUBSET Decl, NEW g \in Addresses,
           IndexFile(u, D, g)
    PROVE  IInv'
    <1> DEFINE k == KeyOf[u]
               own == Own(u, Top, D, g)
    <1>1. k \in Keys BY IndexAssumption
    <1>2. own \in SUBSET Entry /\ \A e \in own : e.uri = u /\ e.scope = Top
        BY OwnEntries
    <1>3. /\ named' = (named \ filed[k]) \cup own
          /\ filed' = [filed EXCEPT ![k] = own]
          /\ scoped' = [scoped EXCEPT ![k] = NoScopes]
          /\ indexed' = indexed \cup {k}
        BY DEF IndexFile
    <1> HIDE DEF own, k
    <1>4. TypeOK'
        BY <1>1, <1>2, <1>3 DEF IInv, TypeOK, NoScopes
    <1>5. ViewsAgree'
        <2> SUFFICES ASSUME NEW e \in Entry, NEW j \in Keys
                     PROVE  e \in filed'[j] <=> e \in named' /\ KeyOf[e.uri] = j
            BY DEF ViewsAgree
        <2>1. CASE j = k
            BY <2>1, <1>1, <1>2, <1>3 DEF IInv, TypeOK, ViewsAgree, k
        <2>2. CASE j # k
            BY <2>2, <1>1, <1>2, <1>3 DEF IInv, TypeOK, ViewsAgree, k
        <2> QED BY <2>1, <2>2
    <1>6. NothingAccumulates'
        <2> SUFFICES ASSUME NEW j \in Keys, NEW s \in Scopes
                     PROVE  scoped'[j][s] = {e \in filed'[j] : e.scope = s}
            BY DEF NothingAccumulates
        <2>1. CASE j = k
            BY <2>1, <1>1, <1>2, <1>3, IndexAssumption DEF IInv, TypeOK, NoScopes
        <2>2. CASE j # k
            BY <2>2, <1>1, <1>3 DEF IInv, TypeOK, NothingAccumulates
        <2> QED BY <2>1, <2>2
    <1> QED BY <1>4, <1>5, <1>6 DEF IInv

LEMMA RemoveFileInv ==
    ASSUME IInv, NEW u \in Uris, RemoveFile(u)
    PROVE  IInv'
    <1> DEFINE k == KeyOf[u]
    <1>1. k \in Keys BY IndexAssumption
    <1>2. /\ named' = named \ filed[k]
          /\ filed' = [filed EXCEPT ![k] = {}]
          /\ scoped' = [scoped EXCEPT ![k] = NoScopes]
          /\ indexed' = indexed \ {k}
        BY DEF RemoveFile, RemoveFileEntries
    <1> HIDE DEF k
    <1>3. TypeOK'
        BY <1>1, <1>2 DEF IInv, TypeOK, NoScopes
    <1>4. ViewsAgree'
        BY <1>1, <1>2 DEF IInv, TypeOK, ViewsAgree
    <1>5. NothingAccumulates'
        <2> SUFFICES ASSUME NEW j \in Keys, NEW s \in Scopes
                     PROVE  scoped'[j][s] = {e \in filed'[j] : e.scope = s}
            BY DEF NothingAccumulates
        <2>1. CASE j = k
            BY <2>1, <1>1, <1>2 DEF IInv, TypeOK, NoScopes
        <2>2. CASE j # k
            BY <2>2, <1>1, <1>2 DEF IInv, TypeOK, NothingAccumulates
        <2> QED BY <2>1, <2>2
    <1> QED BY <1>3, <1>4, <1>5 DEF IInv

\* Here the two normalisations have to cover the same files.
LEMMA RemoveFilesUnderInv ==
    ASSUME IInv, SpelledAlike, NEW p \in Folders, RemoveFilesUnder(p)
    PROVE  IInv'
    <1>1. /\ named' = {e \in named : e.uri \notin UnderRaw[p]}
          /\ filed' = [k \in Keys |-> IF k \in UnderKey[p] THEN {} ELSE filed[k]]
          /\ scoped' = [k \in Keys |-> IF k \in UnderKey[p] THEN NoScopes
                                                            ELSE scoped[k]]
          /\ indexed' = indexed \ UnderKey[p]
        BY DEF RemoveFilesUnder
    <1>2. TypeOK'
        BY <1>1 DEF IInv, TypeOK, NoScopes
    <1>3. ViewsAgree'
        <2> SUFFICES ASSUME NEW e \in Entry, NEW j \in Keys
                     PROVE  e \in filed'[j] <=> e \in named' /\ KeyOf[e.uri] = j
            BY DEF ViewsAgree
        <2>1. e.uri \in Uris BY DEF Entry
        <2>2. e.uri \in UnderRaw[p] <=> KeyOf[e.uri] \in UnderKey[p]
            BY <2>1 DEF SpelledAlike
        <2> QED BY <2>2, <1>1 DEF IInv, ViewsAgree
    <1>4. NothingAccumulates'
        <2> SUFFICES ASSUME NEW j \in Keys, NEW s \in Scopes
                     PROVE  scoped'[j][s] = {e \in filed'[j] : e.scope = s}
            BY DEF NothingAccumulates
        <2>1. CASE j \in UnderKey[p]
            BY <2>1, <1>1 DEF NoScopes
        <2>2. CASE j \notin UnderKey[p]
            BY <2>2, <1>1 DEF IInv, NothingAccumulates
        <2> QED BY <2>1, <2>2
    <1> QED BY <1>2, <1>3, <1>4 DEF IInv

LEMMA ShiftLinesInv ==
    ASSUME IInv, NEW u \in Uris, NEW after \in Lines, NEW delta \in Deltas,
           NEW g \in Addresses, ShiftLines(u, after, delta, g)
    PROVE  IInv'
    <1> DEFINE k == KeyOf[u]
               sh(e) == Shifted(e, k, after, delta, g)
    <1>1. k \in Keys BY IndexAssumption
    <1>2. /\ named' = {sh(e) : e \in named}
          /\ filed' = [filed EXCEPT ![k] = {sh(e) : e \in @}]
          /\ scoped' = [scoped EXCEPT ![k] =
                          [s \in Scopes |-> {sh(e) : e \in @[s]}]]
          /\ indexed' = indexed
          /\ \A x \in filed[k] : x.line > after => x.line + delta \in Lines
        BY DEF ShiftLines, RemapScopes
    <1>3. \A e \in Entry : sh(e) \in Entry /\ sh(e).uri = e.uri
                                           /\ sh(e).scope = e.scope
        BY <1>1, <1>2, ShiftedEntry DEF IInv
    <1>4. \A e : e \notin filed[k] => sh(e) = e
        BY DEF Shifted, Moves
    <1> HIDE DEF k, sh
    <1>5. TypeOK'
        <2>1. named' \subseteq Entry
            BY <1>2, <1>3 DEF IInv, TypeOK
        <2>2. filed' \in [Keys -> SUBSET Entry]
            BY <1>1, <1>2, <1>3 DEF IInv, TypeOK
        <2>3. [s \in Scopes |-> {sh(e) : e \in scoped[k][s]}]
                  \in [Scopes -> SUBSET Entry]
            BY <1>1, <1>3 DEF IInv, TypeOK
        <2>4. scoped' \in [Keys -> [Scopes -> SUBSET Entry]]
            BY <1>1, <1>2, <2>3 DEF IInv, TypeOK
        <2> QED BY <1>2, <2>1, <2>2, <2>4 DEF IInv, TypeOK
    <1>6. ViewsAgree'
        <2> SUFFICES ASSUME NEW e \in Entry, NEW j \in Keys
                     PROVE  e \in filed'[j] <=> e \in named' /\ KeyOf[e.uri] = j
            BY DEF ViewsAgree
        <2>1. CASE j = k
            <3>1. filed'[j] = {sh(x) : x \in filed[k]}
                BY <2>1, <1>1, <1>2 DEF IInv, TypeOK
            <3>2. ASSUME e \in filed'[j]
                  PROVE  e \in named' /\ KeyOf[e.uri] = j
                <4>1. PICK x \in filed[k] : e = sh(x) BY <3>1, <3>2
                <4>2. x \in Entry /\ x \in named /\ KeyOf[x.uri] = k
                    BY <4>1, <1>1 DEF IInv, TypeOK, ViewsAgree
                <4> QED BY <4>1, <4>2, <1>2, <1>3, <2>1
            <3>3. ASSUME e \in named', KeyOf[e.uri] = j
                  PROVE  e \in filed'[j]
                <4>1. PICK x \in named : e = sh(x) BY <3>3, <1>2
                <4>2. x \in Entry /\ KeyOf[x.uri] = k
                    BY <4>1, <1>3, <3>3, <2>1 DEF IInv, TypeOK
                <4>3. x \in filed[k] BY <4>1, <4>2, <1>1 DEF IInv, ViewsAgree
                <4> QED BY <4>1, <4>3, <3>1
            <3> QED BY <3>2, <3>3
        <2>2. CASE j # k
            <3>1. filed'[j] = filed[j]
                BY <2>2, <1>2 DEF IInv, TypeOK
            <3>2. ASSUME e \in filed'[j]
                  PROVE  e \in named' /\ KeyOf[e.uri] = j
                <4>1. e \in named /\ KeyOf[e.uri] = j
                    BY <3>1, <3>2 DEF IInv, ViewsAgree
                <4>2. e \notin filed[k]
                    BY <4>1, <2>2, <1>1 DEF IInv, ViewsAgree
                <4> QED BY <4>1, <4>2, <1>2, <1>4
            <3>3. ASSUME e \in named', KeyOf[e.uri] = j
                  PROVE  e \in filed'[j]
                <4>1. PICK x \in named : e = sh(x) BY <3>3, <1>2
                <4>2. x \in Entry /\ KeyOf[x.uri] = j
                    BY <4>1, <1>3, <3>3 DEF IInv, TypeOK
                <4>3. x \in filed[j] /\ x \notin filed[k]
                    BY <4>1, <4>2, <2>2, <1>1 DEF IInv, ViewsAgree
                <4> QED BY <4>1, <4>3, <1>4, <3>1
            <3> QED BY <3>2, <3>3
        <2> QED BY <2>1, <2>2
    <1>7. NothingAccumulates'
        <2> SUFFICES ASSUME NEW j \in Keys, NEW s \in Scopes
                     PROVE  scoped'[j][s] = {e \in filed'[j] : e.scope = s}
            BY DEF NothingAccumulates
        <2>1. CASE j = k
            <3>1. filed'[j] = {sh(x) : x \in filed[k]}
                BY <2>1, <1>1, <1>2 DEF IInv, TypeOK
            <3>2. scoped'[j][s] = {sh(x) : x \in scoped[k][s]}
                BY <2>1, <1>1, <1>2 DEF IInv, TypeOK
            <3>3. scoped[k][s] = {x \in filed[k] : x.scope = s}
                BY <1>1 DEF IInv, NothingAccumulates
            <3>4. \A x \in filed[k] : sh(x).scope = x.scope
                BY <1>1, <1>3 DEF IInv, TypeOK
            <3> QED BY <3>1, <3>2, <3>3, <3>4
        <2>2. CASE j # k
            BY <2>2, <1>1, <1>2 DEF IInv, TypeOK, NothingAccumulates
        <2> QED BY <2>1, <2>2
    <1> QED BY <1>5, <1>6, <1>7 DEF IInv

LEMMA SetFuncRefsInv ==
    ASSUME IInv, NEW u \in Uris, NEW s \in Scopes, NEW D \in SUBSET Decl,
           NEW g \in Addresses, SetFuncRefs(u, s, D, g)
    PROVE  IInv'
    <1> DEFINE k == KeyOf[u]
               prev == scoped[k][s]
               own == Own(u, s, D, g)
    <1>1. k \in Keys BY IndexAssumption
    <1>2. own \in SUBSET Entry /\ \A e \in own : e.uri = u /\ e.scope = s
        BY OwnEntries
    <1>3. /\ named' = (named \ prev) \cup own
          /\ filed' = [filed EXCEPT ![k] = (@ \ prev) \cup own]
          /\ scoped' = [scoped EXCEPT ![k][s] = own]
          /\ indexed' = indexed
        BY DEF SetFuncRefs
    <1>4. prev = {e \in filed[k] : e.scope = s}
        BY <1>1 DEF IInv, NothingAccumulates
    <1>5. KeyOf[u] = k BY DEF k
    <1> HIDE DEF own, prev, k
    <1>6. TypeOK'
        BY <1>1, <1>2, <1>3 DEF IInv, TypeOK
    <1>7. ViewsAgree'
        <2> SUFFICES ASSUME NEW e \in Entry, NEW j \in Keys
                     PROVE  e \in filed'[j] <=> e \in named' /\ KeyOf[e.uri] = j
            BY DEF ViewsAgree
        <2>1. CASE j = k
            BY <2>1, <1>1, <1>2, <1>3, <1>5 DEF IInv, TypeOK, ViewsAgree
        <2>2. CASE j # k
            BY <2>2, <1>1, <1>2, <1>3, <1>4, <1>5 DEF IInv, TypeOK, ViewsAgree
        <2> QED BY <2>1, <2>2
    <1>8. NothingAccumulates'
        <2> SUFFICES ASSUME NEW j \in Keys, NEW r \in Scopes
                     PROVE  scoped'[j][r] = {e \in filed'[j] : e.scope = r}
            BY DEF NothingAccumulates
        <2>1. CASE j = k /\ r = s
            <3>1. scoped'[j][r] = own
                BY <2>1, <1>1, <1>3 DEF IInv, TypeOK
            <3>2. filed'[j] = (filed[k] \ prev) \cup own
                BY <2>1, <1>1, <1>3 DEF IInv, TypeOK
            <3> QED BY <3>1, <3>2, <2>1, <1>2, <1>4
        <2>2. CASE j = k /\ r # s
            <3>1. scoped'[j][r] = {e \in filed[k] : e.scope = r}
                BY <2>2, <1>1, <1>3 DEF IInv, TypeOK, NothingAccumulates
            <3>2. filed'[j] = (filed[k] \ prev) \cup own
                BY <2>2, <1>1, <1>3 DEF IInv, TypeOK
            <3> QED BY <3>1, <3>2, <2>2, <1>2, <1>4
        <2>3. CASE j # k
            BY <2>3, <1>1, <1>3 DEF IInv, TypeOK, NothingAccumulates
        <2> QED BY <2>1, <2>2, <2>3
    <1> QED BY <1>6, <1>7, <1>8 DEF IInv

LEMMA NextInv ==
    ASSUME IInv, SpelledAlike, [Next]_vars
    PROVE  IInv'
    <1>1. ASSUME NEW u \in Uris, NEW D \in SUBSET Decl, NEW g \in Addresses,
                 IndexFile(u, D, g)
          PROVE  IInv'
        BY <1>1, IndexFileInv
    <1>2. ASSUME NEW u \in Uris, RemoveFile(u)
          PROVE  IInv'
        BY <1>2, RemoveFileInv
    <1>3. ASSUME NEW p \in Folders, RemoveFilesUnder(p)
          PROVE  IInv'
        BY <1>3, RemoveFilesUnderInv
    <1>4. ASSUME NEW u \in Uris, NEW after \in Lines, NEW delta \in Deltas,
                 NEW g \in Addresses, ShiftLines(u, after, delta, g)
          PROVE  IInv'
        BY <1>4, ShiftLinesInv
    <1>5. ASSUME NEW u \in Uris, NEW s \in Scopes, NEW D \in SUBSET Decl,
                 NEW g \in Addresses, SetFuncRefs(u, s, D, g)
          PROVE  IInv'
        BY <1>5, SetFuncRefsInv
    <1>6. CASE UNCHANGED vars
        BY <1>6 DEF vars, IInv, TypeOK, ViewsAgree, NothingAccumulates
    <1> QED BY <1>1, <1>2, <1>3, <1>4, <1>5, <1>6 DEF Next

\* However files are re-indexed, removed, shifted and looked into, a lookup by
\* name finds what a lookup by file finds, and the references of a function
\* are those of its last indexing: for any number of files and spellings, if a
\* folder's URI is a prefix of exactly the spellings its key is a prefix of.
THEOREM ViewsAlwaysAgree ==
    ASSUME SpelledAlike
    PROVE  Spec => [](TypeOK /\ ViewsAgree /\ NothingAccumulates)
    <1>1. Init => IInv BY InitInv
    <1>2. IInv /\ [Next]_vars => IInv' BY NextInv
    <1>3. IInv => TypeOK /\ ViewsAgree /\ NothingAccumulates BY DEF IInv
    <1> QED BY <1>1, <1>2, <1>3, PTL DEF Spec

-----------------------------------------------------------------------------
(* Refinement of FileTable *)

Rows(S) == {Row(e) : e \in S}

\* What is declared can be read off the per-file view as well.
LEMMA DeclaredByFile ==
    ASSUME IInv
    PROVE  /\ Declared = [k \in Keys |-> Rows(filed[k])]
           /\ \A k \in Keys : Declared[k] = Rows(filed[k])
    <1>1. \A k \in Keys : {n \in named : KeyOf[n.uri] = k} = filed[k]
        BY DEF IInv, TypeOK, ViewsAgree
    <1> QED BY <1>1 DEF Declared, Rows

LEMMA DeclaredByFileNext ==
    ASSUME IInv'
    PROVE  Declared' = [k \in Keys |-> Rows(filed'[k])]
    <1>1. \A k \in Keys : {n \in named' : KeyOf[n.uri] = k} = filed'[k]
        BY DEF IInv, TypeOK, ViewsAgree
    <1> QED BY <1>1 DEF Declared, Rows

LEMMA OwnRows ==
    ASSUME NEW u \in Uris, NEW s \in Scopes \cup {Top}, NEW D \in SUBSET Decl,
           NEW g \in Addresses
    PROVE  Rows(Own(u, s, D, g)) = Abstract!In(s, D)
    <1>1. \A d \in D : Row([at |-> g, uri |-> u, name |-> d.name,
                            line |-> d.line, scope |-> s])
                       = [name |-> d.name, line |-> d.line, scope |-> s]
        BY DEF Row
    <1> QED BY <1>1 DEF Rows, Own, Abstract!In

LEMMA IndexFilePuts ==
    ASSUME IInv, IInv', NEW u \in Uris, NEW D \in SUBSET Decl, NEW g \in Addresses,
           IndexFile(u, D, g)
    PROVE  Abstract!Put(KeyOf[u], D)
    <1> DEFINE k == KeyOf[u]
               own == Own(u, Top, D, g)
               in == Abstract!In(Top, D)
    <1>1. k \in Keys BY IndexAssumption
    <1>2. filed' = [filed EXCEPT ![k] = own] /\ indexed' = indexed \cup {k}
        BY DEF IndexFile
    <1>3. Rows(own) = in BY OwnRows
    <1> HIDE DEF k, own, in
    <1>4. \A j \in Keys : filed'[j] = IF j = k THEN own ELSE filed[j]
        BY <1>1, <1>2 DEF IInv, TypeOK
    <1>5. Declared' = [j \in Keys |-> IF j = k THEN in ELSE Rows(filed[j])]
        BY <1>3, <1>4, DeclaredByFileNext
    <1>6. Declared' = [Declared EXCEPT ![k] = in]
        BY <1>1, <1>5, DeclaredByFile
    <1> QED BY <1>2, <1>6 DEF Abstract!Put, k, in

LEMMA RemoveFileRemoves ==
    ASSUME IInv, IInv', NEW u \in Uris, RemoveFile(u)
    PROVE  Abstract!Remove(KeyOf[u])
    <1> DEFINE k == KeyOf[u]
    <1>1. k \in Keys BY IndexAssumption
    <1>2. filed' = [filed EXCEPT ![k] = {}] /\ indexed' = indexed \ {k}
        BY DEF RemoveFile, RemoveFileEntries
    <1> HIDE DEF k
    <1>3. \A j \in Keys : Rows(filed'[j]) = IF j = k THEN {} ELSE Rows(filed[j])
        BY <1>1, <1>2 DEF IInv, TypeOK, Rows
    <1>4. Declared' = [Declared EXCEPT ![k] = {}]
        BY <1>1, <1>3, DeclaredByFile, DeclaredByFileNext
    <1> QED BY <1>2, <1>4 DEF Abstract!Remove, k

LEMMA RemoveFilesUnderRemoves ==
    ASSUME IInv, IInv', NEW p \in Folders, RemoveFilesUnder(p)
    PROVE  Abstract!RemoveFolder(p)
    <1>1. /\ filed' = [k \in Keys |-> IF k \in UnderKey[p] THEN {} ELSE filed[k]]
          /\ indexed' = indexed \ UnderKey[p]
        BY DEF RemoveFilesUnder
    <1>2. \A j \in Keys : Rows(filed'[j]) = IF j \in UnderKey[p] THEN {}
                                                           ELSE Rows(filed[j])
        BY <1>1 DEF Rows
    <1>3. Declared' = [k \in Keys |-> IF k \in UnderKey[p] THEN {} ELSE Declared[k]]
        BY <1>2, DeclaredByFile, DeclaredByFileNext
    <1> QED BY <1>1, <1>3 DEF Abstract!RemoveFolder

LEMMA ShiftLinesShifts ==
    ASSUME IInv, IInv', NEW u \in Uris, NEW after \in Lines, NEW delta \in Deltas,
           NEW g \in Addresses, ShiftLines(u, after, delta, g)
    PROVE  Abstract!Shift(KeyOf[u], after, delta)
    <1> DEFINE k == KeyOf[u]
               sh(e) == Shifted(e, k, after, delta, g)
               mv(d) == Abstract!ShiftDecl(d, after, delta)
    <1>1. k \in Keys BY IndexAssumption
    <1>2. filed' = [filed EXCEPT ![k] = {sh(e) : e \in @}] /\ indexed' = indexed
        BY DEF ShiftLines
    <1>3. ASSUME NEW e \in filed[k]
          PROVE  Row(sh(e)) = mv(Row(e))
        <2>1. e \in Entry BY <1>1 DEF IInv, TypeOK
        <2>2. CASE e.line > after
            BY <2>1, <2>2 DEF Shifted, Moves, Row, Entry, Abstract!ShiftDecl
        <2>3. CASE ~(e.line > after)
            BY <2>1, <2>3 DEF Shifted, Moves, Row, Abstract!ShiftDecl
        <2> QED BY <2>2, <2>3
    <1> HIDE DEF k, sh, mv
    <1>4. filed'[k] = {sh(e) : e \in filed[k]}
        BY <1>1, <1>2 DEF IInv, TypeOK
    <1>5. Rows(filed'[k]) = {mv(d) : d \in Rows(filed[k])}
        BY <1>3, <1>4 DEF Rows
    <1>6. \A j \in Keys : j # k => filed'[j] = filed[j]
        BY <1>2 DEF IInv, TypeOK
    <1>7. Declared' = [Declared EXCEPT ![k] = {mv(d) : d \in @}]
        BY <1>1, <1>5, <1>6, DeclaredByFile, DeclaredByFileNext
    <1> QED BY <1>2, <1>7 DEF Abstract!Shift, k, mv

LEMMA SetFuncRefsPuts ==
    ASSUME IInv, IInv', NEW u \in Uris, NEW s \in Scopes, NEW D \in SUBSET Decl,
           NEW g \in Addresses, SetFuncRefs(u, s, D, g)
    PROVE  Abstract!PutScope(KeyOf[u], s, D)
    <1> DEFINE k == KeyOf[u]
               own == Own(u, s, D, g)
               in == Abstract!In(s, D)
               rest == {e \in filed[k] : e.scope # s}
    <1>1. k \in Keys BY IndexAssumption
    <1>2. scoped[k][s] = {e \in filed[k] : e.scope = s}
        BY <1>1 DEF IInv, NothingAccumulates
    <1>3. filed' = [filed EXCEPT ![k] = rest \cup own] /\ indexed' = indexed
        BY <1>1, <1>2 DEF SetFuncRefs, IInv, TypeOK
    <1>4. Rows(own) = in BY OwnRows
    <1>5. Rows(rest) = {d \in Rows(filed[k]) : d.scope # s}
        BY DEF Rows, Row
    <1> HIDE DEF k, own, in, rest
    <1>6. filed'[k] = rest \cup own
        BY <1>1, <1>3 DEF IInv, TypeOK
    <1>7. Rows(filed'[k]) = {d \in Rows(filed[k]) : d.scope # s} \cup in
        BY <1>4, <1>5, <1>6 DEF Rows
    <1>8. \A j \in Keys : j # k => filed'[j] = filed[j]
        BY <1>3 DEF IInv, TypeOK
    <1>9. Declared' = [Declared EXCEPT ![k] = {d \in @ : d.scope # s} \cup in]
        BY <1>1, <1>7, <1>8, DeclaredByFile, DeclaredByFileNext
    <1> QED BY <1>3, <1>9 DEF Abstract!PutScope, k, in

LEMMA NextRefines ==
    ASSUME IInv, IInv', [Next]_vars
    PROVE  [Abstract!TableNext]_<<Declared, indexed>>
    <1>1. \A u \in Uris : KeyOf[u] \in Keys BY IndexAssumption
    <1>2. Decl = Abstract!Decl BY DEF Decl, Abstract!Decl
    <1>3. ASSUME NEW u \in Uris, NEW D \in SUBSET Decl, NEW g \in Addresses,
                 IndexFile(u, D, g)
          PROVE  Abstract!TableNext
        BY <1>1, <1>2, <1>3, IndexFilePuts DEF Abstract!TableNext
    <1>4. ASSUME NEW u \in Uris, RemoveFile(u)
          PROVE  Abstract!TableNext
        BY <1>1, <1>4, RemoveFileRemoves DEF Abstract!TableNext
    <1>5. ASSUME NEW p \in Folders, RemoveFilesUnder(p)
          PROVE  Abstract!TableNext
        BY <1>5, RemoveFilesUnderRemoves DEF Abstract!TableNext
    <1>6. ASSUME NEW u \in Uris, NEW after \in Lines, NEW delta \in Deltas,
                 NEW g \in Addresses, ShiftLines(u, after, delta, g)
          PROVE  Abstract!TableNext
        BY <1>1, <1>6, ShiftLinesShifts DEF Abstract!TableNext
    <1>7. ASSUME NEW u \in Uris, NEW s \in Scopes, NEW D \in SUBSET Decl,
                 NEW g \in Addresses, SetFuncRefs(u, s, D, g)
          PROVE  Abstract!TableNext
        BY <1>1, <1>2, <1>7, SetFuncRefsPuts DEF Abstract!TableNext
    <1>8. CASE UNCHANGED vars
        BY <1>8 DEF vars, Declared
    <1> QED BY <1>3, <1>4, <1>5, <1>6, <1>7, <1>8 DEF Next

WritesItsOwn ==
    /\ \A u \in Uris, D \in SUBSET Decl, g \in Addresses :
         IndexFile(u, D, g) => Abstract!Put(KeyOf[u], D)
    /\ \A u \in Uris : RemoveFile(u) => Abstract!Remove(KeyOf[u])
    /\ \A p \in Folders : RemoveFilesUnder(p) => Abstract!RemoveFolder(p)
    /\ \A u \in Uris, after \in Lines, delta \in Deltas, g \in Addresses :
         ShiftLines(u, after, delta, g) => Abstract!Shift(KeyOf[u], after, delta)
    /\ \A u \in Uris, s \in Scopes, D \in SUBSET Decl, g \in Addresses :
         SetFuncRefs(u, s, D, g) => Abstract!PutScope(KeyOf[u], s, D)

\* Each write of the index has on the lookups the effect its own arguments
\* name: what was written is what is found, and nothing more of it.  (That the
\* index implements FileTable says only that some arguments explain it.)
THEOREM EachWriteIsItsOwn ==
    ASSUME SpelledAlike
    PROVE  Spec => [][WritesItsOwn]_vars
    <1>1. Init => IInv BY InitInv
    <1>2. IInv /\ [Next]_vars => IInv' BY NextInv
    <1>3. IInv /\ IInv' => WritesItsOwn
        BY IndexFilePuts, RemoveFileRemoves, RemoveFilesUnderRemoves,
           ShiftLinesShifts, SetFuncRefsPuts DEF WritesItsOwn
    <1> QED BY <1>1, <1>2, <1>3, PTL DEF Spec

\* What lookups by name answer is a table of files: re-indexing a file
\* replaces what it declares, removing a file or a folder empties it, indexing
\* a function's references replaces that function's, an edit moves the lines
\* after it, and no operation touches anything else.
THEOREM IndexRefinesTable ==
    ASSUME SpelledAlike
    PROVE  Spec => ImplementsFileTable
    <1>1. Init => IInv BY InitInv
    <1>2. IInv /\ [Next]_vars => IInv' BY NextInv
    <1>3. Init => Abstract!TableInit
        BY DEF Init, Declared, Abstract!TableInit
    <1>4. IInv /\ IInv' /\ [Next]_vars => [Abstract!TableNext]_<<Declared, indexed>>
        BY NextRefines
    <1> QED BY <1>1, <1>2, <1>3, <1>4, PTL
        DEF Spec, ImplementsFileTable, Abstract!TableSpec, Abstract!tvars
=============================================================================
