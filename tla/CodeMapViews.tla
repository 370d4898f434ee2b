---------------------------- MODULE CodeMapViews ----------------------------
(***************************************************************************)
(* What `clif graph` does with a map it has built: annotate it, narrow it  *)
(* to a path (--under), to what runs or what is left over (--from, --live, *)
(* --detached), roll it up (--level), and list its cycles.                 *)
(*                                                                         *)
(* Names are numbers, in the order of the strings they stand for.  Kind and  *)
(* FileOf say what an id names; a map holds some ids, edges between them   *)
(* and the marks.  Breadth-first walks are modelled by the set they reach; *)
(* Tarjan's algorithm, iterative in the code, by its steps.                *)
(***************************************************************************)
EXTENDS Naturals, Sequences, FiniteSets

CONSTANTS
  Names,        \* what may be named, a finite set of naturals
  Kind,       \* [Names -> {"file", "function", "external", "package"}]
  FileOf,     \* [Names -> the id of its file]; an external is its own
  PackageOf,  \* [Names -> the id of its file's directory]; an external is its own
  Built,      \* [nodes, edges, entry, util] of the maps Build may return
  Scopes,     \* what --under may cover: sets of ids
  Starts      \* what --from may name: sets of ids

ASSUME ViewsAssumption ==
  /\ IsFiniteSet(Names) /\ Names \subseteq Nat
  /\ FileOf \in [Names -> Names] /\ PackageOf \in [Names -> Names]
  /\ \A i \in Names : Kind[i] = "external" => FileOf[i] = i /\ PackageOf[i] = i
  /\ \A b \in Built : /\ b.nodes \subseteq Names
                      /\ \A e \in b.edges : e[1] \in b.nodes /\ e[2] \in b.nodes

VARIABLES
  stage,      \* "built", "scoped", "chosen", "levelled", then "cycles", "done"
  m,       \* the map
  prev,    \* the map before the last view
  view,    \* the last view: its name and what it was given
  work,    \* Cycles: the frames [node, left]: a node, its children not looked at
  stack,   \* Cycles: nodes not yet in a component
  index,   \* Cycles: the number of each node that was visited
  low,     \* Cycles: the lowest number it is known to reach
  found    \* Cycles: the components so far

viewVars == <<stage, m, prev, view, work, stack, index, low, found>>
tarjan == <<work, stack, index, low, found>>

-----------------------------------------------------------------------------
Lowest(S) == CHOOSE i \in S : \A j \in S : i <= j

Structural(edges) == {e \in edges : e[3] # "contains"}
Forward(edges) == {<<e[1], e[2]>> : e \in Structural(edges)}
Undirected(edges) == {<<e[1], e[2]>> : e \in edges} \cup {<<e[2], e[1]>> : e \in edges}

\* What a queue that starts with `from` has seen when it is empty: the least
\* set with `from` in it that no arc leaves.
Seen(arcs, from) ==
  LET heads  == {a[2] : a \in arcs}
      closed == {S \in {from \cup T : T \in SUBSET heads} : \A a \in arcs : a[1] \in S => a[2] \in S}
  IN {i \in from \cup heads : \A S \in closed : i \in S}

\* Islands are numbered from 0 in the order of their lowest ids.
IslandsOf(nodes, edges) ==
  LET arcs   == Undirected(edges)
      lowest == [n \in nodes |-> Lowest(Seen(arcs, {n}))]
  IN [n \in nodes |-> Cardinality({lowest[k] : k \in {j \in nodes : lowest[j] < lowest[n]}})]

\* markRoots: the nodes nothing depends on; an island without one has its
\* lowest node named.
RootsOf(nodes, edges, island) ==
  LET free == {n \in nodes : \A e \in Structural(edges) : e[2] # n}
      mates(n) == {k \in nodes : island[k] = island[n]}
  IN free \cup {n \in nodes : mates(n) \cap free = {} /\ n = Lowest(mates(n))}

Annotate(raw) ==
  LET island == IslandsOf(raw.nodes, raw.edges)
  IN [nodes |-> raw.nodes, edges |-> raw.edges, entry |-> raw.entry, util |-> raw.util,
      boundary |-> raw.boundary,
      island |-> island,
      reachable |-> Seen(Forward(raw.edges), raw.entry) \cap raw.nodes,
      roots |-> RootsOf(raw.nodes, raw.edges, island)]

\* Mutant of Subgraph: the marks of the whole map are kept.
SubgraphStale(g, keep) ==
  LET nodes == g.nodes \cap keep IN
  [nodes |-> nodes,
   edges |-> {e \in g.edges : e[1] \in keep /\ e[2] \in keep},
   entry |-> g.entry \cap keep, util |-> g.util \cap keep, boundary |-> g.boundary \cap keep,
   island |-> [n \in nodes |-> g.island[n]],
   reachable |-> g.reachable \cap keep, roots |-> g.roots \cap keep]

\* Map.subgraph: nodes and edges that stay keep their own marks, and those that
\* are about the whole graph are made anew.
Subgraph(g, keep) ==
  Annotate([nodes |-> g.nodes \cap keep,
            edges |-> {e \in g.edges : e[1] \in keep /\ e[2] \in keep},
            entry |-> g.entry \cap keep, util |-> g.util \cap keep,
            boundary |-> g.boundary \cap keep])

-----------------------------------------------------------------------------
(* The views.                                                              *)

Filter(g, scope) == Subgraph(g, scope)

\* Mutant of FilterUnder: only what the scope depends on is kept beside it.
FilterUnderCallees(g, scope) ==
  LET inScope == g.nodes \cap scope
      out == Subgraph(g, inScope \cup {e[2] : e \in {x \in Structural(g.edges) : x[1] \in inScope}})
  IN [out EXCEPT !.boundary = out.nodes \ inScope]

\* The scope, and the far ends of the edges that cross into it.
FilterUnder(g, scope) ==
  LET inScope == g.nodes \cap scope
      across  == {e \in Structural(g.edges) : e[1] \in inScope \/ e[2] \in inScope}
      out     == Subgraph(g, inScope \cup {e[1] : e \in across} \cup {e[2] : e \in across})
  IN [out EXCEPT !.boundary = out.nodes \ inScope]

Reachable(g, from) ==
  Subgraph(g, Seen(Forward(g.edges), IF from = {} THEN g.entry ELSE from))

Detached(g) == Subgraph(g, g.nodes \ g.reachable)

\* Functions, externals and whatever takes part in a call or a route.
CallGraph(g) ==
  LET calls == {e \in g.edges : e[3] \in {"calls", "route"}}
      keep  == {n \in g.nodes : \/ Kind[n] \in {"function", "external"}
                                \/ \E e \in calls : n \in {e[1], e[2]}}
  IN Annotate([nodes |-> keep, edges |-> {e \in calls : e[1] \in keep /\ e[2] \in keep},
               entry |-> g.entry \cap keep, util |-> g.util \cap keep,
               boundary |-> g.boundary \cap keep])

Target(n, level) == IF level = "file" THEN FileOf[n] ELSE PackageOf[n]

\* Mutant of EntryOf: a package is an entry if its files are.
EntryOfFiles(g, level) == {Target(n, level) : n \in {k \in g.entry : Kind[k] # "function"}}

\* collapseTarget: a function's entry mark passes to its package, not to its file.
EntryOf(g, level) ==
  {Target(n, level) : n \in {k \in g.entry : level = "package" \/ Kind[k] # "function"}}

\* A node is infrastructure if all that was merged into it is; the marks of a
\* scope are gone.
Collapse(g, level) ==
  LET moved == {<<Target(e[1], level), Target(e[2], level), e[3]>> : e \in Structural(g.edges)}
  IN Annotate([nodes |-> {Target(n, level) : n \in g.nodes},
               edges |-> {e \in moved : e[1] # e[2]},
               entry |-> EntryOf(g, level),
               util |-> {Target(n, level) : n \in g.util}
                          \ {Target(n, level) : n \in g.nodes \ g.util},
               boundary |-> {n \in g.boundary : Kind[n] = "external"}])

\* Orphans: what nothing depends on and nobody enters by.
Orphans(g) ==
  {n \in g.nodes : Kind[n] # "external" /\ n \notin g.entry
                     /\ \A e \in Structural(g.edges) : e[2] # n}

-----------------------------------------------------------------------------
(* The command: applyGraphViews, in this order, then the cycles.           *)

NoView == [name |-> "none", of |-> {}]

ViewsInit ==
  /\ \E b \in Built : m = Annotate(b)
  /\ stage = "built" /\ prev = m /\ view = NoView
  /\ work = <<>> /\ stack = <<>> /\ index = <<>> /\ low = <<>> /\ found = {}

Take(at, name, of, g) ==
  /\ stage' = at /\ prev' = m /\ m' = g /\ view' = [name |-> name, of |-> of]
  /\ UNCHANGED tarjan
Skip(at) == stage' = at /\ prev' = m /\ view' = NoView /\ UNCHANGED <<m, tarjan>>

Under ==
  /\ stage = "built"
  /\ \/ Skip("scoped")
     \/ \E s \in Scopes : Take("scoped", "under", s, FilterUnder(m, s))
     \/ \E s \in Scopes : Take("scoped", "strict", s, Filter(m, s))

Choose ==
  /\ stage = "scoped"
  /\ \/ Skip("chosen")
     \/ \E from \in Starts : Take("chosen", "from", from, Reachable(m, from))
     \/ Take("chosen", "live", {}, Reachable(m, {}))
     \/ Take("chosen", "detached", {}, Detached(m))

Level ==
  /\ stage = "chosen"
  /\ \/ Skip("levelled")
     \/ Take("levelled", "call", {}, CallGraph(m))
     \/ \E l \in {"file", "package"} : Take("levelled", l, {}, Collapse(m, l))

\* The text report asks for the cycles: from here only the graph matters.
Report ==
  /\ stage = "levelled" /\ stage' = "cycles"
  /\ m' = [nodes |-> m.nodes, edges |-> {<<a[1], a[2], "any">> : a \in Forward(m.edges)}]
  /\ prev' = m' /\ view' = NoView
  /\ UNCHANGED tarjan

-----------------------------------------------------------------------------
(* Map.Cycles.                                                             *)

\* A node's dependencies; they are looked at in the order of the edges, which
\* are sorted.
Children(n) == {e[2] : e \in {x \in Structural(m.edges) : x[1] = n}}
OnStack(n) == \E i \in 1..Len(stack) : stack[i] = n
Visited == DOMAIN index
With(f, n, v) == [k \in DOMAIN f \cup {n} |-> IF k = n THEN v ELSE f[k]]

Push(n, rest) ==
  /\ index' = With(index, n, Cardinality(Visited))
  /\ low' = With(low, n, Cardinality(Visited))
  /\ stack' = Append(stack, n)
  /\ work' = Append(rest, [node |-> n, left |-> Children(n)])
  /\ UNCHANGED found

\* The next node in order that was not visited is a root of the search.
NextRoot ==
  /\ stage = "cycles" /\ work = <<>> /\ m.nodes \ Visited # {}
  /\ Push(Lowest(m.nodes \ Visited), <<>>)
  /\ UNCHANGED <<stage, m, prev, view>>

Frame == work[Len(work)]
Below == SubSeq(work, 1, Len(work) - 1)
Advanced == Append(Below, [Frame EXCEPT !.left = @ \ {Lowest(@)}])
Less(a, b) == IF a < b THEN a ELSE b

\* The top frame looks at its next child.
NextChild ==
  /\ stage = "cycles" /\ work # <<>> /\ Frame.left # {}
  /\ LET child == Lowest(Frame.left) IN
       \/ child \notin Visited /\ Push(child, Advanced)
       \/ /\ child \in Visited
          /\ work' = Advanced
          /\ low' = IF OnStack(child)
                    THEN [low EXCEPT ![Frame.node] = Less(@, index[child])] ELSE low
          /\ UNCHANGED <<stack, index, found>>
  /\ UNCHANGED <<stage, m, prev, view>>

\* Mutant of Return: what a child reached is not handed to its parent.
ReturnNothing ==
  /\ stage = "cycles" /\ work # <<>> /\ Frame.left = {}
  /\ LET n == Frame.node
         at == CHOOSE i \in 1..Len(stack) : stack[i] = n
         component == {stack[i] : i \in at..Len(stack)}
     IN IF low[n] = index[n]
        THEN /\ stack' = SubSeq(stack, 1, at - 1)
             /\ found' = IF Cardinality(component) > 1 THEN found \cup {component} ELSE found
        ELSE UNCHANGED <<stack, found>>
  /\ work' = Below
  /\ UNCHANGED <<stage, m, prev, view, index, low>>

\* The top frame is done: if it is the root of a component, that is taken off
\* the stack, and listed unless it is a single node without a loop; its parent
\* learns what it reached.
Return ==
  /\ stage = "cycles" /\ work # <<>> /\ Frame.left = {}
  /\ LET n == Frame.node
         at == CHOOSE i \in 1..Len(stack) : stack[i] = n
         component == {stack[i] : i \in at..Len(stack)}
     IN /\ IF low[n] = index[n]
           THEN /\ stack' = SubSeq(stack, 1, at - 1)
                /\ found' = IF Cardinality(component) > 1 \/ n \in Children(n)
                            THEN found \cup {component} ELSE found
           ELSE UNCHANGED <<stack, found>>
        /\ low' = IF Below = <<>> THEN low
                  ELSE [low EXCEPT ![Below[Len(Below)].node] = Less(@, low[n])]
  /\ work' = Below
  /\ UNCHANGED <<stage, m, prev, view, index>>

Done ==
  /\ stage = "cycles" /\ work = <<>> /\ m.nodes \subseteq Visited
  /\ stage' = "done"
  /\ UNCHANGED <<m, prev, view, tarjan>>

ViewsNext == Under \/ Choose \/ Level \/ Report \/ NextRoot \/ NextChild \/ Return \/ Done

ViewsSpec == ViewsInit /\ [][ViewsNext]_viewVars

-----------------------------------------------------------------------------
(* Properties.                                                             *)

Shown == stage \in {"built", "scoped", "chosen", "levelled"}

\* What the views say of a node agrees with what they show: --live leaves only
\* reachable nodes and --detached none, the two share no node and lose none,
\* rolling up to packages keeps every node that runs in one that runs, no view
\* shows a node that runs as an orphan, and every island has a root to draw it
\* from (TestDetachedIsTheComplementOfReachable, TestCollapsePreservesEntryness).
LiveStaysLive ==
  /\ view.name = "live" =>
       m.reachable = m.nodes /\ m.nodes \cap Detached(prev).nodes = {}
         /\ m.nodes \cup Detached(prev).nodes = prev.nodes
  /\ view.name = "detached" => m.reachable = {}
  /\ view.name = "package" => {PackageOf[n] : n \in prev.reachable} \subseteq m.reachable
  /\ Shown => /\ Orphans(m) \cap m.reachable = {}
              /\ \A e \in m.edges : m.island[e[1]] = m.island[e[2]]
              /\ \A n \in m.nodes : \E r \in m.roots : m.island[r] = m.island[n]

\* A scoped map shows who depends on a node of the scope and what that depends
\* on, exactly as the whole map does, and marks what it adds; nothing else is
\* added (FilterUnder: "the answer" is the callers from outside).
ScopeKeepsNeighbours ==
  view.name = "under" =>
    /\ \A e \in Structural(prev.edges) : (e[1] \in view.of \/ e[2] \in view.of) => e \in m.edges
    /\ m.nodes \cap view.of = prev.nodes \cap view.of
    /\ \A n \in m.boundary : n \notin view.of /\ \E e \in Structural(m.edges) :
         (e[1] = n /\ e[2] \in view.of) \/ (e[2] = n /\ e[1] \in view.of)

\* The nodes that depend on each other, and those that depend on themselves.
Knots ==
  LET arcs == Forward(m.edges)
      back(n) == {k \in Seen(arcs, {n}) : n \in Seen(arcs, {k})}
  IN {back(n) : n \in {k \in m.nodes : Cardinality(back(k)) > 1 \/ <<k, k>> \in arcs}}

\* Cycles lists exactly the strongly connected components that are cycles,
\* whatever the order in which nodes and edges come.
CyclesAreTheKnots == stage = "done" => found = Knots

================================================================================
