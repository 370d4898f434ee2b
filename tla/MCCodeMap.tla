------------------------------ MODULE MCCodeMap ------------------------------
(* Two pages, q coming and going, a component of two texts, and a component  *)
(* outside the tree; two workers.  Twins gives q a text of p.                *)
EXTENDS CodeMap, TLC
CONSTANTS c, p, q, o, c1, c2, p1, p2, q1, f1, f2, Twins

MCFiles == {c, p, q}
MCText == {c1, c2, p1, p2, q1}
MCTextsOf == (c :> {c1, c2}) @@ (p :> {p1, p2}) @@ (q :> IF Twins THEN {q1, p1} ELSE {q1})
MCFuncs == (c1 :> {f1}) @@ (c2 :> {f2}) @@ (p1 :> {}) @@ (p2 :> {}) @@ (q1 :> {f1})
Call(by, to, fn) == [by |-> by, to |-> to, fn |-> fn]
MCCalls == (c1 :> {Call(f1, c, f1)}) @@ (c2 :> {Call(f2, c, f1)})
  @@ (p1 :> {Call(Top, c, f1)}) @@ (p2 :> {Call(Top, c, f2)}) @@ (q1 :> {Call(f1, c, f2)})
Ref(by, to, kind) == [by |-> by, to |-> to, kind |-> kind]
MCRefs == (c1 :> {}) @@ (c2 :> {Ref(Top, o, "extends")}) @@ (p1 :> {Ref(Top, c, "instantiates")})
  @@ (p2 :> {}) @@ (q1 :> {Ref(f1, c, "instantiates"), Ref(Top, o, "instantiates")})
MCIncls == (c1 :> {}) @@ (c2 :> {}) @@ (p1 :> {}) @@ (p2 :> {}) @@ (q1 :> {p})

\* WorkerGoesOn and CommandGoesOn are the guards of the steps, which a proof about
\* them rests on.
GuardsAreSteps ==
  /\ CommandGoesOn <=> ENABLED CommandStep
  /\ \A w \in Workers : WorkerGoesOn(w) <=> ENABLED WorkerStep(w)
==============================================================================
