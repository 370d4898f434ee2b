--------------------------- MODULE MCCodeMapViews ---------------------------
(* A page, two components of one directory with a function each, in some     *)
(* choice of calls, references and entry points.                             *)
EXTENDS CodeMapViews, TLC

page == 1
comp == 2
cfun == 3
other == 4
ofun == 5
ext == 6     \* a call that leaves the workspace
top == 7     \* the page's directory
pack == 8    \* the components' directory
MCNames == 1..8
MCKind == <<"file", "file", "function", "file", "function", "external", "package", "package">>
MCFileOf == <<1, 2, 2, 4, 4, 6, 7, 8>>
MCPackageOf == <<7, 8, 8, 8, 8, 6, 7, 8>>
Declares == {<<comp, cfun, "contains">>, <<other, ofun, "contains">>}
Candidates == {<<page, cfun, "calls">>, <<page, ofun, "route">>, <<page, comp, "instantiates">>,
  <<cfun, ofun, "calls">>, <<ofun, cfun, "calls">>, <<comp, other, "extends">>,
  <<ofun, comp, "instantiates">>, <<other, ofun, "calls">>, <<cfun, ext, "calls">>,
  <<comp, comp, "instantiates">>}
MCBuilt ==
  {[nodes |-> 1..6, edges |-> Declares \cup more, entry |-> {page} \cup remote,
    util |-> {other, ofun}, boundary |-> {}] :
     more \in SUBSET Candidates, remote \in {{}, {cfun}}}
MCScopes == {{page, top}, {other, ofun}}
MCStarts == {{comp}}
==============================================================================
