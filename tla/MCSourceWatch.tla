---------------------------- MODULE MCSourceWatch ----------------------------
(* SourceWatch for TLC: one template, which may turn from one label to      *)
(* another, to one of two namespaces, or to a git repository.               *)
EXTENDS SourceWatch, TLC

CONSTANTS t1, git, a, b, f, near, far, x, y, widget

MCKindOf  == [s \in Sources |-> IF s = f THEN Git ELSE widget]
MCSpaceOf == [s \in Sources |-> IF s = b THEN far ELSE near]

MCSelectors ==
  { [kind |-> widget, label |-> x, spaces |-> {near, far}],
    [kind |-> widget, label |-> y, spaces |-> {near}],
    [kind |-> widget, label |-> x, spaces |-> {far}],
    [kind |-> Git,    label |-> x, spaces |-> {near, far}] }
=============================================================================
