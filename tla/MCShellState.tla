---------------------------- MODULE MCShellState ----------------------------
(***************************************************************************)
(* Finite instances of ShellState for TLC: one variable and one array, or  *)
(* two names with nesting, and snapshots that fit, are too large, or hold  *)
(* a tree that the file system refuses.                                    *)
(***************************************************************************)
EXTENDS ShellState

CONSTANTS a, x, f, g, small, other, large

MCNames == {a, x}
MCOneName == {a}
MCArrays == {a}
MCIndices == {0, 1}
MCFunctionNames == <<f, g>>
MCOneFunction == <<f>>
MCSizes == {1, 2}
MCBodies == {1, 2}
MCOneBody == {1}
MCTrees == {small, other, large}
MCTreesWithinLimits == {small, other}
MCOneTree == {small}

Snapshot(variables, arrays, functions, tree) ==
  [variables |-> variables, env |-> <<>>, arrays |-> arrays, functions |-> functions,
   sourced |-> DOMAIN functions, readonly |-> {}, allexport |-> FALSE, tree |-> tree]
Map(k, v) == [n \in {k} |-> v]

MCCandidates ==
  {Snapshot(Map(a, 1), <<>>, Map(f, 1), small),       \* fits
   Snapshot(Map(a, 1), <<>>, Map(f, 1), large),       \* the tree does not
   Snapshot(Map(a, 9), <<>>, <<>>, small),            \* a value does not
   Snapshot(<<>>, Map(a, {0, 1}), <<>>, NoTree),   \* an array does not
   Snapshot(<<>>, Map(a, {0}), Map(f, 1) @@ Map(g, 1), NoTree)}   \* a function is dropped

MCNoCandidates == {}
MCCommands == {"unset", "local", "prefix", "array", "function", "tree"}
MCChildren == {"local", "function", "store", "export", "allexport", "readonly",
               "subst", "subshell", "child", "script"}
=============================================================================
