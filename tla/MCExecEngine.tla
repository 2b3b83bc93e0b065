---------------------------- MODULE MCExecEngine ----------------------------
(***************************************************************************)
(* Finite instances of ExecEngine for TLC.                                 *)
(***************************************************************************)
EXTENDS ExecEngine

MCScopes == {"outer", "child"}
MCChildScope == "child"
MCArgs == {"a"}
MCData == {"piped"}
MCNoStdin == "none"

MCNesting == Kinds \ {"eval", "alias", "timeout"}
MCEval == {"exec", "function", "eval"}
MCIsolation == {"exec", "shell", "subst", "timeout"}
MCPipeline == {"exec", "pipeline"}
MCEverything == Kinds \cup HostEvents
=============================================================================
