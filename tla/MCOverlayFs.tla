---------------------------- MODULE MCOverlayFs ----------------------------
(***************************************************************************)
(* Finite instances of OverlayFs for TLC: a directory with two files in    *)
(* the lower layer, and a path that neither layer has.                     *)
(***************************************************************************)
EXTENDS OverlayFs, TLC

CONSTANTS s1, s2

MCPaths == {<<>>, <<"d">>, <<"d", "e">>, <<"d", "f">>, <<"g">>}
MCTargets == {<<"d">>, <<"d", "f">>, <<"g">>}
MCStartDirs == {<<>>}
MCSizes == {2}

MCLower ==
  [p \in MCPaths \ {<<"g">>} |->
     IF Len(p) = 2 THEN Upper!Plain("file", 1) ELSE Upper!Directory]

MCAlone == {s1}
MCTwo == {s1, s2}

MCEverything ==
  [s \in MCAlone |-> {"write", "append", "mkdir", "remove", "symlink", "copy",
                      "rename", "metadata"}]

MCDirectories == [s \in MCAlone |-> {"append", "mkdir", "remove"}]

(* Each session uses some of the operations.                               *)
MCRoles ==
  s1 :> {"write", "mkdir"} @@ s2 :> {"metadata", "remove"}
MCWriteAndChmod == s1 :> {"write"} @@ s2 :> {"metadata"}
=============================================================================
