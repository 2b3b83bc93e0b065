----------------------------- MODULE MCMountFs -----------------------------
(***************************************************************************)
(* Finite instances of MountFs for TLC: a mount point, one inside it, and  *)
(* a path outside both.                                                    *)
(***************************************************************************)
EXTENDS MountFs

CONSTANTS s1

MCPaths == {<<>>, <<"f">>, <<"m">>, <<"m", "f">>}
MCTargets == {<<"f">>, <<"m", "f">>}
MCMountPoints == {<<"m">>, <<"m", "f">>}
MCStartDirs == {<<>>, <<"m">>}
MCSizes == {1}
MCSessions == {s1}
MCChanges == {"append", "mkdir", "removeAll", "symlink"} \cup TwoPaths
MCMoves == {"write", "rename"}
MCWrapped == {"itself", "readonly"}

(* One file system under two mount points.                                 *)
MCTwicePaths == MCPaths \cup {<<"n">>, <<"n", "f">>}
MCTwiceTargets == {<<"m", "f">>, <<"n", "f">>}
MCTwicePoints == {<<"m">>, <<"n">>}
MCShared == {"itself", "another"}
=============================================================================
