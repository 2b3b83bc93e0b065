------------------------------ MODULE MCMemFs ------------------------------
(***************************************************************************)
(* Finite instances of MemFs for TLC: a root, a path below it, a path      *)
(* below that one.                                                         *)
(***************************************************************************)
EXTENDS MemFs

CONSTANTS slow, r1

MCPaths == {<<>>, <<"a">>, <<"c">>, <<"a", "b">>}
MCTargets == MCPaths \ {<<>>}
MCStartDirs == {<<>>}
MCLoaders == {slow}
MCReaders == {r1}
MCSizes == {1}
MCHint == [l \in MCLoaders |-> 1]
MCLoadSize == [l \in MCLoaders |-> 2]
MCBigLoad == [l \in MCLoaders |-> 3]
=============================================================================
