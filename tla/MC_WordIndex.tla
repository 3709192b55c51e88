---------------------------- MODULE MC_WordIndex ----------------------------
(* A workspace /ws holding p1 and a package /ws/pkg holding p2; p3 is a   *)
(* free name under /ws that a rename can target.  Two indexed roots, one *)
(* nested in the other, so one file can be in two indexes.               *)
EXTENDS WordIndex, TLC

CONSTANTS p1, p2, p3, R1, R2

MCPaths == {p1, p2, p3}
MCRoots == {R1, R2}
MCDirOf == (p1 :> <<"ws">>) @@ (p2 :> <<"ws", "pkg">>) @@ (p3 :> <<"ws">>)
MCRootDir == (R1 :> <<"ws">>) @@ (R2 :> <<"ws", "pkg">>)
\* Version 2 keeps one occurrence of version 1 and drops the other.
MCText == <<{<<"x", 1>>, <<"y", 2>>}, {<<"x", 1>>}>>
MCPresent == {p1, p2}
=============================================================================
