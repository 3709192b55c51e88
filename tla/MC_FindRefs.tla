---------------------------- MODULE MC_FindRefs -----------------------------
(* Two files under the package root, two occurrence slots each: enough for *)
(* a file with two candidates, candidates in two files, and every answer   *)
(* of goto_definition at each.                                           *)
EXTENDS FindRefs

CONSTANTS fa, fb

MCFileOrder == <<fa, fb>>
=============================================================================
