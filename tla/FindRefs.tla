------------------------------ MODULE FindRefs ------------------------------
(***************************************************************************)
(* find_refs (find_refs.rs): the two-phase find-references algorithm.      *)
(* Phase 1 builds the word index of the definition's package root and     *)
(* looks the name up; phase 2 keeps a candidate only if its file compiles *)
(* and goto_definition at the candidate yields exactly def_loc.           *)
(*                                                                         *)
(* A program is abstracted to its occurrence slots <<file, position>>:     *)
(* the word written at each slot, what goto_definition answers there, and *)
(* whether each file compiles.  An input holds two programs: the files on *)
(* disk and the texts the editor holds, which differ where buffers are    *)
(* unsaved.  The spec's one variable holds an input drawn from all such   *)
(* inputs, so TLC checks the algorithm on every one.                      *)
(***************************************************************************)
EXTENDS Naturals, Sequences, SequencesExt

CONSTANTS
    FileOrder,   \* files under the root, in the order build_word_index scans them
    NumPos,      \* occurrence slots per file
    Name,        \* the identifier whose references are asked for
    NoResult,    \* model value: Ok(None)
    AllSaved     \* every editor buffer equals its file on disk

ASSUME AllSaved \in BOOLEAN

Files == ToSet(FileOrder)
Positions == 1..NumPos
Slots == Files \X Positions

\* What goto_definition answers at a slot: Scalar(def_loc), Scalar of some
\* other location, None, or a multi-location response.
Answers == {"def_loc", "other_def", "none", "multi"}

Program ==
    [word : [Slots -> {Name, "other"}],
     answer : [Slots -> Answers],
     compiles : [Files -> BOOLEAN]]

Input ==
    [disk : Program,           \* the files as build_word_index and the compiler read them
     mem : Program,            \* the texts the editor holds
     pkgRoot : BOOLEAN,        \* get_pkg_root(def_loc.uri.path()) is Some
     indexOk : BOOLEAN]        \* build_word_index(root) is Ok

\* The order in which build_word_index records occurrences: files in scan
\* order, occurrences within a file in text order.
ScanOrder == FlattenSeq([i \in 1..Len(FileOrder) |-> [p \in Positions |-> <<FileOrder[i], p>>]])

ScanIndex(s) == CHOOSE i \in DOMAIN ScanOrder : ScanOrder[i] = s

VARIABLE in

-----------------------------------------------------------------------------
\* word_index.get(name) on build_word_index(root), which scans the files on
\* disk: the locations of the name, in scan order.
Candidates(x) == SelectSeq(ScanOrder, LAMBDA s : x.disk.word[s] = Name)

\* The filter closure: parse_param_and_compile on the candidate's file with
\* no vfs (so from disk), goto_definition at its start, keep it iff
\* Scalar(real_def_loc) == def_loc; a compile error, None or a
\* multi-location answer drops it.
Verify(x, s) == x.disk.compiles[s[1]] /\ x.disk.answer[s] = "def_loc"

\* find_refs: Ok(None) without a package root, when the word index cannot
\* be built, or when the name is absent from it; else Some(filtered).
FindRefsResult(x) ==
    IF ~x.pkgRoot \/ ~x.indexOk \/ Candidates(x) = <<>> THEN NoResult
    ELSE SelectSeq(Candidates(x), LAMBDA s : Verify(x, s))

\* The messages find_refs gives its logger: "build word index failed", or
\* "{cursor_path} compilation failed" once per candidate whose file does
\* not compile (recorded here as that candidate's file).
FindRefsLogs(x) ==
    IF ~x.pkgRoot THEN <<>>
    ELSE IF ~x.indexOk THEN <<"index_failed">>
    ELSE LET failing == SelectSeq(Candidates(x), LAMBDA s : ~x.disk.compiles[s[1]])
         IN [i \in 1..Len(failing) |-> failing[i][1]]

-----------------------------------------------------------------------------
\* With AllSaved the editor's texts are those on disk.
Init ==
    \E d \in Program, b1, b2 \in BOOLEAN :
        \E m \in IF AllSaved THEN {d} ELSE Program :
            in = [disk |-> d, mem |-> m, pkgRoot |-> b1, indexOk |-> b2]

\* The input never changes: the algorithm is a function of it.
Next == UNCHANGED in

Spec == Init /\ [][Next]_in

TypeOK == in \in Input

-----------------------------------------------------------------------------
(* Properties                                                              *)

\* The reference definition (spec §3, §4.4, §8): the occurrences of the
\* name in the current content of a program that refer to the definition
\* in a file that compiles.
SemanticRefs(prog) ==
    {s \in Slots : prog.word[s] = Name /\ prog.compiles[s[1]] /\ prog.answer[s] = "def_loc"}

\* Find-references soundness, completeness and order (find_refs): a result
\* holds exactly the semantic references of the current content (the
\* editor's texts), each once, in scan order; no result is given only
\* when there is no root, no index, or no occurrence of the name.
FindRefsMatchesReference ==
    LET res == FindRefsResult(in) IN
    IF res = NoResult
    THEN ~in.pkgRoot \/ ~in.indexOk \/ \A s \in Slots : in.mem.word[s] # Name
    ELSE /\ ToSet(res) = SemanticRefs(in.mem)
         /\ \A i, j \in DOMAIN res : i < j => ScanIndex(res[i]) < ScanIndex(res[j])

\* Spec §4.4: a compile failure of a candidate's file is logged once per
\* failing file, not once per candidate (find_refs logs inside the filter).
CompileFailureLoggedOncePerFile ==
    LET logs == FindRefsLogs(in) IN
    \A i, j \in DOMAIN logs : i # j => logs[i] # logs[j]
=============================================================================
