----------------------------- MODULE WordIndex -----------------------------
(***************************************************************************)
(* Incremental maintenance of the per-root word index (notification.rs):   *)
(* didChange subtracts the old text's fragment and adds the new one in     *)
(* every indexed root the file's path starts with; didDelete removes the   *)
(* file's locations; didRename rewrites their URI.  The index helpers of   *)
(* util.rs (build_word_index, word_index_add and the others) are not in   *)
(* this excerpt and are modelled from the spec (set semantics, §4.3, §9). *)
(*                                                                         *)
(* Paths are modelled by what std::path does with them: a path is a        *)
(* record of an absolute flag and its components, and Path::new applied to *)
(* a URI string "file:///ws/a.k" yields the relative path                  *)
(* file: / ws / a.k.  Texts are versions; Text[v] is the set of            *)
(* <<word, position>> occurrences of version v.                           *)
(***************************************************************************)
EXTENDS Naturals, Sequences, FiniteSets

CONSTANTS
    Paths,        \* file paths (model values)
    Roots,        \* workspace roots an index may be kept for
    DirOf,        \* DirOf[p]: directory components of path p
    RootDir,      \* RootDir[r]: directory components of root r
    Text,         \* Text[v]: set of <<word, pos>> occurrences of version v
    MaxVersion,   \* bound on text versions
    Present       \* paths that exist on disk initially

Versions == 1..MaxVersion
NoText == 0

\* Location of an occurrence: word, file URI, range start.
Loc == [word : UNION {{o[1] : o \in Text[v]} : v \in Versions},
        file : Paths,
        pos : UNION {{o[2] : o \in Text[v]} : v \in Versions}]

VARIABLES
    vfs,            \* in-memory text per path (NoText: no FileId)
    disk,           \* on-disk text per path (NoText: no file)
    opened_files,
    word_index_map, \* index per root (only roots in built are meaningful)
    built,          \* roots whose index has been built
    editor,         \* client: text of each document in the editor
    clientOpen,     \* client: documents open in the editor
    deleted,        \* ghost: paths deleted and not recreated since
    renamedAway     \* ghost: paths renamed away and not recreated since

vars == <<vfs, disk, opened_files, word_index_map, built, editor, clientOpen,
          deleted, renamedAway>>

TypeOK ==
    /\ vfs \in [Paths -> {NoText} \cup Versions]
    /\ disk \in [Paths -> {NoText} \cup Versions]
    /\ opened_files \subseteq Paths
    /\ word_index_map \in [Roots -> SUBSET Loc]
    /\ built \subseteq Roots
    /\ editor \in [Paths -> {NoText} \cup Versions]
    /\ clientOpen \subseteq Paths
    /\ deleted \subseteq Paths /\ renamedAway \subseteq Paths

-----------------------------------------------------------------------------
(* Paths and URLs                                                          *)

\* Url::path() of a file URL, as a std::path::Path.
UrlPath(p) == [abs |-> TRUE, comps |-> Append(DirOf[p], p)]

\* Path::new(&uri_string) of the URI string "file:///<dirs>/<name>".
UriStringPath(p) == [abs |-> FALSE, comps |-> <<"file:">> \o Append(DirOf[p], p)]

RootPath(r) == [abs |-> TRUE, comps |-> RootDir[r]]

\* Path::starts_with compares whole components, root included.
StartsWith(path, base) ==
    /\ path.abs = base.abs
    /\ Len(base.comps) <= Len(path.comps)
    /\ SubSeq(path.comps, 1, Len(base.comps)) = base.comps

\* Url::from_file_path succeeds only on an absolute path.
FromFilePathOk(path) == path.abs

-----------------------------------------------------------------------------
(* Index helpers (util.rs, spec §4.3)                                      *)

\* build_word_index_for_file_content
FileWordIndex(p, v) ==
    IF v = NoText THEN {}
    ELSE {[word |-> o[1], file |-> p, pos |-> o[2]] : o \in Text[v]}

\* (mutation: the new fragment is added before the old one is subtracted)
UpdateRootIndexSwapped(idx, p, old, new) ==
    (idx \cup FileWordIndex(p, new)) \ FileWordIndex(p, old)

\* word_index_subtract(value, old); word_index_add(value, new)
UpdateRootIndex(idx, p, old, new) ==
    (idx \ FileWordIndex(p, old)) \cup FileWordIndex(p, new)

\* word_index_file_remove
FileRemove(idx, p) == {l \in idx : l.file # p}

\* word_index_url_update
UrlUpdate(idx, p, q) == {IF l.file = p THEN [l EXCEPT !.file = q] ELSE l : l \in idx}

\* The text an index of the current content reads for a path.
CurrentText(p) == IF vfs[p] # NoText THEN vfs[p] ELSE disk[p]

\* build_word_index(root): every existing file under the root.
BuildWordIndex(r) ==
    UNION {FileWordIndex(p, CurrentText(p)) :
             p \in {q \in Paths : disk[q] # NoText /\ StartsWith(UrlPath(q), RootPath(r))}}

-----------------------------------------------------------------------------
Init ==
    /\ vfs = [p \in Paths |-> NoText]
    /\ disk = [p \in Paths |-> IF p \in Present THEN 1 ELSE NoText]
    /\ opened_files = {}
    /\ word_index_map = [r \in Roots |-> {}]
    /\ built = {}
    /\ editor = [p \in Paths |-> NoText]
    /\ clientOpen = {}
    /\ deleted = {} /\ renamedAway = {}

\* The index of a root is built on first use (spec §4.3).
BuildRoot(r) ==
    /\ r \notin built
    /\ built' = built \cup {r}
    /\ word_index_map' = [word_index_map EXCEPT ![r] = BuildWordIndex(r)]
    /\ UNCHANGED <<vfs, disk, opened_files, editor, clientOpen, deleted, renamedAway>>

\* on_did_open_text_document with the editor's text (the disk text when
\* the document was not open): set_file_contents, opened_files.insert.
DidOpen(p) ==
    /\ p \notin clientOpen /\ disk[p] # NoText
    /\ LET text == disk[p] IN
       /\ editor' = [editor EXCEPT ![p] = text]
       /\ vfs' = [vfs EXCEPT ![p] = text]
    /\ clientOpen' = clientOpen \cup {p}
    /\ opened_files' = opened_files \cup {p}
    /\ UNCHANGED <<disk, word_index_map, built, deleted, renamedAway>>

\* on_did_change_text_document (full text): new vfs text, then the word
\* index of every root the URL path starts with.
DidChange(p) ==
    /\ p \in clientOpen /\ editor[p] < MaxVersion
    /\ LET new == editor[p] + 1
           old == vfs[p]
       IN /\ editor' = [editor EXCEPT ![p] = new]
          /\ vfs' = [vfs EXCEPT ![p] = new]
          /\ word_index_map' =
               [r \in Roots |-> IF StartsWith(UrlPath(p), RootPath(r))
                                THEN UpdateRootIndex(word_index_map[r], p, old, new)
                                ELSE word_index_map[r]]
    /\ UNCHANGED <<disk, opened_files, built, clientOpen, deleted, renamedAway>>

\* The editor saves the document; on_did_save_text_document only logs.
DidSave(p) ==
    /\ p \in clientOpen /\ disk[p] # editor[p]
    /\ disk' = [disk EXCEPT ![p] = editor[p]]
    /\ UNCHANGED <<vfs, opened_files, word_index_map, built, editor, clientOpen,
                   deleted, renamedAway>>

\* on_did_close_text_document; the editor drops unsaved text.
DidClose(p) ==
    /\ p \in clientOpen
    /\ clientOpen' = clientOpen \ {p}
    /\ opened_files' = opened_files \ {p}
    /\ editor' = [editor EXCEPT ![p] = NoText]
    /\ UNCHANGED <<vfs, disk, word_index_map, built, deleted, renamedAway>>

\* The client deletes a closed file and sends didDeleteFiles with its
\* "file://" URI; on_did_delete_files treats the URI string as a path.
DidDelete(p) ==
    /\ disk[p] # NoText /\ p \notin clientOpen
    /\ disk' = [disk EXCEPT ![p] = NoText]
    /\ deleted' = deleted \cup {p}
    /\ LET path == UriStringPath(p) IN
       word_index_map' =
         [r \in Roots |-> IF FromFilePathOk(path) /\ StartsWith(path, RootPath(r))
                          THEN FileRemove(word_index_map[r], p)
                          ELSE word_index_map[r]]
    /\ UNCHANGED <<vfs, opened_files, built, editor, clientOpen, renamedAway>>

\* The client renames a closed file and sends didRenameFiles;
\* on_did_rename_files treats the old URI string as a path.
DidRename(p, q) ==
    /\ disk[p] # NoText /\ disk[q] = NoText /\ p \notin clientOpen
    /\ disk' = [disk EXCEPT ![p] = NoText, ![q] = disk[p]]
    /\ renamedAway' = (renamedAway \cup {p}) \ {q}
    /\ deleted' = deleted \ {q}
    /\ word_index_map' =
         [r \in Roots |-> IF StartsWith(UriStringPath(p), RootPath(r))
                          THEN UrlUpdate(word_index_map[r], p, q)
                          ELSE word_index_map[r]]
    /\ UNCHANGED <<vfs, opened_files, built, editor, clientOpen>>

\* A file is created on disk.  The server registers no handler for
\* didCreateFiles, so only the disk changes.
CreateFile(p) ==
    /\ disk[p] = NoText
    /\ disk' = [disk EXCEPT ![p] = 1]
    /\ deleted' = deleted \ {p}
    /\ renamedAway' = renamedAway \ {p}
    /\ UNCHANGED <<vfs, opened_files, word_index_map, built, editor, clientOpen>>

Next ==
    \/ \E r \in Roots : BuildRoot(r)
    \/ \E p \in Paths : CreateFile(p)
    \/ \E p \in Paths : DidOpen(p) \/ DidChange(p) \/ DidSave(p) \/ DidClose(p) \/ DidDelete(p)
    \/ \E p, q \in Paths : p # q /\ DidRename(p, q)

Spec == Init /\ [][Next]_vars

-----------------------------------------------------------------------------
(* Properties                                                              *)

\* The locations of one file in one root's index.
LocsOf(r, p) == {l \in word_index_map[r] : l.file = p}

\* Incremental-index equivalence (spec §8, on_did_change_text_document):
\* in every built root containing the file, a didChange leaves exactly the
\* locations a rebuild of the new text gives, provided the root agreed
\* with the old text, and leaves every other file's locations untouched.
ChangeMatchesRebuild ==
    [][\A p \in Paths : DidChange(p) =>
         \A r \in built :
           /\ StartsWith(UrlPath(p), RootPath(r))
              /\ LocsOf(r, p) = FileWordIndex(p, vfs[p])
              => LocsOf(r, p)' = FileWordIndex(p, vfs'[p])
           /\ \A q \in Paths \ {p} : LocsOf(r, q)' = LocsOf(r, q)]_vars

\* Removed files leave the index (spec §8, on_did_delete_files and
\* on_did_rename_files): no index returns a location in a file that was
\* deleted, or under the old URI of a file that was renamed.
RemovedFilesLeaveIndex ==
    \A r \in built : \A p \in deleted \cup renamedAway : LocsOf(r, p) = {}

\* The index reflects the content (spec §3, on_did_open_text_document and
\* on_did_change_text_document): in every built root, an indexed file that
\* was neither deleted nor renamed away has exactly the locations of the
\* text the server holds for it, after any sequence of opens, edits, saves
\* and closes.
IndexReflectsContent ==
    \A r \in built : \A p \in Paths \ (deleted \cup renamedAway) :
        (StartsWith(UrlPath(p), RootPath(r)) /\ LocsOf(r, p) # {})
        => LocsOf(r, p) = FileWordIndex(p, CurrentText(p))
=============================================================================
