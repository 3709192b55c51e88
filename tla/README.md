# TLA+ models of the KCL language server

Models of the LSP server in `src/kclvm/tools/src/LSP/src/` (written `src/…/`
below). They cover its event loop, the analysis cache, diagnostics, request
handling, incremental word-index maintenance and the find-references algorithm.
The models are written from the source. Where the source calls code that is
not in this excerpt (the util.rs index helpers, the request dispatcher), the
model follows `spec.md`, and PROJECT.json marks those definitions `spec_modelled`.

## The system

| Part | Source | State | Operations |
|---|---|---|---|
| Event loop | `state.rs` `run`, `next_event`, `handle_event`, `handle_task` | client channel, task channel, `shutdown_requested`, `request_queue` | `select!` over the two channels without priority, then one handler, then `process_vfs_changes`, then, if anything changed, a diagnostics job on the thread pool |
| Analysis cache | `state.rs` `process_vfs_changes`, `snapshot` | `vfs` (with its change list), `analysis.db` per file | recompile each changed file; a failed compile logs and keeps the old database |
| Diagnostics | `state.rs` `handle_diagnostics` | pool threads, the task channel | one job per changed event, on a snapshot; it publishes each file's diagnostics through the task channel |
| Requests | `request.rs` `on_request`, `get_db`, handlers | `request_queue`, `shutdown_requested` | register; refuse if shutdown was requested; Shutdown answered at once; other requests run on the pool with a snapshot, and their answer returns as `Task::Response` |
| Notifications | `notification.rs` | `vfs`, `opened_files`, `word_index_map` | didOpen/didChange/didClose change the vfs; didChange, didDeleteFiles and didRenameFiles update the word index; didSave only logs |
| Find references | `find_refs.rs` | none (pure) | build the root's index from disk, look the name up, keep the candidates whose file compiles and whose goto_definition is the definition |
| Capabilities | `capabilities.rs` | constant | FULL text sync: every didChange carries the whole text |

How the parts interact: notifications change the vfs on the loop thread. The
same `handle_event` then recompiles, snapshots and hands jobs to the pool, and
the pool's results come back through the task channel, which the same loop
drains. Requests read a snapshot taken when they are dispatched, which happens
before `process_vfs_changes` of the same event.

## Modules

* **`LspServer.tla`** models the event loop, analysis cache, diagnostics and
  request dispatch, with the test harness's client as the environment.
  * **State.** The variables `inbox` and `tasks` are the two channels, and
    `pool`/`threads` are the threadpool's FIFO queue and its workers. `vfs`
    and `changes` model the Vfs, with a change recorded only when the content
    differs. `db` holds, for each file, the text version its AnalysisDatabase
    was compiled from. `opened_files`, `shutdown_requested`, `request_queue`
    and `running` complete the server state. The environment is the client
    (`editor`, `clientOpen`, `sent`, `exitSent`, `published`, the diagnostics
    it holds, and `responses`) and the files on `disk`; `latest` counts the
    texts written of each file, which bounds edits. `seen` is a ghost: the
    vfs version a request arrived after, its method, and whether it arrived
    after Shutdown.
  * **Actions.** Each loop action (`Exit`, `DidOpen`, `DidChange`, `DidClose`,
    `DidChangeWatchedFiles`, `OnRequest`, `HandleTask`) ends with
    `EndOfEvent`. That is `process_vfs_changes` plus the diagnostics spawn of
    `handle_event`, in the code's order. Pool threads (`WorkerTake`,
    `WorkerRespond`, `WorkerReferences`, `WorkerFormat`, `PublishDiagnostics`, `DiagnosticsDone`)
    interleave freely with the loop.
  * **Requests.** `Methods` are `"shutdown"`, `"query"` (goto definition,
    completion, hover, document symbol: the answer is fixed by the snapshot's
    database at dispatch), `"references"` (`handle_reference` answers through
    `find_refs`, which reads the disk when the job runs; see FindRefs),
    `"formatting"` (reads the disk when it runs) and `"rangeFormatting"`
    (reads the shared vfs when it runs). Code action reads neither the
    snapshot nor the vfs and is not modelled.
  * **Environment.** The client opens a document with its disk text, edits,
    saves (`ClientSaves`; didSave only logs, so it sends nothing), and closes
    it, dropping unsaved text unless `SaveBeforeClose`. Files in
    `ExternalEditors` are rewritten on disk while closed and reported with
    didChangeWatchedFiles, whose handler's `invalidate` never reaches the vfs
    because the loader's receiver was dropped in `new`.
  * **A client that goes away.** With `ClientMayVanish`, the client may
    disappear without Exit (`ClientVanish`, flag `connected`). The loop
    still takes the messages already buffered. Then `next_event` returns
    None and `run` ends (`Disconnected`). Until then, messages sent to the
    client are lost. A response may also fail to send (`RespondFails`):
    `respond`'s `?` then ends `run` with an error, skipping
    `process_vfs_changes`. A notification's failed send is ignored by
    `handle_task`.
  * **Data.** A file's text is a version number. `FailingVersions` are the
    versions that fail to compile, and a query's result is the version of the
    database it read.
* **`AnalysisService.tla`** is the abstract specification of what the server
  promises: `SetText` recompiles at once (keeping the old analysis on
  failure); `Query` fixes the answer from the analysis at arrival, or refuses
  after Shutdown; `Answer` delivers a pending answer once, weakly fair;
  `Stop` is Exit. `LspServer` instantiates it with `text <- vfs`,
  `analysis <- db`, `answered <- responses`, and `pending` the result carried
  by the request's job in the pool, a thread or the task channel while the
  request is registered (`PendingAnswer`); `ImplementsAnalysisService` is
  `AS!ASpec` checked as a property.
* **`WordIndex.tla`** models word-index maintenance.
  * **Paths.** Paths are modelled by what `std::path` does: an absolute flag
    plus components. `Path::new("file:///ws/a.k")` is the relative path
    `file:/ws/a.k`.
  * **Texts.** A text is a set of `<<word, position>>` occurrences.
  * **Actions.** `DidChange` subtracts and adds in every root the URL path
    starts with. `DidDelete` and `DidRename` test the URI string as a path,
    as the code does. The client can also save, close, create and rename
    files. `BuildRoot` is the lazy build of a root's index.
* **`FindRefs.tla`** models `find_refs` as operators over an abstract input:
  two programs (the files on disk, which `build_word_index` and
  `parse_param_and_compile` with no vfs read, and the editor's texts, which
  the answer should describe), each giving the word at each occurrence slot,
  goto_definition's answer there and whether each file compiles, plus the
  failure flags of phase 1. `AllSaved` makes the two programs equal. Its single variable
  ranges over every such program of the bounded size. With the two programs
  equal, the reference definition `SemanticRefs` is the same filter as
  `Verify`, so agreement there holds by construction and is not a run; the
  runs compare `find_refs` with the editor's program, and count its logs.
* **`MC_*.tla`** give the model values and the small functions the cfgs use.

## Runs

| Run | Expect | What it shows |
|---|---|---|
| `lsp_pool1` (`LspServer_pool1.cfg`) | pass | With one pool thread: `TypeOK`; `ResponseReflectsReceipt` (a query answers from the compiled text it arrived after, whenever that text compiles); `InFlightAnsweredAcrossShutdown` (a request registered before Shutdown is still answered with its handler's result, not InvalidRequest, after its job comes back through the pool and the task channel); `RequestsAnswered` (every request is answered unless the loop ended); `ImplementsAnalysisService` (LspServer refines AnalysisService, including the liveness of `Answer`). Diagnostics convergence is not checked here: with one thread it holds only because the pool serialises the jobs, and `lsp_stale_diagnostics` shows it failing with two. |
| `lsp_handlers` | pass | With every handler (references reading the disk), saves, external edits and a client that may vanish without Exit (versions 1..2): `LoopEndsWhenClientGone` (once the client is gone, `run` returns, through `next_event`'s None or a failed response send, whatever was still in flight). |
| `lsp_formatting` | violation | `FormattingReflectsReceipt` fails for both formatting handlers (findings 4 and 5). The counterexample TLC reports is range formatting: an edit handled after the request, before the pool runs it, is what gets formatted. With `Methods = {"formatting"}` the same run fails through formatting after an unsaved edit, which answers the disk text. |
| `lsp_closed_diagnostics` (`LspServer_closed_diags.cfg`) | violation | `DiagnosticsOnlyForOpenFiles` fails: didOpen spawns a diagnostics job, the client closes the document, and the job's PublishDiagnostics is still forwarded for the closed document (finding 9). |
| `lsp_watched` | violation | `ClosedFilesTrackDisk` fails: with a client that always saves before closing, a file rewritten on disk keeps its old vfs text after didChangeWatchedFiles (finding). |
| `lsp_stale_diagnostics` | violation | With two pool threads, `DiagnosticsConverge` fails. The job on the v1 snapshot (v2 failed to compile) publishes after the v3 job. |
| `wordindex_change` | pass | `ChangeMatchesRebuild`: a didChange leaves each built root (nested roots included) with exactly the new text's locations for the file, and others untouched. |
| `wordindex_removed` | violation | `RemovedFilesLeaveIndex` fails: didDeleteFiles never purges and didRenameFiles never rewrites, both because the URI string is used as a path; the counterexample is a delete (findings). |
| `wordindex_reopen` | violation | `IndexReflectsContent` fails: open, edit, close without saving, reopen; the index keeps the discarded text (finding). |
| `findrefs_unsaved` | violation | `FindRefsMatchesReference` with editor buffers that differ from disk (one slot per file): find_refs answers for the disk (finding). |
| `findrefs_log_once` | violation | `CompileFailureLoggedOncePerFile` fails: the log is per candidate. |

Each property of a passing run has a mutant in PROJECT.json: a plausible bug
in the mapped code that the run then catches. The mutants are: recompiling
after the snapshot; a snapshot taken before the recompile; dropping
registration; `respond` answering InvalidRequest once shutdown was
requested; polling again after `next_event` returned None; and subtracting
after adding. The refinement is caught by recompiling
after the snapshot, which breaks `SetText`'s atomic recompile.

### Bounds

* **LspServer.**
  * One file, two request ids, versions 1..3 with version 2 failing to compile.
  * The inbox holds at most 2 messages.
  * This is enough for a failing edit between two good ones (the stale
    diagnostics case), for a request before and after Shutdown, and for a
    request overtaking an edit.
  * `lsp_handlers` allows every method, saves and external edits; with three
    versions it needs over 6 million states and ten minutes, so it uses
    versions 1..2 (2.4M states with a vanishing client and references, about two and a half minutes), still enough for a save, an external edit
    and a failing text. The violation runs use the same bounds; `lsp_formatting` allows
    the two formatting methods and `lsp_closed_diagnostics` the queries.
  * A second file multiplies the state space beyond a practical run; it
    would only add independent copies of the same per-file behaviour.
* **WordIndex.**
  * Three paths (two in `ws`, one in `ws/pkg`) and two nested roots `ws` and
    `ws/pkg`, so one file belongs to two roots.
  * Two text versions that share an occurrence: this is what distinguishes
    subtract-then-add from add-then-subtract.
* **FindRefs.**
  * `findrefs_log_once`: two files with two slots each, which gives two
    candidates in one failing file.
  * `findrefs_unsaved` lets the editor's program differ freely from the
    disk's, which squares the inputs; one slot per file keeps them small and
    still gives a file that compiles in the editor but not on disk, and a
    name present in only one of the two.

### Fairness

The loop is modelled with weak fairness on handling an inbox message and,
separately, on handling a task. The code's `select!` picks at random among
ready channels, so a ready channel is not starved forever. A disconnected
client channel counts as ready (its `recv` returns an error at once), which
is why `Disconnected` is part of the fair `LspEvent`. Each pool thread
is weakly fair, because the pool's threads run jobs until the queue is empty.
The client has no fairness: it may stop at any point.

## Findings

1. **Stale diagnostics (`state.rs:158`).** Diagnostics jobs run in parallel,
   and their publications are forwarded in arrival order.
2. **didDeleteFiles never purges (`notification.rs:141`)** and
   **didRenameFiles never rewrites (`notification.rs:171`).** `Path::new` is
   applied to the `file://` URI string.
3. **Per-candidate compile-failure logging (`find_refs.rs:63`).** `find_refs`
   logs compile failures once per candidate, against the spec's once per file.
4. **Formatting reads the disk (`request.rs:91`).** `handle_formatting`
   formats the saved text, not the buffer with unsaved edits.
5. **Range formatting reads the live vfs (`request.rs:102`).** It is not
   isolated by its snapshot, against spec §5.
6. **Watched-file changes are lost (`state.rs:95`).** The loader's receiver
   is dropped, so files changed on disk never reach the vfs.
7. **didOpen leaves the index stale (`notification.rs:47`).** Reopening a
   document after discarding edits keeps the discarded occurrences.
8. **find_refs answers for the disk (`find_refs.rs:26`).** It rebuilds the
   index from disk and compiles candidates without the vfs, ignoring the
   maintained index and unsaved buffers.
9. **Diagnostics for closed documents (`state.rs:272`).** A diagnostics job
   iterates the open-file set cloned into its snapshot. A document closed
   while the job or its notification is in flight still receives
   diagnostics. didClose publishes nothing, so the client keeps them. Spec §2
   says diagnostics are published only for files in the OpenFileSet.

Also note that the excerpt does not build as it stands: notification.rs
uses `self.word_index_map`, while `LanguageServerState` (state.rs:72) has
only a `word_index` field that `new` initialises empty, and request.rs
imports `find_references`, which find_refs.rs does not define. So no code
here fills the map the handlers update. The WordIndex model checks the maintenance
logic as if the lazy build (spec §4.3) existed.

## Not modelled

* **The loader thread itself.** Its file reading and the panic of its
  `send().unwrap()` are left out; the model keeps what reaches the server:
  nothing.
* **find_references**, the caller of `find_refs` that computes the
  definition location, is not in this excerpt; the model takes the
  definition as given and asks only which candidates are kept.
* **The vfs keeping discarded text after close.** `ClosedFilesTrackDisk`
  states it, but no run shows it on its own: `lsp_watched` closes only saved
  documents, and the pass runs do not check the property.
* **Compiler, resolver, completion, hover, formatting and quick fix.** These
  are external and pure; they are abstracted to `Compiles` and to
  goto_definition answers.
* **Logging and message formatting.** `log_message` sends through the task
  channel; those tasks are forwarded like others and change no state.
* **Errors returned by handlers.** Whether the notification and request
  dispatchers (not in this excerpt) turn a handler's `Err` into a logged
  error or return it from `handle_event`, which would end `run`, cannot be
  read from the source; the model follows spec §7 (handler errors never
  abort the loop). The client never sends the messages that make the
  modelled handlers fail (a didChange for a document it has not opened).
* **The transport threads of `lsp_server`.** Whether a send to a client
  that has gone fails depends on whether the writer thread has already
  failed on the closed output; the model lets both happen.

## Plan

1. **WordIndex abstract spec.** An abstract index that holds, per root and
   file, the fragment of one whole text, with didChange replacing it by the
   new text's. WordIndex implements it only while no reopen has reset the
   vfs under the index: with three versions a reopen followed by an edit
   leaves a torn fragment, the `wordindex_reopen` finding again. With the
   two versions `wordindex_change` uses, a pass would only reflect the bound,
   so it is not added.
2. **Two files.** A two-file LspServer under symmetry, if the state space
   allows: `lsp_handlers` with a vanishing client already takes about two
   minutes with one file.
