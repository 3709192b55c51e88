----------------------------- MODULE LspServer -----------------------------
(***************************************************************************)
(* The event loop of the KCL language server (state.rs, notification.rs,   *)
(* request.rs): one loop thread that owns LanguageServerState, a select!   *)
(* over the client channel and the task channel, the document handlers,    *)
(* request dispatch onto a thread pool with a snapshot, process_vfs_changes*)
(* after every event, and background diagnostics jobs that publish from a  *)
(* snapshot through the task channel.                                      *)
(*                                                                         *)
(* Data abstraction: a document's text is a version number 1..MaxVersion   *)
(* (the editor's n-th text); an AnalysisDatabase is the version it was     *)
(* compiled from; the compiler is the pure predicate Compiles.  Log        *)
(* messages are left out: no property is about them.                       *)
(***************************************************************************)
EXTENDS Naturals, Sequences, FiniteSets

CONSTANTS
    Files,            \* documents of the workspace (model values)
    ReqIds,           \* request ids the client may use
    MaxVersion,       \* bound on the editor's text versions of a document
    FailingVersions,  \* versions whose text does not compile
    PoolSize,         \* threads of threadpool::ThreadPool::default()
    MaxInbox,         \* bound on client messages in flight
    Idle,             \* model value: a pool thread without a job
    None,             \* model value: no response received yet
    ShutdownErr,      \* model value: ErrorCode::InvalidRequest, "shutdown was requested"
    ShutdownOk,       \* model value: the Shutdown request's Ok(())
    NotFound,         \* model value: a request-scoped error (no FileId / no database)
    Methods,          \* request methods the client uses (see Msg)
    ExternalEditors,  \* files other programs may change on disk
    ClientSaves,      \* the client saves documents
    SaveBeforeClose,  \* the client saves a document before closing it
    ClientMayVanish   \* the client may go away without sending Exit

ASSUME PoolSize \in Nat \ {0} /\ MaxInbox \in Nat \ {0}

Versions == 1..MaxVersion
NoFile == 0                 \* no FileId in the vfs / no AnalysisDatabase

Compiles(v) == v \notin FailingVersions

\* Results a client may receive for a request.
Results == Versions \cup {ShutdownErr, ShutdownOk, NotFound}

VARIABLES
    inbox,               \* client -> server channel (lsp_server::Message)
    tasks,               \* task_sender/task_receiver channel (Task)
    pool,                \* jobs queued in the thread pool
    threads,             \* job each pool thread is running
    vfs,                 \* vfs: text version per file, NoFile if no FileId
    disk,                \* text version of each file on disk
    changes,             \* files changed since the last take_changes
    db,                  \* analysis.db: version compiled per file
    opened_files,
    shutdown_requested,
    request_queue,       \* request_queue.incoming: registered request ids
    running,             \* LanguageServerState::run has not returned
    editor,              \* client: current text version per document
    latest,              \* the newest text version written of each file
    clientOpen,          \* client: documents it has open
    sent,                \* client: request ids it has sent
    exitSent,            \* client: Exit sent (Server::drop)
    published,           \* client: last diagnostics received per file
    responses,           \* client: response received per request id
    seen,                \* ghost: vfs version and shutdown flag at receipt
    connected            \* client: its end of the connection is still there

vars == <<inbox, tasks, pool, threads, vfs, disk, changes, db, opened_files,
          shutdown_requested, request_queue, running, editor, latest, clientOpen,
          sent, exitSent, published, responses, seen, connected>>
\* The environment: the client and the files on disk.
clientVars == <<editor, latest, clientOpen, sent, exitSent, disk, connected>>

Msg ==
    [kind : {"open", "change"}, file : Files, ver : Versions]
    \cup [kind : {"close"}, file : Files]
    \cup [kind : {"watched"}, file : Files]
    \cup [kind : {"request"}, id : ReqIds, method : Methods, file : Files]
    \cup [kind : {"exit"}]

Task ==
    [kind : {"notify"}, file : Files, ver : Versions]
    \cup [kind : {"response"}, id : ReqIds, result : Results]

Snapshot == [db : [Files -> {NoFile} \cup Versions], todo : SUBSET Files]
Job == [kind : {"diag"}, snap : Snapshot]
       \cup [kind : {"query"}, id : ReqIds, result : Results]
       \cup [kind : {"formatting", "rangeFormatting", "references"}, id : ReqIds, file : Files]

TypeOK ==
    /\ inbox \in Seq(Msg) /\ tasks \in Seq(Task) /\ pool \in Seq(Job)
    /\ threads \in [1..PoolSize -> Job \cup {Idle}]
    /\ vfs \in [Files -> {NoFile} \cup Versions]
    /\ disk \in [Files -> Versions]
    /\ changes \subseteq Files
    /\ db \in [Files -> {NoFile} \cup Versions]
    /\ opened_files \subseteq Files
    /\ shutdown_requested \in BOOLEAN /\ running \in BOOLEAN
    /\ request_queue \subseteq ReqIds
    /\ editor \in [Files -> Versions] /\ latest \in [Files -> Versions]
    /\ clientOpen \subseteq Files
    /\ sent \subseteq ReqIds /\ exitSent \in BOOLEAN /\ connected \in BOOLEAN
    /\ published \in [Files -> {NoFile} \cup Versions]
    /\ responses \in [ReqIds -> Results \cup {None}]
    /\ seen \in [ReqIds -> [ver : {NoFile} \cup Versions, late : BOOLEAN,
                             method : Methods \cup {None}]]

-----------------------------------------------------------------------------
(* LanguageServerState::new: empty vfs, analysis, opened files, queue.    *)
Init ==
    /\ inbox = <<>> /\ tasks = <<>> /\ pool = <<>>
    /\ threads = [t \in 1..PoolSize |-> Idle]
    /\ vfs = [f \in Files |-> NoFile]
    /\ disk = [f \in Files |-> 1]
    /\ changes = {}
    /\ db = [f \in Files |-> NoFile]
    /\ opened_files = {}
    /\ shutdown_requested = FALSE
    /\ request_queue = {}
    /\ running = TRUE
    /\ editor = [f \in Files |-> 1] /\ latest = [f \in Files |-> 1]
    /\ clientOpen = {} /\ sent = {} /\ exitSent = FALSE /\ connected = TRUE
    /\ published = [f \in Files |-> NoFile]
    /\ responses = [r \in ReqIds |-> None]
    /\ seen = [r \in ReqIds |-> [ver |-> NoFile, late |-> FALSE, method |-> None]]

-----------------------------------------------------------------------------
(* Helpers                                                                 *)

\* Vfs::set_file_contents records a change only when the text differs.
ChangedBy(f, v) == IF vfs[f] = v THEN changes ELSE changes \cup {f}

\* (mutation: a missing AnalysisDatabase is not turned into an error)
QueryResultNoCheck(snapDb, f) == snapDb[f]

\* The AnalysisDatabase a query handler reads through snapshot.get_db.
QueryResult(snapDb, f) == IF snapDb[f] = NoFile THEN NotFound ELSE snapDb[f]

\* process_vfs_changes: take_changes, then compile every changed file;
\* a file that fails to compile keeps its previous AnalysisDatabase.
CompiledDb(vfsNow, changesNow) ==
    [f \in Files |-> IF f \in changesNow /\ vfsNow[f] # NoFile /\ Compiles(vfsNow[f])
                     THEN vfsNow[f] ELSE db[f]]

\* snapshot(): the analysis database map and the open-file set, cloned.
TakeSnapshot(dbNow, openedNow) == [db |-> dbNow, todo |-> openedNow]

\* (mutation: process_vfs_changes runs before the event is handled, so the
\* event's own changes wait for the next event)
EndOfEventFirst(vfsNow, changesNow, openedNow, poolNow) ==
    LET newDb == CompiledDb(vfs, changes) IN
    /\ changes' = {f \in changesNow : f \notin changes \/ vfsNow[f] # vfs[f]}
    /\ db' = newDb
    /\ pool' = IF changes = {} THEN poolNow
               ELSE Append(poolNow, [kind |-> "diag",
                                     snap |-> TakeSnapshot(newDb, opened_files)])

\* (mutation: the diagnostics snapshot is taken before the recompile)
EndOfEventStaleSnapshot(vfsNow, changesNow, openedNow, poolNow) ==
    LET newDb == CompiledDb(vfsNow, changesNow) IN
    /\ changes' = {}
    /\ db' = newDb
    /\ pool' = IF changesNow = {} THEN poolNow
               ELSE Append(poolNow, [kind |-> "diag",
                                     snap |-> TakeSnapshot(db, openedNow)])

\* Steps 2 and 3 of handle_event, after the event itself was handled with
\* the given vfs, change set, open set and pool: process_vfs_changes, and
\* when it returns true spawn handle_diagnostics on a fresh snapshot.
EndOfEvent(vfsNow, changesNow, openedNow, poolNow) ==
    LET newDb == CompiledDb(vfsNow, changesNow) IN
    /\ changes' = {}
    /\ db' = newDb
    /\ pool' = IF changesNow = {} THEN poolNow
               ELSE Append(poolNow, [kind |-> "diag",
                                     snap |-> TakeSnapshot(newDb, openedNow)])

\* The job on_request hands to the pool for a request other than Shutdown.
\* A query handler reads its AnalysisDatabase from the snapshot taken now
\* (get_db); references and the formatting handlers read their text only
\* when they run.
DispatchJob(m) ==
    IF m.method = "query"
    THEN [kind |-> "query", id |-> m.id, result |-> QueryResult(db, m.file)]
    ELSE [kind |-> m.method, id |-> m.id, file |-> m.file]

\* (mutation: the request is never registered)
RegisterRequestLost(r) == request_queue

\* register_request: request_queue.incoming.register(id, ...).
RegisterRequest(r) == request_queue \cup {r}

\* (mutation: respond answers InvalidRequest once shutdown was requested)
RespondRefusedAfterShutdown(queue, r, result) ==
    IF r \in queue
    THEN /\ request_queue' = queue \ {r}
         /\ responses' = IF connected
                         THEN [responses EXCEPT ![r] = IF shutdown_requested
                                                       THEN ShutdownErr ELSE result]
                         ELSE responses
    ELSE /\ request_queue' = queue
         /\ UNCHANGED responses

\* respond: request_queue.incoming.complete(id); only a request that was
\* still registered gets its response sent.  A client that has gone
\* receives nothing, but the send may still succeed (the writer thread
\* has not yet failed on the closed output).
Respond(queue, r, result) ==
    IF r \in queue
    THEN /\ request_queue' = queue \ {r}
         /\ responses' = IF connected THEN [responses EXCEPT ![r] = result]
                         ELSE responses
    ELSE /\ request_queue' = queue
         /\ UNCHANGED responses

\* respond to a client that has gone, once the writer thread has stopped:
\* complete(id), then self.send(...)? fails; handle_event returns the error
\* before process_vfs_changes, and run returns it.
RespondFails(queue, r) ==
    /\ ~connected /\ r \in queue
    /\ request_queue' = queue \ {r}
    /\ running' = FALSE
    /\ UNCHANGED <<responses, changes, db, pool>>

\* (mutation: the shutdown check is dropped)
RefuseRequestNever == FALSE

\* on_request: "If a shutdown was requested earlier, immediately respond
\* with an error".
RefuseRequest == shutdown_requested

-----------------------------------------------------------------------------
(* The loop thread: Exit ends run; any other message goes to handle_event. *)

Exit ==
    /\ running /\ inbox # <<>> /\ Head(inbox).kind = "exit"
    /\ running' = FALSE
    /\ inbox' = Tail(inbox)
    /\ UNCHANGED <<tasks, pool, threads, vfs, changes, db, opened_files,
                   shutdown_requested, request_queue, published, responses,
                   seen, clientVars>>

\* next_event: once the client's sender is dropped and the messages it
\* sent are taken, recv yields Err and msg.ok() is None.
NextEventNone == inbox = <<>> /\ ~connected

\* (mutation: run polls again after None instead of returning)
RunAfterNonePolls == TRUE

\* run: while let Some(event) = self.next_event(..) ends on None; this is
\* whether the loop still runs afterwards.
RunAfterNone == FALSE

Disconnected ==
    /\ running /\ NextEventNone
    /\ running' = RunAfterNone
    /\ UNCHANGED <<inbox, tasks, pool, threads, vfs, changes, db, opened_files,
                   shutdown_requested, request_queue, published, responses,
                   seen, clientVars>>

\* on_did_open_text_document
DidOpen ==
    /\ running /\ inbox # <<>> /\ Head(inbox).kind = "open"
    /\ LET f == Head(inbox).file
           v == Head(inbox).ver
           vfs1 == [vfs EXCEPT ![f] = v]
       IN /\ vfs' = vfs1
          /\ opened_files' = opened_files \cup {f}
          /\ EndOfEvent(vfs1, ChangedBy(f, v), opened_files \cup {f}, pool)
    /\ inbox' = Tail(inbox)
    /\ UNCHANGED <<tasks, threads, shutdown_requested, request_queue, running,
                   published, responses, seen, clientVars>>

\* on_did_change_text_document: the document is synced in full
\* (TextDocumentSyncKind::FULL), so apply_document_changes yields the new
\* text.  A path without FileId makes the handler return an error.  The
\* word_index_map update is vacuous here: no code fills the map.
DidChange ==
    /\ running /\ inbox # <<>> /\ Head(inbox).kind = "change"
    /\ LET f == Head(inbox).file
           v == Head(inbox).ver
           vfs1 == IF vfs[f] = NoFile THEN vfs ELSE [vfs EXCEPT ![f] = v]
           ch1 == IF vfs[f] = NoFile THEN changes ELSE ChangedBy(f, v)
       IN /\ vfs' = vfs1
          /\ EndOfEvent(vfs1, ch1, opened_files, pool)
    /\ inbox' = Tail(inbox)
    /\ UNCHANGED <<tasks, threads, opened_files, shutdown_requested,
                   request_queue, running, published, responses, seen, clientVars>>

\* on_did_close_text_document
DidClose ==
    /\ running /\ inbox # <<>> /\ Head(inbox).kind = "close"
    /\ LET f == Head(inbox).file
           opened1 == IF vfs[f] = NoFile THEN opened_files ELSE opened_files \ {f}
       IN /\ opened_files' = opened1
          /\ EndOfEvent(vfs, changes, opened1, pool)
    /\ inbox' = Tail(inbox)
    /\ UNCHANGED <<tasks, threads, vfs, shutdown_requested, request_queue,
                   running, published, responses, seen, clientVars>>

\* on_request: register the request, refuse it after a shutdown, else
\* dispatch: Shutdown runs synchronously (on_sync) and is answered at once;
\* a query is computed on the pool from a snapshot taken now.
OnRequest ==
    /\ running /\ inbox # <<>> /\ Head(inbox).kind = "request"
    /\ LET m == Head(inbox)
           r == m.id
           queue1 == RegisterRequest(r)
       IN /\ seen' = [seen EXCEPT ![r] = [ver |-> vfs[m.file], late |-> shutdown_requested,
                                          method |-> m.method]]
          /\ CASE RefuseRequest ->
                    /\ UNCHANGED shutdown_requested
                    /\ \/ Respond(queue1, r, ShutdownErr)
                          /\ EndOfEvent(vfs, changes, opened_files, pool)
                          /\ UNCHANGED running
                       \/ RespondFails(queue1, r)
               [] m.method = "shutdown" ->
                    /\ shutdown_requested' = TRUE
                    /\ \/ Respond(queue1, r, ShutdownOk)
                          /\ EndOfEvent(vfs, changes, opened_files, pool)
                          /\ UNCHANGED running
                       \/ RespondFails(queue1, r)
               [] OTHER ->
                    /\ request_queue' = queue1
                    /\ UNCHANGED <<responses, shutdown_requested, running>>
                    /\ EndOfEvent(vfs, changes, opened_files, Append(pool, DispatchJob(m)))
    /\ inbox' = Tail(inbox)
    /\ UNCHANGED <<tasks, threads, vfs, opened_files, published, clientVars>>

\* on_did_change_watched_files: vfs_handle.invalidate(path) for each
\* change.  The loader's sender was built on a channel whose receiver
\* LanguageServerState::new dropped, so the reloaded text never reaches
\* the vfs: only the end of handle_event happens.
DidChangeWatchedFiles ==
    /\ running /\ inbox # <<>> /\ Head(inbox).kind = "watched"
    /\ EndOfEvent(vfs, changes, opened_files, pool)
    /\ inbox' = Tail(inbox)
    /\ UNCHANGED <<tasks, threads, vfs, opened_files, shutdown_requested,
                   request_queue, running, published, responses, seen, clientVars>>

\* handle_task: forward a notification (the result of send is ignored, so
\* a client that has gone just misses it), or respond to a request.
HandleTask ==
    /\ running /\ tasks # <<>>
    /\ LET t == Head(tasks) IN
       \/ /\ t.kind = "notify"
          /\ published' = IF connected THEN [published EXCEPT ![t.file] = t.ver]
                          ELSE published
          /\ UNCHANGED <<request_queue, responses, running>>
          /\ EndOfEvent(vfs, changes, opened_files, pool)
       \/ /\ t.kind = "response"
          /\ Respond(request_queue, t.id, t.result)
          /\ UNCHANGED <<published, running>>
          /\ EndOfEvent(vfs, changes, opened_files, pool)
       \/ /\ t.kind = "response"
          /\ RespondFails(request_queue, t.id)
          /\ UNCHANGED published
    /\ tasks' = Tail(tasks)
    /\ UNCHANGED <<inbox, threads, vfs, opened_files, shutdown_requested,
                   seen, clientVars>>

-----------------------------------------------------------------------------
(* Pool threads: take the oldest job; a query job sends its Task::Response; *)
(* handle_diagnostics sends one PublishDiagnostics per open file that has  *)
(* an AnalysisDatabase in the snapshot.                                    *)

WorkerTake(t) ==
    /\ threads[t] = Idle /\ pool # <<>>
    /\ threads' = [threads EXCEPT ![t] = Head(pool)]
    /\ pool' = Tail(pool)
    /\ UNCHANGED <<inbox, tasks, vfs, changes, db, opened_files, shutdown_requested,
                   request_queue, running, published, responses, seen, clientVars>>

WorkerRespond(t) ==
    /\ threads[t] # Idle /\ threads[t].kind = "query"
    /\ tasks' = Append(tasks, [kind |-> "response", id |-> threads[t].id,
                               result |-> threads[t].result])
    /\ threads' = [threads EXCEPT ![t] = Idle]
    /\ UNCHANGED <<inbox, pool, vfs, changes, db, opened_files, shutdown_requested,
                   request_queue, running, published, responses, seen, clientVars>>

\* handle_reference calls find_references, which answers through find_refs
\* (FindRefs.tla): the word index is rebuilt from disk and every candidate
\* file compiled with no vfs, so the locations are those of the text on
\* disk when the job runs.
WorkerReferences(t) ==
    /\ threads[t] # Idle /\ threads[t].kind = "references"
    /\ tasks' = Append(tasks, [kind |-> "response", id |-> threads[t].id,
                               result |-> disk[threads[t].file]])
    /\ threads' = [threads EXCEPT ![t] = Idle]
    /\ UNCHANGED <<inbox, pool, vfs, changes, db, opened_files, shutdown_requested,
                   request_queue, running, published, responses, seen, clientVars>>

\* handle_formatting reads the document from disk (std::fs::read_to_string);
\* handle_range_formatting reads the shared vfs when it runs, and fails
\* when the file has no FileId.  Either answer carries the formatted text.
WorkerFormat(t) ==
    /\ threads[t] # Idle /\ threads[t].kind \in {"formatting", "rangeFormatting"}
    /\ LET j == threads[t]
           result == IF j.kind = "formatting" THEN disk[j.file]
                     ELSE IF vfs[j.file] = NoFile THEN NotFound ELSE vfs[j.file]
       IN tasks' = Append(tasks, [kind |-> "response", id |-> j.id, result |-> result])
    /\ threads' = [threads EXCEPT ![t] = Idle]
    /\ UNCHANGED <<inbox, pool, vfs, changes, db, opened_files, shutdown_requested,
                   request_queue, running, published, responses, seen, clientVars>>

\* One iteration of the loop over snapshot.opened_files (IndexSet order is
\* abstracted to any order).
PublishDiagnostics(t) ==
    /\ threads[t] # Idle /\ threads[t].kind = "diag"
    /\ \E f \in threads[t].snap.todo :
         LET s == threads[t].snap IN
         /\ threads' = [threads EXCEPT ![t].snap.todo = s.todo \ {f}]
         /\ tasks' = IF s.db[f] = NoFile THEN tasks
                     ELSE Append(tasks, [kind |-> "notify", file |-> f, ver |-> s.db[f]])
    /\ UNCHANGED <<inbox, pool, vfs, changes, db, opened_files, shutdown_requested,
                   request_queue, running, published, responses, seen, clientVars>>

DiagnosticsDone(t) ==
    /\ threads[t] # Idle /\ threads[t].kind = "diag" /\ threads[t].snap.todo = {}
    /\ threads' = [threads EXCEPT ![t] = Idle]
    /\ UNCHANGED <<inbox, tasks, pool, vfs, changes, db, opened_files,
                   shutdown_requested, request_queue, running, published,
                   responses, seen, clientVars>>

-----------------------------------------------------------------------------
(* The client (the editor, or the Server harness of tests.rs).  It sends   *)
(* didChange only for documents it has open, full text each time, and     *)
(* nothing after Exit.                                                     *)

Send(m) == /\ ~exitSent /\ connected /\ Len(inbox) < MaxInbox /\ inbox' = Append(inbox, m)

serverVars == <<tasks, pool, threads, vfs, changes, db, opened_files,
                shutdown_requested, request_queue, running, published,
                responses, seen>>

\* The editor opens a document with its text on disk.
ClientOpen(f) ==
    /\ f \notin clientOpen
    /\ Send([kind |-> "open", file |-> f, ver |-> disk[f]])
    /\ clientOpen' = clientOpen \cup {f}
    /\ editor' = [editor EXCEPT ![f] = disk[f]]
    /\ UNCHANGED <<latest, sent, exitSent, disk, connected>> /\ UNCHANGED serverVars

ClientEdit(f) ==
    /\ f \in clientOpen /\ latest[f] < MaxVersion
    /\ Send([kind |-> "change", file |-> f, ver |-> latest[f] + 1])
    /\ editor' = [editor EXCEPT ![f] = latest[f] + 1]
    /\ latest' = [latest EXCEPT ![f] = @ + 1]
    /\ UNCHANGED <<clientOpen, sent, exitSent, disk, connected>> /\ UNCHANGED serverVars

\* The editor saves a document.  on_did_save_text_document only logs, so
\* the didSave notification is left out.
ClientSave(f) ==
    /\ ClientSaves /\ f \in clientOpen /\ disk[f] # editor[f]
    /\ disk' = [disk EXCEPT ![f] = editor[f]]
    /\ UNCHANGED <<editor, latest, clientOpen, sent, exitSent, inbox, connected>> /\ UNCHANGED serverVars

\* Another program rewrites a file that is not open; the client reports it
\* with didChangeWatchedFiles.
ExternalEdit(f) ==
    /\ f \in ExternalEditors /\ f \notin clientOpen
    /\ latest[f] < MaxVersion
    /\ disk' = [disk EXCEPT ![f] = latest[f] + 1]
    /\ latest' = [latest EXCEPT ![f] = @ + 1]
    /\ Send([kind |-> "watched", file |-> f])
    /\ UNCHANGED <<editor, clientOpen, sent, exitSent, connected>> /\ UNCHANGED serverVars

\* Closing drops the editor's unsaved text.
ClientClose(f) ==
    /\ f \in clientOpen /\ (SaveBeforeClose => disk[f] = editor[f])
    /\ Send([kind |-> "close", file |-> f])
    /\ clientOpen' = clientOpen \ {f}
    /\ UNCHANGED <<editor, latest, sent, exitSent, disk, connected>> /\ UNCHANGED serverVars

ClientRequest(r, method, f) ==
    /\ r \notin sent
    /\ Send([kind |-> "request", id |-> r, method |-> method, file |-> f])
    /\ sent' = sent \cup {r}
    /\ UNCHANGED <<editor, latest, clientOpen, exitSent, disk, connected>> /\ UNCHANGED serverVars

ClientExit ==
    /\ Send([kind |-> "exit"])
    /\ exitSent' = TRUE
    /\ UNCHANGED <<editor, latest, clientOpen, sent, disk, connected>> /\ UNCHANGED serverVars

\* The client goes away without Exit (its process ends, the stdio reader
\* sees end of input and drops the channel's sender).
ClientVanish ==
    /\ ClientMayVanish /\ connected /\ ~exitSent
    /\ connected' = FALSE
    /\ UNCHANGED <<inbox, editor, latest, clientOpen, sent, exitSent, disk>>
    /\ UNCHANGED serverVars

\* After Exit was handled and the pool drained nothing is left to happen.
Terminated ==
    /\ ~running /\ pool = <<>> /\ \A t \in 1..PoolSize : threads[t] = Idle
    /\ UNCHANGED vars

-----------------------------------------------------------------------------
LspEvent == Exit \/ Disconnected \/ DidOpen \/ DidChange \/ DidClose \/ DidChangeWatchedFiles \/ OnRequest

Loop == LspEvent \/ HandleTask

Worker(t) == WorkerTake(t) \/ WorkerRespond(t) \/ WorkerReferences(t) \/ WorkerFormat(t)
             \/ PublishDiagnostics(t) \/ DiagnosticsDone(t)

Client ==
    \/ \E f \in Files : ClientOpen(f) \/ ClientEdit(f) \/ ClientSave(f) \/ ClientClose(f)
                       \/ ExternalEdit(f)
    \/ \E r \in ReqIds, m \in Methods, f \in Files : ClientRequest(r, m, f)
    \/ ClientExit
    \/ ClientVanish

Next == Loop \/ (\E t \in 1..PoolSize : Worker(t)) \/ Client \/ Terminated

\* The loop thread always returns to select!, which picks at random among
\* the ready channels, so neither channel is starved; the pool threads
\* always run their jobs; the client is free to stop sending.
Fairness ==
    /\ WF_vars(LspEvent) /\ WF_vars(HandleTask)
    /\ \A t \in 1..PoolSize : WF_vars(Worker(t))

Spec == Init /\ [][Next]_vars /\ Fairness

-----------------------------------------------------------------------------
(* Properties                                                              *)

\* Read-your-writes (request.rs on_request, state.rs handle_event): a query
\* is answered from the AnalysisDatabase of the text the server held when
\* the query arrived, whenever that text compiles, however long the pool
\* takes and whatever edits arrive meanwhile; this needs the edit's
\* recompile to run before the next event is taken.
ResponseReflectsReceipt ==
    \A r \in ReqIds :
        (/\ seen[r].method = "query" /\ responses[r] \in Versions \cup {NotFound}
         /\ seen[r].ver # NoFile /\ Compiles(seen[r].ver))
        => responses[r] = seen[r].ver

\* Requests in flight survive Shutdown (on_request, handle_task, respond;
\* spec §5 Cancellation): a request registered before Shutdown arrived is
\* eventually answered with its handler's result, not InvalidRequest,
\* however long its job takes on the pool and whatever arrives meanwhile,
\* unless the loop ends first.
InFlightAnsweredAcrossShutdown ==
    \A r \in ReqIds :
        (r \in request_queue /\ ~seen[r].late /\ seen[r].method # "shutdown")
        ~> (responses[r] \in Results \ {ShutdownErr, ShutdownOk} \/ ~running)

\* Every request the client sends is answered (respond finds it registered
\* in the request queue), unless the client ends the loop with Exit first.
RequestsAnswered ==
    \A r \in ReqIds : (r \in sent) ~> (responses[r] # None \/ ~running)

\* The loop ends when the client goes away (next_event, run, respond;
\* spec §7 (e)): once the client has disappeared without Exit, run returns,
\* whatever messages, jobs and tasks were still in flight.
LoopEndsWhenClientGone == ~connected ~> ~running

\* The server is quiescent: no job queued or running, no task unforwarded.
Quiescent ==
    /\ running /\ pool = <<>> /\ tasks = <<>>
    /\ \A t \in 1..PoolSize : threads[t] = Idle

\* Diagnostics converge (handle_event step 3, handle_diagnostics): once the
\* server is quiescent, the diagnostics the client last received for each
\* open file are those of the file's current AnalysisDatabase.
DiagnosticsConverge ==
    Quiescent =>
        \A f \in opened_files : db[f] # NoFile => published[f] = db[f]

\* Formatting answers the text it was asked about (handle_formatting,
\* handle_range_formatting): the text a formatting response carries is the
\* text the server held for the document when the request arrived, however
\* the document was saved or edited before or after.
FormattingReflectsReceipt ==
    \A r \in ReqIds :
        (/\ seen[r].method \in {"formatting", "rangeFormatting"}
         /\ responses[r] \in Versions /\ seen[r].ver # NoFile)
        => responses[r] = seen[r].ver

\* Closed files follow the disk (on_did_change_watched_files, the vfs
\* loader built in LanguageServerState::new): once every message was handled
\* and the server is quiescent, a document the client has closed is held in
\* the vfs with its text on disk.
ClosedFilesTrackDisk ==
    (Quiescent /\ inbox = <<>>) =>
        \A f \in Files \ clientOpen : vfs[f] \in {NoFile, disk[f]}

\* Diagnostics only for open files (spec §2 OpenFileSet, handle_diagnostics,
\* handle_task): when the loop forwards a PublishDiagnostics to the client,
\* the document it is about is open in the server.
DiagnosticsOnlyForOpenFiles ==
    [][(running /\ tasks # <<>> /\ Head(tasks).kind = "notify" /\ HandleTask)
         => Head(tasks).file \in opened_files]_vars

-----------------------------------------------------------------------------
(* Refinement: LspServer implements AnalysisService.  A request's pending  *)
(* answer is the result carried by its job in the pool, a pool thread or  *)
(* the task channel, for as long as the request is registered.            *)

\* The jobs and tasks in flight that carry an answer for request r.
InFlightAnswers(r) ==
    LET carriers == {pool[i] : i \in DOMAIN pool} \cup {tasks[i] : i \in DOMAIN tasks}
                    \cup ({threads[t] : t \in 1..PoolSize} \ {Idle})
    IN {j.result : j \in {c \in carriers : c.kind \in {"query", "response"} /\ c.id = r}}

PendingAnswer ==
    [r \in ReqIds |-> IF r \in request_queue /\ InFlightAnswers(r) # {}
                      THEN CHOOSE a \in InFlightAnswers(r) : TRUE ELSE None]

AS == INSTANCE AnalysisService
        WITH text <- vfs, analysis <- db, shutdown <- shutdown_requested,
             pending <- PendingAnswer, answered <- responses, live <- running

\* The server implements AnalysisService (handle_event, on_request, the
\* pool and handle_task together): every edit is recompiled in the step
\* that applies it, every query is answered with the analysis current when
\* it arrived, Shutdown refuses what follows it, and each pending answer is
\* delivered once unless Exit stops the loop.
ImplementsAnalysisService == AS!ASpec
=============================================================================
