-------------------------- MODULE AnalysisService --------------------------
(***************************************************************************)
(* What the language server promises its client about documents and       *)
(* requests (spec §3, §4.2, §5), with no loop, channels or pool:          *)
(*   - setting a document's text recompiles it at once; a text that fails *)
(*     to compile leaves the previous analysis in place;                  *)
(*   - a query is answered from the analysis current when it arrives;     *)
(*   - after Shutdown every request is refused, and Shutdown is answered; *)
(*   - a pending answer is delivered exactly once, eventually, unless the *)
(*     server stops first.                                                *)
(* LspServer is checked to implement this specification.                  *)
(***************************************************************************)
EXTENDS Naturals

CONSTANTS Files, ReqIds, MaxVersion, FailingVersions,
          None, ShutdownErr, ShutdownOk, NotFound

Versions == 1..MaxVersion
NoFile == 0

Compiles(v) == v \notin FailingVersions

VARIABLES
    text,       \* the text each document has in the server
    analysis,   \* the text version each document's analysis was built from
    shutdown,   \* Shutdown has been requested
    pending,    \* the answer fixed for each request not yet delivered
    answered,   \* the answer the client received for each request
    live        \* the server still runs

avars == <<text, analysis, shutdown, pending, answered, live>>

AInit ==
    /\ text = [f \in Files |-> NoFile]
    /\ analysis = [f \in Files |-> NoFile]
    /\ shutdown = FALSE
    /\ pending = [r \in ReqIds |-> None]
    /\ answered = [r \in ReqIds |-> None]
    /\ live = TRUE

\* A request id the client has not used yet.
Fresh(r) == pending[r] = None /\ answered[r] = None

SetText(f, v) ==
    /\ live
    /\ text' = [text EXCEPT ![f] = v]
    /\ analysis' = [analysis EXCEPT ![f] = IF Compiles(v) THEN v ELSE @]
    /\ UNCHANGED <<shutdown, pending, answered, live>>

Query(r, f) ==
    /\ live /\ Fresh(r)
    /\ IF shutdown
       THEN /\ answered' = [answered EXCEPT ![r] = ShutdownErr]
            /\ UNCHANGED pending
       ELSE /\ pending' = [pending EXCEPT ![r] =
                             IF analysis[f] = NoFile THEN NotFound ELSE analysis[f]]
            /\ UNCHANGED answered
    /\ UNCHANGED <<text, analysis, shutdown, live>>

Shutdown(r) ==
    /\ live /\ Fresh(r)
    /\ answered' = [answered EXCEPT ![r] = IF shutdown THEN ShutdownErr ELSE ShutdownOk]
    /\ shutdown' = TRUE
    /\ UNCHANGED <<text, analysis, pending, live>>

Answer(r) ==
    /\ live /\ pending[r] # None
    /\ answered' = [answered EXCEPT ![r] = pending[r]]
    /\ pending' = [pending EXCEPT ![r] = None]
    /\ UNCHANGED <<text, analysis, shutdown, live>>

Stop ==
    /\ live' = FALSE
    /\ UNCHANGED <<text, analysis, shutdown, pending, answered>>

ANext ==
    \/ \E f \in Files, v \in Versions : SetText(f, v)
    \/ \E r \in ReqIds : \/ \E f \in Files : Query(r, f)
                         \/ Shutdown(r)
                         \/ Answer(r)
    \/ Stop

ASpec == AInit /\ [][ANext]_avars /\ \A r \in ReqIds : WF_avars(Answer(r))
=============================================================================
