---------------------------- MODULE MC_LspServer ----------------------------
(* Model values and bounds for checking LspServer with TLC.               *)
EXTENDS LspServer

CONSTANTS f1, f2, r1, r2

MCFiles == {f1}
MCFiles2 == {f1, f2}
MCReqIds == {r1, r2}
MCNoFiles == {}

\* Request methods: every kind of handler, the snapshot-reading ones only,
\* and each formatting handler with Shutdown and the queries.
MCMethods == {"shutdown", "query", "references", "formatting", "rangeFormatting"}
MCQueryMethods == {"shutdown", "query"}
MCFormattingMethods == {"formatting", "rangeFormatting"}
=============================================================================
