------------------------------ MODULE Telemetry -------------------------------
(***************************************************************************)
(* When a session's telemetry is that of its engine.  Launch, `as` and close *)
(* each write both mutexes of session.rs, one after the other; the browser *)
(* mutex is held over both writes by the launch alone.  What two of them do *)
(* to each other can only be told from their past, so the session is here   *)
(* with a history of it.                                                    *)
(***************************************************************************)
EXTENDS Session

VARIABLE crossed \* history: a writer came while another was between its writes

\* Tasks between their two writes.
Writers == {t \in Tasks : pc[t] \in {"publish", "wipe", "record"}}

\* Whether the last writer to come came alone.
NoteWriters == crossed' = IF Writers' \subseteq Writers THEN crossed ELSE Writers # {}

TelemetryInit == Init /\ crossed = FALSE
TelemetryNext == Next /\ NoteWriters
TelemetrySpec == TelemetryInit /\ [][TelemetryNext]_<<vars, crossed>>

-----------------------------------------------------------------------------
\* With any number of verbs, `as` and closes, crossed writes are all that parts
\* the telemetry from the engine the session hands out, and the next launch, `as`
\* or close whose writes nobody crosses brings them together again: the session
\* then has that engine's telemetry, or neither.
TelemetryUnlessCrossed == Writers = {} /\ ~crossed => telemetry = browser
=============================================================================
