--------------------------- MODULE MCTelemetrySystem ---------------------------
(***************************************************************************)
(* Instances of TelemetrySystem for TLC.                                   *)
(***************************************************************************)
EXTENDS TelemetrySystem

CONSTANTS Good, Bad

\* Builders with a log-control server, with and without OTLP, a late slot and
\* runtime metrics.
Served == {s \in AllSetups : s.server /\ ~s.journald /\ ~s.fromEnv}

\* A late configuration of both parts, of the OTLP part only, with a filter
\* that does not parse, and with an exporter that cannot be built.
FewConfigs ==
  [stdout : {Good, None}, otlp : {Good}, limit : {Unlimited}, broken : {"none"}]
    \cup {[stdout |-> None, otlp |-> Bad, limit |-> Unlimited, broken |-> "none"],
          [stdout |-> None, otlp |-> Good, limit |-> Unlimited, broken |-> "metric"]}
=============================================================================
