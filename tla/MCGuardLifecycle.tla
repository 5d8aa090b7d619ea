--------------------------- MODULE MCGuardLifecycle ---------------------------
(***************************************************************************)
(* Instances of GuardLifecycle for TLC.                                    *)
(***************************************************************************)
EXTENDS GuardLifecycle

\* All sixteen builders.
EverySetup == AllSetups

\* OTLP configured at init and the log-control server.
ServedExport == {[otlp |-> TRUE, late |-> FALSE, metrics |-> FALSE, server |-> TRUE]}

\* A late configuration and Tokio runtime metrics.
LateMetrics == {[otlp |-> FALSE, late |-> TRUE, metrics |-> TRUE, server |-> FALSE]}
=============================================================================
