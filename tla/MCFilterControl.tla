--------------------------- MODULE MCFilterControl ---------------------------
(***************************************************************************)
(* Instances of FilterControl for TLC.                                     *)
(***************************************************************************)
EXTENDS FilterControl, TLC, FiniteSets
CONSTANTS off, info, bad, cap

\* All sixteen installations.
EverySetup == AllSetups

\* The installations in which both stdout layers exist.
JournaldSetups == {s \in AllSetups : s.journald /\ s.late}

\* Both parts, each with both kinds of expression, and every exporter failure.
EveryConfig ==
  [stdout : {None, info, bad}, otlp : {None, info, bad}, limit : {cap},
   broken : {"none", "trace", "log", "metric"}]

\* The configurations that differ in how far the apply gets.
FewConfigs ==
  {c \in EveryConfig : c.otlp = info /\ c.stdout # bad /\ c.broken = "none"}

Interchangeable == Permutations(Requests)
=============================================================================
