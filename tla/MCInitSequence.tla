---------------------------- MODULE MCInitSequence ----------------------------
(***************************************************************************)
(* Instances of InitSequence for TLC.                                      *)
(***************************************************************************)
EXTENDS InitSequence, TLC

CONSTANTS a1, a2, Good, L1

\* Calls that differ in where their filters come from: the environment, the
\* fallback and the OTLP configuration.
FilterCalls ==
  {c \in AllCalls : /\ c.otlp = None => c.limit = Unlimited
                    /\ c.late /\ ~c.metrics /\ ~c.server
                    /\ c.runtime = "multi"}

\* Calls that differ in what they build and start.
PartCalls ==
  {c \in AllCalls : /\ ~c.useEnv /\ c.fallback = None
                    /\ c.limit = Unlimited
                    /\ c.otlp \in {None, Good}
                    /\ c.journald = c.metrics}

\* The rival of such a call configures OTLP at once, or leaves it for later.
RivalCalls ==
  {c \in PartCalls : /\ c.metrics /\ c.server /\ c.late
                     /\ c.runtime = "multi"}

RacingCalls == [a \in {a1, a2} |-> IF a = a1 THEN FilterCalls \cup PartCalls
                                   ELSE RivalCalls]

\* Builds with both checked features, and with neither.
AllOrNothing == {{}, {"journald", "tokio-metrics"}}
=============================================================================
