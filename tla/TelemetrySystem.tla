---------------------------- MODULE TelemetrySystem ----------------------------
(***************************************************************************)
(* The guard and filter control together.                                  *)
(*                                                                         *)
(* GuardLifecycle and FilterControl meet in two places.  A request to the  *)
(* log-control server is a connection of the server task: it is accepted   *)
(* only while the task serves, and a graceful shutdown of the server waits *)
(* for it.  And apply_late_configuration is one synchronous method of the  *)
(* guard, so the application can neither shut down nor drop the guard      *)
(* while the late configuration is under way; whether it ends with a meter *)
(* provider decides what the guard holds afterwards.                       *)
(*                                                                         *)
(* Every step here is a step of one of the two modules or a joint step of  *)
(* both.                                                                   *)
(***************************************************************************)
EXTENDS FiniteSets

CONSTANTS
  Requests, Late, WellFormed, Malformed, Off, None, Unread, Limits, Unlimited,
  LateConfigs,  \* as in FilterControl
  Cancellable,  \* as in GuardLifecycle
  Setups        \* the builder and environment choices considered

AllSetups == [journald : BOOLEAN, otlp : BOOLEAN, late : BOOLEAN,
              fromEnv : BOOLEAN, metrics : BOOLEAN, server : BOOLEAN]

ASSUME SetupAssumption == Setups \subseteq AllSetups

VARIABLES
  setup,                                              \* of both
  installed, record, lock, pc, job, reply, config, outcome, running,
  limit,                                              \* of FilterControl
  owner, slot, held, live, meter, task, meterOf, open, cancelled, aborted,
  handles, waiting, completed, failed, result, again, abandoned, skipped,
  lost,                                               \* of GuardLifecycle
  closed        \* requests whose connection has been closed

filterVars == <<installed, record, lock, pc, job, reply, config, outcome,
                running, limit>>
guardVars  == <<owner, slot, held, live, meter, task, meterOf, open, cancelled,
                aborted, handles, waiting, completed, failed, result, again,
                abandoned, skipped, lost>>
vars       == <<setup, filterVars, guardVars, closed>>

FilterSetup(s) == [journald |-> s.journald, otlp |-> s.otlp, late |-> s.late,
                   fromEnv |-> s.fromEnv]
GuardSetup(s)  == [otlp |-> s.otlp, late |-> s.late, metrics |-> s.metrics,
                   server |-> s.server]

Filter == INSTANCE FilterControl
  WITH Setups <- {FilterSetup(s) : s \in Setups}, Breakable <- {},
       setup <- FilterSetup(setup)
Guard == INSTANCE GuardLifecycle
  WITH Setups <- {GuardSetup(s) : s \in Setups}, Fallible <- {},
       MaxOpen <- Cardinality(Requests), setup <- GuardSetup(setup)

\* What the two modules assume; and the requests, each of which is a
\* connection, can be counted.
ASSUME ValueAssumption ==
  /\ Off \in WellFormed
  /\ WellFormed \cap Malformed = {}
  /\ None \notin Filter!Filters \cup Filter!Jobs
  /\ Unread \notin Filter!Filters \cup {None}
  /\ Unlimited \notin Limits
ASSUME ActorAssumption ==
  /\ IsFiniteSet(Requests)
  /\ Late \notin Requests
  /\ None \notin Filter!Actors
ASSUME ChoiceAssumption ==
  /\ LateConfigs \subseteq Filter!Configs
  /\ Cancellable \in BOOLEAN

TypeOK ==
  /\ setup \in Setups
  /\ Filter!TypeOK
  /\ Guard!TypeOK
  /\ closed \subseteq Requests

Init ==
  /\ setup \in Setups
  /\ Filter!Init
  /\ Guard!Init
  /\ closed = {}

-----------------------------------------------------------------------------
(* Requests *)

\* A client connects and sends its request.
Connect(r) ==
  /\ UNCHANGED <<setup, closed>>
  /\ Filter!Send(r)
  /\ Guard!OpenConnection

\* The handler runs in a task of its own: it goes on after the server task has
\* been aborted.
Serve(r) ==
  /\ UNCHANGED <<setup, guardVars, closed>>
  /\ Filter!Handle(r)

\* The response has been sent and the connection is closed.
Answered(r) == pc[r] = "done"

Disconnect(r) ==
  /\ Answered(r)
  /\ r \notin closed
  /\ closed' = closed \cup {r}
  /\ UNCHANGED <<setup, filterVars>>
  /\ Guard!CloseConnection

-----------------------------------------------------------------------------
(* The application *)

Applying == pc[Late] \notin {"new", "done"}

\* The late configuration attached exporters, and returns a meter provider.
Attached == outcome' = "ok" /\ config'.otlp # None

\* The guard is in the hands of the method until it returns.
GuardFollows ==
  IF pc'[Late] # "done"
  THEN UNCHANGED guardVars
  ELSE Guard!ApplyLate /\ (live' # live <=> Attached)

BeginApply(c) ==
  /\ owner = "owned"
  /\ slot
  /\ UNCHANGED <<setup, closed>>
  /\ Filter!Apply(c)
  /\ GuardFollows

ContinueApply ==
  /\ UNCHANGED <<setup, closed>>
  /\ Filter!Attach
  /\ GuardFollows

\* The methods of the guard, other than the late configuration.
CallGuard ==
  /\ ~Applying
  /\ UNCHANGED <<setup, filterVars, closed>>
  /\ Guard!Shutdown \/ Guard!ShutdownAgain \/ Guard!DropGuard \/ Guard!Abandon

ProceedGuard ==
  /\ UNCHANGED <<setup, filterVars, closed>>
  /\ Guard!Proceed

-----------------------------------------------------------------------------
RunTask(t) ==
  /\ UNCHANGED <<setup, filterVars, closed>>
  /\ Guard!TaskStep(t)

Sample ==
  /\ UNCHANGED <<setup, filterVars, closed>>
  /\ Guard!RecordSample

\* The application and everything it started has ended, and so has every
\* connection.
Quiescent ==
  /\ owner \in {"initFailed", "dropped"}
  /\ Guard!Ended
  /\ \A r \in Requests : pc[r] = "new" \/ r \in closed
  /\ UNCHANGED vars

Next ==
  \/ \E r \in Requests : Connect(r) \/ Serve(r) \/ Disconnect(r)
  \/ \E c \in LateConfigs : BeginApply(c)
  \/ ContinueApply
  \/ CallGuard
  \/ ProceedGuard
  \/ \E t \in Guard!Tasks : RunTask(t)
  \/ Sample
  \/ Quiescent

\* As in the two modules; a connection ends once its request is answered.
Fairness ==
  /\ \A r \in Requests : WF_vars(Serve(r)) /\ WF_vars(Disconnect(r))
  /\ WF_vars(ContinueApply)
  /\ WF_vars(ProceedGuard)
  /\ \A t \in Guard!Tasks : WF_vars(RunTask(t))

Spec     == Init /\ [][Next]_vars
FairSpec == Spec /\ Fairness
-----------------------------------------------------------------------------
\* Once shutdown() has returned Ok(()) the filters stay as they are: no
\* request that was under way still changes a layer or a record, because the
\* server was awaited and waits for its connections.
FiltersFrozen == [][result = "ok" => UNCHANGED <<installed, record>>]_vars

\* Log control finds the OTLP domain exactly when OTLP export runs, with all
\* three pipelines in the hands of the guard, whenever the application holds
\* an undamaged guard and is not in the middle of applying.
ManagedMeansExporting ==
  owner = "owned" /\ ~completed /\ ~Applying =>
    (record.otlp # None) <=> (running = Guard!Signals /\ live \cap held = running)

\* shutdown() returns: every request the server waits for is answered, for no
\* handler waits for a lock that is kept.
ShutdownReturns ==
  owner \in {"polling", "parked", "flushing"}
    ~> owner \notin {"polling", "parked", "flushing"}
=============================================================================
