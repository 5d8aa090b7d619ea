---------------------------- MODULE GuardLifecycle ----------------------------
(***************************************************************************)
(* The life of a TelemetryGuard: init() installs providers and spawns      *)
(* background tasks, the application may apply one late configuration,     *)
(* await shutdown() as often as it likes, drop that future half way, and   *)
(* finally drop the guard.  The guard has one owner (every method takes    *)
(* it by exclusive reference), so the application is one thread of         *)
(* control; the background tasks and the clients of the log-control server *)
(* run beside it.                                                          *)
(***************************************************************************)
EXTENDS Naturals, Sequences

CONSTANTS
  Setups,       \* the builder choices considered
  Fallible,     \* background tasks that may panic
  Cancellable,  \* TRUE iff a pending shutdown() future may be dropped
  MaxOpen       \* bound on simultaneous connections to the log-control server

Tasks    == {"metrics", "server"}
Signals  == {"logs", "metrics", "spans"}
Runtimes == {"none", "multi", "current"}  \* where the guard is dropped

AllSetups == [otlp    : BOOLEAN,  \* OTLP configured at init
              late    : BOOLEAN,  \* with_late_configuration called
              metrics : BOOLEAN,  \* Tokio runtime metrics enabled
              server  : BOOLEAN]  \* log control enabled

ASSUME SetupAssumption    == Setups \subseteq AllSetups
ASSUME FallibleAssumption == Fallible \subseteq Tasks
ASSUME CancelAssumption   == Cancellable \in BOOLEAN
ASSUME OpenAssumption     == MaxOpen \in Nat

VARIABLES
  setup,      \* the builder
  owner,      \* where the application is with the guard
  slot,       \* the guard still holds the late slot
  held,       \* signals whose provider the guard still holds
  live,       \* signals whose pipeline exports and has not been shut down
  meter,      \* the global meter provider: "noop", or who installed it
  task,       \* the state of each background task
  meterOf,    \* the provider the metrics task records to, "none" before
  open,       \* open connections to the log-control server
  cancelled,  \* the cancellation token
  aborted,    \* tasks abort() was called on
  handles,    \* background_tasks of the guard
  waiting,    \* handles the shutdown() future has still to await
  completed,  \* shutdown_completed
  failed,     \* the future has met a join error
  result,     \* what the first shutdown() to finish returned
  again,      \* a later shutdown() has returned Ok(())
  abandoned,  \* a pending shutdown() future was dropped
  skipped,    \* drop found a current-thread runtime and did not flush
  lost        \* a sample was recorded to a provider already shut down

guard == <<slot, held, completed, handles>>
call  == <<waiting, failed, result, again, abandoned>>
tasks == <<task, meterOf, open, lost>>
vars  == <<setup, owner, live, meter, cancelled, aborted, skipped,
           guard, call, tasks>>

Active(t) == task[t] \in {"spawned", "running", "draining"}
Ended     == \A t \in Tasks : ~Active(t)

Owners == {"install", "spawnMetrics", "spawnServer", "initFailed", "owned",
           "polling", "parked", "flushing", "dropFlushing", "dropped"}

TaskStates == {"absent", "spawned", "running", "draining", "finished",
               "panicked", "aborted"}

\* A task the builder did not ask for is never there.
TypeOK ==
  /\ setup \in AllSetups
  /\ owner \in Owners
  /\ slot \in BOOLEAN
  /\ held \subseteq Signals /\ live \subseteq Signals
  /\ meter \in {"noop", "init", "late"}
  /\ task \in [Tasks -> TaskStates]
  /\ \A t \in Tasks : task[t] # "absent" => setup[t]
  /\ meterOf \in {"none", "noop", "init", "late"}
  /\ open \in 0..MaxOpen
  /\ aborted \subseteq Tasks
  /\ handles \in Seq(Tasks) /\ waiting \in Seq(Tasks)
  /\ result \in {"none", "ok", "error"}
  /\ {cancelled, completed, failed, again, abandoned, skipped, lost}
       \subseteq BOOLEAN

Init ==
  /\ setup \in Setups
  /\ owner = "install"
  /\ slot = FALSE
  /\ held = {} /\ live = {}
  /\ meter = "noop"
  /\ task = [t \in Tasks |-> "absent"]
  /\ meterOf = "none"
  /\ open = 0
  /\ cancelled = FALSE
  /\ aborted = {}
  /\ handles = <<>> /\ waiting = <<>>
  /\ completed = FALSE
  /\ failed = FALSE
  /\ result = "none"
  /\ again = FALSE /\ abandoned = FALSE /\ skipped = FALSE /\ lost = FALSE

-----------------------------------------------------------------------------
(* init() *)

\* The subscriber and its providers are installed and handed to the guard.
\* The tracer and logger providers of deferred layers export nothing yet.
Install ==
  /\ owner = "install"
  /\ owner' = "spawnMetrics"
  /\ held' = IF setup.otlp THEN Signals
             ELSE IF setup.late THEN {"logs", "spans"} ELSE {}
  /\ live' = IF setup.otlp THEN Signals ELSE {}
  /\ meter' = IF setup.otlp THEN "init" ELSE meter
  /\ slot' = setup.late
  /\ UNCHANGED <<setup, cancelled, aborted, skipped, completed, handles,
                 call, tasks>>

\* install_subscriber() fails before the providers are built, or after, when
\* the OTLP filter does not parse or a subscriber is already installed: then
\* the tracer and logger providers die with the layers, and the meter provider
\* remains the global one.  When try_init() fails at the log crate, the
\* subscriber is global by then, and all three pipelines go on exporting.
InstallFails ==
  /\ owner = "install"
  /\ owner' = "initFailed"
  /\ \/ UNCHANGED <<live, meter>>
     \/ setup.otlp /\ live' \in {{"metrics"}, Signals} /\ meter' = "init"
  /\ UNCHANGED <<setup, cancelled, aborted, skipped, guard, call, tasks>>

\* Every operator whose name ends in a suffix after "_" is the operator of
\* that name with a plausible bug; it is used only to confirm that a property
\* would notice.

Wanted_Always(t) == TRUE
Wanted(t) == setup[t]

Spawn(t) ==
  /\ task' = [task EXCEPT ![t] = "spawned"]
  /\ handles' = Append(handles, t)

SpawnMetrics ==
  /\ owner = "spawnMetrics"
  /\ owner' = "spawnServer"
  /\ IF Wanted("metrics") THEN Spawn("metrics")
     ELSE UNCHANGED <<task, handles>>
  /\ UNCHANGED <<setup, live, meter, cancelled, aborted, skipped, slot, held,
                 completed, call, meterOf, open, lost>>

SpawnServer ==
  /\ owner = "spawnServer"
  /\ owner' = "owned"
  /\ IF Wanted("server") THEN Spawn("server")
     ELSE UNCHANGED <<task, handles>>
  /\ UNCHANGED <<setup, live, meter, cancelled, aborted, skipped, slot, held,
                 completed, call, meterOf, open, lost>>

-----------------------------------------------------------------------------
(* The methods of the guard *)

StoreMeter_Dropped == UNCHANGED held
StoreMeter == held' = held \cup {"metrics"}

\* apply_late_configuration() takes the slot.  An OTLP part that attaches
\* fills the deferred pipelines and hands the guard a meter provider; a
\* configuration without one, or one that fails, starts nothing (FilterControl).
ApplyLate ==
  /\ owner = "owned"
  /\ slot
  /\ slot' = FALSE
  /\ \/ UNCHANGED <<live, meter, held>>
     \/ /\ ~setup.otlp
        /\ live' = Signals
        /\ meter' = "late"
        /\ StoreMeter
  /\ UNCHANGED <<setup, owner, cancelled, aborted, skipped, completed, handles,
                 call, tasks>>

\* The first poll of the first shutdown(): the flag is set, the slot given up,
\* the tasks told to stop, and their handles moved into the future.
BeginShutdown_KeepsSlot ==
  /\ completed' = TRUE
  /\ cancelled' = TRUE
  /\ waiting' = handles
  /\ handles' = <<>>
  /\ UNCHANGED slot

BeginShutdown ==
  /\ completed' = TRUE
  /\ slot' = FALSE
  /\ cancelled' = TRUE
  /\ waiting' = handles
  /\ handles' = <<>>

Shutdown ==
  /\ owner = "owned"
  /\ ~completed
  /\ owner' = "polling"
  /\ BeginShutdown
  /\ UNCHANGED <<setup, live, meter, aborted, skipped, held, failed, result,
                 again, abandoned, tasks>>

\* Every later shutdown() returns Ok(()) at once.
ShutdownAgain ==
  /\ owner = "owned"
  /\ completed
  /\ again' = TRUE
  /\ UNCHANGED <<setup, owner, live, meter, cancelled, aborted, skipped, guard,
                 waiting, failed, result, abandoned, tasks>>

\* The join result of the next task is taken; a first error is kept.
KeepError_Last(t) == failed' = (task[t] # "finished")
KeepError(t) == failed' = (failed \/ task[t] # "finished")

Await ==
  /\ owner = "polling"
  /\ waiting # <<>>
  /\ ~Active(Head(waiting))
  /\ KeepError(Head(waiting))
  /\ waiting' = Tail(waiting)
  /\ UNCHANGED <<setup, owner, live, meter, cancelled, aborted, skipped, guard,
                 result, again, abandoned, tasks>>

\* The future is pending until that task has ended.
Park ==
  /\ owner = "polling"
  /\ waiting # <<>>
  /\ Active(Head(waiting))
  /\ owner' = "parked"
  /\ UNCHANGED <<setup, live, meter, cancelled, aborted, skipped, guard, call,
                 tasks>>

Wake ==
  /\ owner = "parked"
  /\ ~Active(Head(waiting))
  /\ owner' = "polling"
  /\ UNCHANGED <<setup, live, meter, cancelled, aborted, skipped, guard, call,
                 tasks>>

\* The application drops the pending future (a timeout around it, a select!):
\* the handles it holds are detached.
Abandon ==
  /\ Cancellable
  /\ owner = "parked"
  /\ owner' = "owned"
  /\ waiting' = <<>>
  /\ abandoned' = TRUE
  /\ UNCHANGED <<setup, live, meter, cancelled, aborted, skipped, guard, failed,
                 result, again, tasks>>

\* Without tasks left to await, the future goes on to the providers.
TasksAwaited_Unchecked == TRUE
TasksAwaited == waiting = <<>>

BeginFlush ==
  /\ owner = "polling"
  /\ TasksAwaited
  /\ owner' = "flushing"
  /\ UNCHANGED <<setup, live, meter, cancelled, aborted, skipped, guard, call,
                 tasks>>

NextProvider == IF "logs" \in held THEN "logs"
                ELSE IF "metrics" \in held THEN "metrics" ELSE "spans"

Remaining_StopsAtError == {}
Remaining == held \ {NextProvider}

\* shutdown_providers() takes the logger, then the meter, then the tracer
\* provider; an error of one is logged and the next is shut down all the same.
FlushProvider ==
  /\ owner \in {"flushing", "dropFlushing"}
  /\ held # {}
  /\ held' = Remaining
  /\ live' = live \ {NextProvider}
  /\ UNCHANGED <<setup, owner, meter, cancelled, aborted, skipped, slot,
                 completed, handles, call, tasks>>

EndShutdown ==
  /\ owner = "flushing"
  /\ held = {}
  /\ owner' = "owned"
  /\ result' = IF failed THEN "error" ELSE "ok"
  /\ UNCHANGED <<setup, live, meter, cancelled, aborted, skipped, guard,
                 waiting, failed, again, abandoned, tasks>>

EndDrop ==
  /\ owner = "dropFlushing"
  /\ held = {}
  /\ owner' = "dropped"
  /\ UNCHANGED <<setup, live, meter, cancelled, aborted, skipped, guard, call,
                 tasks>>

\* Drop cancels the token, aborts the tasks the guard still tracks and, unless
\* a shutdown() was started, shuts the providers down: directly outside a
\* runtime, in block_in_place on a multi-thread one.  On a current-thread
\* runtime block_in_place panics before it runs anything.
AbortUnfinished ==
  aborted' = aborted \cup {t \in Tasks :
                Active(t) /\ \E i \in DOMAIN handles : handles[i] = t}

Drop(runtime) ==
  /\ cancelled' = TRUE
  /\ AbortUnfinished
  /\ handles' = <<>>
  /\ slot' = FALSE
  /\ IF completed
     THEN owner' = "dropped" /\ held' = {} /\ UNCHANGED skipped
     ELSE IF runtime = "current"
     THEN owner' = "dropped" /\ held' = {} /\ skipped' = TRUE
     ELSE owner' = "dropFlushing" /\ UNCHANGED <<held, skipped>>
  /\ UNCHANGED <<setup, live, meter, completed, call, tasks>>

DropGuard == owner = "owned" /\ \E runtime \in Runtimes : Drop(runtime)

\* The log-control port cannot be bound: init() returns the error and drops
\* the guard, metrics task and all.
BindFails ==
  /\ owner = "spawnServer"
  /\ Wanted("server")
  /\ \E runtime \in Runtimes :
       /\ Wanted("metrics") => runtime # "none"
       /\ Drop(runtime)

\* Outside a runtime, spawning the metrics task or converting the listener of
\* the server panics: the guard is dropped as init() unwinds.
SpawnPanics ==
  /\ \/ owner = "spawnMetrics" /\ Wanted("metrics")
     \/ owner = "spawnServer" /\ Wanted("server") /\ ~Wanted("metrics")
  /\ Drop("none")

-----------------------------------------------------------------------------
(* The background tasks *)

\* The metrics task takes its meter when it is first polled, not when it is
\* spawned.
FirstPoll(t) ==
  /\ task[t] = "spawned"
  /\ t \notin aborted
  /\ task' = [task EXCEPT ![t] = "running"]
  /\ meterOf' = IF t = "metrics" THEN meter ELSE meterOf
  /\ UNCHANGED <<setup, owner, live, meter, cancelled, aborted, skipped, guard,
                 call, open, lost>>

\* A sample goes to the provider of the task's meter, shut down or not.
RecordSample ==
  /\ task["metrics"] = "running"
  /\ meterOf # "noop"
  /\ lost' = (lost \/ "metrics" \notin live)
  /\ UNCHANGED <<setup, owner, live, meter, cancelled, aborted, skipped, guard,
                 call, task, meterOf, open>>

\* A client opens a connection while the server accepts them, which it does
\* until it notices the token, and closes it.
OpenConnection ==
  /\ task["server"] = "running"
  /\ open < MaxOpen
  /\ open' = open + 1
  /\ UNCHANGED <<setup, owner, live, meter, cancelled, aborted, skipped, guard,
                 call, task, meterOf, lost>>

CloseConnection ==
  /\ open > 0
  /\ open' = open - 1
  /\ UNCHANGED <<setup, owner, live, meter, cancelled, aborted, skipped, guard,
                 call, task, meterOf, lost>>

\* Graceful shutdown: the server notices the token and accepts no more.
Drain ==
  /\ task["server"] = "running"
  /\ cancelled
  /\ task' = [task EXCEPT !["server"] = "draining"]
  /\ UNCHANGED <<setup, owner, live, meter, cancelled, aborted, skipped, guard,
                 call, meterOf, open, lost>>

\* The metrics loop ends at its next wait once the token is cancelled; the
\* server ends when the last of its connections is closed.
MayStop_Never(t) == FALSE
MayStop_AtOnce(t) == cancelled
MayStop(t) ==
  /\ cancelled
  /\ t = "server" => task[t] = "draining" /\ open = 0

Working(t) == task[t] \in {"running", "draining"}

Stop(t) ==
  /\ Working(t)
  /\ MayStop(t)
  /\ task' = [task EXCEPT ![t] = "finished"]
  /\ UNCHANGED <<setup, owner, live, meter, cancelled, aborted, skipped, guard,
                 call, meterOf, open, lost>>

Panic(t) ==
  /\ t \in Fallible
  /\ Working(t)
  /\ task' = [task EXCEPT ![t] = "panicked"]
  /\ UNCHANGED <<setup, owner, live, meter, cancelled, aborted, skipped, guard,
                 call, meterOf, open, lost>>

\* An aborted task ends the next time it would be polled.
EndAborted(t) ==
  /\ t \in aborted
  /\ Active(t)
  /\ task' = [task EXCEPT ![t] = "aborted"]
  /\ UNCHANGED <<setup, owner, live, meter, cancelled, aborted, skipped, guard,
                 call, meterOf, open, lost>>

-----------------------------------------------------------------------------
\* The application is done and so is everything it started.
Quiescent ==
  /\ owner \in {"initFailed", "dropped"}
  /\ Ended
  /\ UNCHANGED vars

\* The steps of init(), of a polled future and of a drop: once entered they
\* run on, while the choice of the next method is the application's.
InitStep ==
  \/ Install \/ InstallFails \/ SpawnMetrics \/ SpawnServer \/ BindFails
  \/ SpawnPanics

Proceed ==
  \/ InitStep
  \/ Await \/ Park \/ Wake \/ BeginFlush \/ FlushProvider
  \/ EndShutdown \/ EndDrop
Choose == ApplyLate \/ Shutdown \/ ShutdownAgain \/ DropGuard \/ Abandon

TaskStep(t) ==
  FirstPoll(t) \/ Stop(t) \/ EndAborted(t) \/ (t = "server" /\ Drain)

Next ==
  \/ Proceed
  \/ Choose
  \/ \E t \in Tasks : TaskStep(t) \/ Panic(t)
  \/ RecordSample
  \/ OpenConnection \/ CloseConnection
  \/ Quiescent

\* The runtime keeps polling the tasks and a woken future, and every client
\* ends its exchange; nobody has to panic, apply, shut down or drop.
Fairness ==
  /\ WF_vars(Proceed)
  /\ \A t \in Tasks : WF_vars(TaskStep(t))
  /\ WF_vars(CloseConnection)

Spec     == Init /\ [][Next]_vars
FairSpec == Spec /\ Fairness

-----------------------------------------------------------------------------
\* shutdown() promises "Ok(()) once all tracked background tasks have been
\* awaited and all configured OTLP providers have been shut down": no call
\* returns Ok(()) before the tasks have ended and the pipelines are down.
\* Calls after one that reported an error are included.
OkMeansDown ==
  (result = "ok" \/ again) => Ended /\ live = {}

\* An error of a task does not stop the teardown: when the first shutdown()
\* returns, everything is down, and it returns an error exactly when a task it
\* awaited did not finish normally.  Calls after it return Ok(()), which says as
\* much unless the first one was abandoned.
TeardownIsReported ==
  /\ result # "none" \/ (again /\ ~abandoned) => Ended /\ live = {}
  /\ result # "none" =>
       (result = "error" <=> \E t \in Tasks : task[t] = "panicked")

\* A pipeline that exports while an application runs with the guard is held
\* by the guard, so no pipeline can be lost to the teardown: not one of a
\* late configuration, not one started around a shutdown.
LiveIsHeld ==
  owner \in {"owned", "polling", "parked", "flushing", "dropFlushing"}
    => live \subseteq held

\* A dropped guard leaves no pipeline exporting, unless drop could not block
\* or a shutdown() was abandoned before it got to the providers.
DropFlushes ==
  owner = "dropped" /\ ~skipped /\ ~abandoned => live = {}

\* Runtime metrics are never recorded to a provider that shutdown() has shut
\* down: it waits for the task first.  Drop alone does not wait.
NoSampleLostByShutdown == lost => ~completed

\* Once shutdown() has started no pipeline starts any more.
ShutdownIsFinal == [][completed => live' \subseteq live]_vars

\* A shutdown() that the application keeps polling returns.
ShutdownReturns ==
  owner \in {"polling", "parked", "flushing"}
    ~> owner \notin {"polling", "parked", "flushing"}

\* Every background task ends after the guard is gone, and in particular
\* after an init() that failed at its last step.
TasksEndAfterDrop == owner = "dropped" ~> Ended

\* "Tokio runtime metrics started at init keep the meter provider that was
\* global at init": the provider of OTLP configured at init, or none.
MetricsKeepInitMeter ==
  meterOf # "none" => meterOf = IF setup.otlp THEN "init" ELSE "noop"
=============================================================================
