----------------------------- MODULE InitSequence -----------------------------
(***************************************************************************)
(* TelemetryBuilder::init(), step by step.                                 *)
(*                                                                         *)
(* A call resolves the stdout filter, builds the layers and the OTLP       *)
(* providers, installs the subscriber, and starts the background tasks.    *)
(* Each step may fail, and what the steps before it did to the process     *)
(* stays done: the global subscriber and the global meter provider are     *)
(* shared by every call in the process, and the environment is read twice. *)
(* Calls may be made one after the other (a retry) or by several threads.  *)
(***************************************************************************)
EXTENDS Sequences

CONSTANTS
  Attempts,    \* calls of init() in one process
  WellFormed,  \* filter expressions EnvFilter::try_new accepts
  Malformed,   \* filter expressions it rejects
  Default,     \* the expression used when nothing chooses one ("info")
  Off,         \* DEFERRED_FILTER
  None,        \* the absent value
  Limits,      \* log rate limits a configuration may set
  Unlimited,   \* the absence of a rate limit
  Builds,      \* the builds considered: the checked cargo features compiled in
  Calls,       \* the builders and runtimes considered, for each attempt
  Refusals     \* what the outside may refuse, a subset of Outside

Filters  == WellFormed \cup Malformed
Layers   == {"fmt", "journald", "trace", "log"}
Signals  == {"logs", "metrics", "spans"}
Tasks    == {"metrics", "server"}
Runtimes == {"none", "multi", "current"}  \* where init() is called
Outside  == {"journald", "trace", "log", "metric", "logger", "port"}

\* Every value the methods of the builder can give it, and where it is used.
AllCalls ==
  [journald : BOOLEAN, metrics : BOOLEAN, server : BOOLEAN, late : BOOLEAN,
   useEnv   : BOOLEAN,                     \* with_env_var / without_env_var
   fallback : Filters \cup {None},         \* with_stdout_filter
   otlp     : Filters \cup {None},         \* log_level of the OTLP config
   limit    : Limits \cup {Unlimited},
   runtime  : Runtimes]

ASSUME FilterAssumption ==
  /\ {Default, Off} \subseteq WellFormed
  /\ WellFormed \cap Malformed = {}
  /\ None \notin Filters \cup Attempts
  /\ Unlimited \notin Limits
ASSUME ChoiceAssumption ==
  /\ \A a \in Attempts : Calls[a] \subseteq AllCalls
  /\ Builds \subseteq SUBSET {"journald", "tokio-metrics"}
  /\ Refusals \subseteq Outside

Errors == {"JournaldFeatureDisabled", "TokioMetricsFeatureDisabled",
           "Subscriber", "OtlpEndpoint", "TraceProvider", "LogProvider",
           "MeterProvider", "LogControl"}
Steps  == {"new", "features", "resolve", "local", "exporters", "meter",
           "otlpLayers", "install", "guard", "metrics", "server", "done"}

VARIABLES
  features,    \* the checked cargo features of this build
  env,         \* the value of the filter's environment variable, or None
  subscriber,  \* the call whose subscriber is the global one, or None
  meter,       \* the call whose meter provider is the global one, or None
  pc,          \* how far each call is
  call,        \* the builder of each call and its runtime
  spec,        \* the stdout expression resolved by each call
  layers,      \* the filters of the layers each call has built
  slot,        \* the late slot of each guard
  held,        \* the providers each guard holds
  record,      \* the shared expressions of the two filter domains
  tasks,       \* the background tasks each call has spawned
  result       \* what each call returned, "panicked" if it did not return

process == <<features, env, subscriber, meter>>
parts   == <<spec, layers>>
guard   == <<slot, held, record, tasks>>
vars    == <<process, pc, call, parts, guard, result>>

Slots   == [fromEnv : BOOLEAN, deferred : BOOLEAN]
Records == [stdout : WellFormed, otlp : WellFormed \cup {None}]

ASSUME SlotAssumption == None \notin Slots

TypeOK ==
  /\ features \in Builds
  /\ env \in Filters \cup {None}
  /\ {subscriber, meter} \subseteq Attempts \cup {None}
  /\ pc \in [Attempts -> Steps]
  /\ call \in [Attempts -> AllCalls \cup {None}]
  /\ spec \in [Attempts -> Filters \cup {None}]
  /\ layers \in [Attempts -> [Layers -> WellFormed \cup {None}]]
  /\ slot \in [Attempts -> Slots \cup {None}]
  /\ held \in [Attempts -> SUBSET Signals]
  /\ record \in [Attempts -> Records \cup {None}]
  /\ tasks \in [Attempts -> SUBSET Tasks]
  /\ result \in [Attempts -> Errors \cup {"none", "ok", "panicked"}]

Init ==
  /\ features \in Builds
  /\ env \in Filters \cup {None}
  /\ subscriber = None /\ meter = None
  /\ pc = [a \in Attempts |-> "new"]
  /\ call = [a \in Attempts |-> None]
  /\ spec = [a \in Attempts |-> None]
  /\ layers = [a \in Attempts |-> [l \in Layers |-> None]]
  /\ slot = [a \in Attempts |-> None]
  /\ held = [a \in Attempts |-> {}]
  /\ record = [a \in Attempts |-> None]
  /\ tasks = [a \in Attempts |-> {}]
  /\ result = [a \in Attempts |-> "none"]

-----------------------------------------------------------------------------
\* Every operator whose name ends in a suffix after "_" is the operator of
\* that name with a plausible bug; it is used only to confirm that a property
\* would notice.

Goto(a, l) == pc' = [pc EXCEPT ![a] = l] /\ UNCHANGED result

Return(a, r) ==
  /\ pc' = [pc EXCEPT ![a] = "done"]
  /\ result' = [result EXCEPT ![a] = r]

\* The outside refuses, or not.
MayRefuse(what) == what \in Refusals

Parses(f) == f \in WellFormed

\* The environment is read twice, and nothing keeps another thread from
\* changing it in between.
ChangeEnv ==
  /\ env' \in Filters \cup {None}
  /\ env' # env
  /\ UNCHANGED <<features, subscriber, meter, pc, call, parts, guard, result>>

Call(a) ==
  /\ pc[a] = "new"
  /\ \E c \in Calls[a] : call' = [call EXCEPT ![a] = c]
  /\ Goto(a, "features")
  /\ UNCHANGED <<process, parts, guard>>

CheckFeatures(a) ==
  /\ pc[a] = "features"
  /\ IF call[a].journald /\ "journald" \notin features
     THEN Return(a, "JournaldFeatureDisabled")
     ELSE IF call[a].metrics /\ "tokio-metrics" \notin features
     THEN Return(a, "TokioMetricsFeatureDisabled")
     ELSE Goto(a, "resolve")
  /\ UNCHANGED <<process, call, parts, guard>>

\* environment_filter(): the variable, if the builder names one and it is set.
FromEnv(a) == call[a].useEnv /\ env # None

\* The first read: the variable, else the fallback, else the default.
Resolve(a) ==
  /\ pc[a] = "resolve"
  /\ LET f == IF FromEnv(a) THEN env
              ELSE IF call[a].fallback # None THEN call[a].fallback
              ELSE Default
     IN /\ spec' = [spec EXCEPT ![a] = f]
        /\ IF Parses(f) THEN Goto(a, "local") ELSE Return(a, "Subscriber")
  /\ UNCHANGED <<process, call, layers, guard>>

\* The formatting layer, and the journald layer with a filter of its own.
BuildLocalLayers(a) ==
  /\ pc[a] = "local"
  /\ \/ /\ layers' = [layers EXCEPT
             ![a].fmt = spec[a],
             ![a].journald = IF call[a].journald THEN spec[a] ELSE None]
        /\ Goto(a, "exporters")
     \/ /\ call[a].journald /\ MayRefuse("journald")
        /\ Return(a, "Subscriber")
        /\ UNCHANGED layers
  /\ UNCHANGED <<process, call, spec, guard>>

\* Without OTLP the deferred layers, if any, are built over empty slots.
DeferredFilter_Default == Default
DeferredFilter == Off

SkipExporters(a) ==
  /\ pc[a] = "exporters"
  /\ call[a].otlp = None
  /\ layers' = IF call[a].late
               THEN [layers EXCEPT ![a].trace = DeferredFilter,
                                   ![a].log = DeferredFilter]
               ELSE layers
  /\ Goto(a, "install")
  /\ UNCHANGED <<process, call, spec, guard>>

\* The trace exporter, which finds an invalid collector URL, then the log
\* exporter.
BuildExporters(a) ==
  /\ pc[a] = "exporters"
  /\ call[a].otlp # None
  /\ \/ Goto(a, "meter")
     \/ /\ MayRefuse("trace")
        /\ Return(a, "OtlpEndpoint") \/ Return(a, "TraceProvider")
     \/ MayRefuse("log") /\ Return(a, "LogProvider")
  /\ UNCHANGED <<process, call, parts, guard>>

\* build_meter_provider() builds the exporter, then sets the global provider.
GlobalMeter_First(a, built) == a
GlobalMeter(a, built) == IF built THEN a ELSE meter

BuildMeter(a) ==
  /\ pc[a] = "meter"
  /\ \E built \in BOOLEAN :
       /\ ~built => MayRefuse("metric")
       /\ meter' = GlobalMeter(a, built)
       /\ IF built THEN Goto(a, "otlpLayers") ELSE Return(a, "MeterProvider")
  /\ UNCHANGED <<features, env, subscriber, call, parts, guard>>

\* Both OTLP layers parse the same expression.
BuildOtlpLayers(a) ==
  /\ pc[a] = "otlpLayers"
  /\ IF Parses(call[a].otlp)
     THEN /\ layers' = [layers EXCEPT ![a].trace = call[a].otlp,
                                      ![a].log = call[a].otlp]
          /\ Goto(a, "install")
     ELSE Return(a, "Subscriber") /\ UNCHANGED layers
  /\ UNCHANGED <<process, call, spec, guard>>

\* try_init(): one subscriber per process, and an error of it is returned.
InstallError_Ignored(a) == Goto(a, "guard")
InstallError(a) == Return(a, "Subscriber")

\* Once the subscriber is the global one, try_init() also directs the "log"
\* crate to it, which fails when the application has a logger of its own.
Install(a) ==
  /\ pc[a] = "install"
  /\ \/ subscriber = None /\ subscriber' = a /\ Goto(a, "guard")
     \/ /\ subscriber = None /\ subscriber' = a
        /\ MayRefuse("logger") /\ InstallError(a)
     \/ subscriber # None /\ UNCHANGED subscriber /\ InstallError(a)
  /\ UNCHANGED <<features, env, meter, call, parts, guard>>

\* The providers handed to the guard.
Providers_NoMeter(a) ==
  IF call[a].otlp # None \/ call[a].late THEN {"logs", "spans"} ELSE {}
Providers(a) ==
  IF call[a].otlp # None THEN Signals
  ELSE IF call[a].late THEN {"logs", "spans"} ELSE {}

\* The guard is filled; the late slot reads the environment again.
FillGuard(a) ==
  /\ pc[a] = "guard"
  /\ held' = [held EXCEPT ![a] = Providers(a)]
  /\ record' = [record EXCEPT ![a] = [stdout |-> spec[a], otlp |-> call[a].otlp]]
  /\ slot' = IF call[a].late
             THEN [slot EXCEPT ![a] = [fromEnv  |-> FromEnv(a),
                                       deferred |-> call[a].otlp = None]]
             ELSE slot
  /\ Goto(a, "metrics")
  /\ UNCHANGED <<process, call, parts, tasks>>

\* The guard is dropped on the way out of a failed init(), as GuardLifecycle
\* has it: the providers are given up at once on a current-thread runtime.
\* What is global stays.
ReleaseGuard(a) ==
  /\ held' = IF call[a].runtime = "current"
             THEN [held EXCEPT ![a] = {}] ELSE held
  /\ slot' = [slot EXCEPT ![a] = None]

Spawn(a, t) == tasks' = [tasks EXCEPT ![a] = @ \cup {t}]

\* tokio::spawn panics outside a runtime.
SpawnMetrics(a) ==
  /\ pc[a] = "metrics"
  /\ IF ~call[a].metrics
     THEN Goto(a, "server") /\ UNCHANGED <<slot, held, tasks>>
     ELSE IF call[a].runtime = "none"
     THEN Return(a, "panicked") /\ ReleaseGuard(a) /\ UNCHANGED tasks
     ELSE Goto(a, "server") /\ Spawn(a, "metrics") /\ UNCHANGED <<slot, held>>
  /\ UNCHANGED <<process, call, parts, record>>

BindError_Subscriber == "Subscriber"
BindError == "LogControl"

\* bind_listener() binds the port, then panics outside a runtime; the server
\* task is spawned last.
StartServer(a) ==
  /\ pc[a] = "server"
  /\ \/ /\ ~call[a].server
        /\ Return(a, "ok")
        /\ UNCHANGED <<slot, held, tasks>>
     \/ /\ call[a].server
        /\ MayRefuse("port")
        /\ Return(a, BindError) /\ ReleaseGuard(a) /\ UNCHANGED tasks
     \/ /\ call[a].server
        /\ call[a].runtime = "none"
        /\ Return(a, "panicked") /\ ReleaseGuard(a) /\ UNCHANGED tasks
     \/ /\ call[a].server
        /\ call[a].runtime # "none"
        /\ Return(a, "ok") /\ Spawn(a, "server") /\ UNCHANGED <<slot, held>>
  /\ UNCHANGED <<process, call, parts, record>>

Quiescent ==
  /\ \A a \in Attempts : pc[a] = "done"
  /\ UNCHANGED vars

Proceed(a) ==
  \/ CheckFeatures(a) \/ Resolve(a) \/ BuildLocalLayers(a)
  \/ SkipExporters(a) \/ BuildExporters(a) \/ BuildMeter(a)
  \/ BuildOtlpLayers(a) \/ Install(a) \/ FillGuard(a)
  \/ SpawnMetrics(a) \/ StartServer(a)

Next ==
  \/ ChangeEnv
  \/ \E a \in Attempts : Call(a) \/ Proceed(a)
  \/ Quiescent

Spec == Init /\ [][Next]_vars

-----------------------------------------------------------------------------
\* Of the calls racing for the one subscriber of the process, only the one
\* that installed it succeeds: an application holding a guard is logging
\* through the layers and providers of that guard.
OnlyInstallerSucceeds ==
  \A a \in Attempts : result[a] = "ok" => subscriber = a

\* An init() that returns an error may be repeated: it has left no guard, late
\* slot or task behind, and unless the error is that of the installation it has
\* not taken the subscriber of the process.  (An application with a logger of
\* its own is told so once the subscriber is installed.)  The one exception is
\* the log-control port, which is bound last.
ErrorMeansNotInstalled ==
  \A a \in Attempts :
    result[a] \in Errors \ {"LogControl"} =>
      /\ slot[a] = None /\ held[a] = {} /\ tasks[a] = {}
      /\ subscriber = a => result[a] = "Subscriber" /\ MayRefuse("logger")

\* An exporter that cannot be built leaves nothing in the process.  In
\* particular the global meter provider, which nobody could shut down, is set
\* only once all three exporters exist.
ExporterErrorLeavesNothing ==
  \A a \in Attempts :
    result[a] \in {"OtlpEndpoint", "TraceProvider", "LogProvider",
                   "MeterProvider"}
      => meter # a /\ subscriber # a

\* init() hands over what FilterControl starts from: the layers filter with
\* the recorded expressions, deferred layers are off and unlimited, and the
\* OTLP domain is recorded exactly when its providers export.
RateLimitOf(a) == IF call[a].otlp = None THEN Unlimited ELSE call[a].limit

Control(a) == INSTANCE FilterControl
  WITH Requests <- {}, Late <- "late", Unread <- "unread",
       LateConfigs <- {}, Breakable <- {},
       Setups <- [journald : BOOLEAN, otlp : BOOLEAN, late : BOOLEAN,
                  fromEnv : BOOLEAN],
       setup <- [journald |-> call[a].journald,
                 otlp     |-> call[a].otlp # None,
                 late     |-> slot[a] # None,
                 fromEnv  |-> slot[a] # None /\ slot[a].fromEnv],
       installed <- layers[a],
       record <- record[a],
       lock <- [d \in {"stdout", "otlp"} |-> None],
       pc <- [actor \in {"late"} |-> "new"],
       job <- [actor \in {"late"} |-> None],
       reply <- [r \in {} |-> None],
       config <- None,
       outcome <- "none",
       running <- IF meter = a THEN Signals ELSE {},
       limit <- RateLimitOf(a)

HandsOver ==
  \A a \in Attempts :
    result[a] = "ok" /\ (\A b \in Attempts \ {a} : pc[b] = "new")
      => Control(a)!Init
-----------------------------------------------------------------------------
(* What GuardLifecycle sees of a call. *)

Dropped(a) == result[a] \in {"LogControl", "panicked"}

ownerBar(a) ==
  IF pc[a] = "metrics" THEN "spawnMetrics"
  ELSE IF pc[a] = "server" THEN "spawnServer"
  ELSE IF pc[a] # "done" THEN "install"
  ELSE IF result[a] = "ok" THEN "owned"
  ELSE IF ~Dropped(a) THEN "initFailed"
  ELSE IF call[a].runtime = "current" THEN "dropped" ELSE "dropFlushing"

liveBar(a) ==
  IF ownerBar(a) = "install" \/ meter # a THEN {}
  ELSE IF ownerBar(a) = "initFailed" /\ subscriber # a THEN {"metrics"}
  ELSE Signals

handlesBar(a) ==
  IF Dropped(a) THEN <<>>
  ELSE (IF "metrics" \in tasks[a] THEN <<"metrics">> ELSE <<>>)
         \o (IF "server" \in tasks[a] THEN <<"server">> ELSE <<>>)

setupBar(a) == [otlp    |-> call[a].otlp # None, late   |-> call[a].late,
                metrics |-> call[a].metrics,     server |-> call[a].server]
slotBar(a)    == slot[a] # None
meterBar(a)   == IF ownerBar(a) # "install" /\ meter = a THEN "init" ELSE "noop"
taskBar(a)    == [t \in Tasks |-> IF t \in tasks[a] THEN "spawned" ELSE "absent"]
abortedBar(a) == IF Dropped(a) THEN tasks[a] ELSE {}
skippedBar(a) == Dropped(a) /\ call[a].runtime = "current"

Guard(a) == INSTANCE GuardLifecycle
  WITH Setups <- [otlp : BOOLEAN, late : BOOLEAN, metrics : BOOLEAN,
                  server : BOOLEAN],
       Fallible <- {}, Cancellable <- FALSE, MaxOpen <- 0,
       setup <- setupBar(a), owner <- ownerBar(a), slot <- slotBar(a),
       held <- held[a], live <- liveBar(a), meter <- meterBar(a),
       task <- taskBar(a), meterOf <- "none", open <- 0,
       cancelled <- Dropped(a), aborted <- abortedBar(a),
       handles <- handlesBar(a), waiting <- <<>>,
       completed <- FALSE, failed <- FALSE, result <- "none",
       again <- FALSE, abandoned <- FALSE, skipped <- skippedBar(a),
       lost <- FALSE

\* Every step of the first call is a step of init() as GuardLifecycle has it,
\* or prepares one: whatever fails, the guard gets the providers, tasks and late
\* slot, and leaves the pipelines, that its teardown is checked with.
ImplementsGuardInit ==
  [][\A a \in Attempts :
       Proceed(a) /\ (\A b \in Attempts \ {a} : pc[b] = "new")
         => Guard(a)!InitStep \/ UNCHANGED Guard(a)!vars]_vars
=============================================================================
