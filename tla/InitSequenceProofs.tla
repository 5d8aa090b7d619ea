-------------------------- MODULE InitSequenceProofs --------------------------
(***************************************************************************)
(* What init() leaves in the process, for any number of calls, one after   *)
(* the other or racing, any builders, any features and anything the        *)
(* outside may refuse: only the call that installed the subscriber         *)
(* succeeds, an error leaves nothing to clean up, and a success hands over *)
(* what FilterControl starts from.  Every step of the first call is a step *)
(* of init() as GuardLifecycle has it, or is hidden from the guard.        *)
(*                                                                         *)
(* The inductive invariant says of each call how far it has come and what  *)
(* it has built by then (Fits).  A step of one call disturbs another only  *)
(* through the two globals, the subscriber and the meter provider.         *)
(***************************************************************************)
EXTENDS InitSequence, TLAPS

USE FilterAssumption, ChoiceAssumption, SlotAssumption

Before(l) ==
  CASE l = "local"   -> {"new", "features", "resolve", "local"}
    [] l = "meter"   -> {"new", "features", "resolve", "local", "exporters",
                         "meter"}
    [] l = "guard"   -> {"new", "features", "resolve", "local", "exporters",
                         "meter", "otlpLayers", "install", "guard"}

\* A call that has come as far as a set of steps, or has returned a guard.
Reached(a, steps) == pc[a] \in steps \/ result[a] = "ok"

ProgressFits(a) ==
  /\ pc[a] # "new" => call[a] \in Calls[a]
  /\ (result[a] = "none") <=> (pc[a] # "done")

\* The subscriber is that of the call that is past its installation.
SubscriberFits(a) ==
  /\ pc[a] \in Before("guard") \ {"guard"} => subscriber # a
  /\ \/ Reached(a, {"guard", "metrics", "server"})
     \/ result[a] \in {"LogControl", "panicked"}
     => subscriber = a
  /\ subscriber = a /\ result[a] \in Errors \ {"LogControl"}
       => result[a] = "Subscriber" /\ MayRefuse("logger")

\* The global meter provider is set once all three exporters exist, and by no
\* call that has no OTLP configuration.
MeterFits(a) ==
  /\ pc[a] \in Before("meter") => meter # a
  /\ result[a] \in {"OtlpEndpoint", "TraceProvider", "LogProvider",
                    "MeterProvider"}
       => meter # a /\ subscriber # a
  /\ pc[a] \in {"meter", "otlpLayers"} => call[a].otlp # None
  /\ Reached(a, {"otlpLayers", "install", "guard", "metrics", "server"}) =>
       IF call[a].otlp = None THEN meter # a
       ELSE (\A b \in Attempts \ {a} : pc[b] = "new") => meter = a

\* A guard is filled only after the installation.
GuardFits(a) ==
  /\ \/ pc[a] \in Before("guard")
     \/ result[a] \in Errors \ {"LogControl"}
     => slot[a] = None /\ held[a] = {} /\ tasks[a] = {}
  /\ Reached(a, {"metrics", "server"}) =>
       /\ slot[a] # None <=> call[a].late
       /\ record[a] = [stdout |-> spec[a], otlp |-> call[a].otlp]
  /\ pc[a] = "metrics" => tasks[a] = {}
  /\ pc[a] = "server" =>
       IF call[a].metrics THEN tasks[a] = {"metrics"} /\ call[a].runtime # "none"
       ELSE tasks[a] = {}

LocalLayers(a) ==
  [l \in Layers |->
     IF l = "fmt" \/ (l = "journald" /\ call[a].journald) THEN spec[a] ELSE None]

AllLayers(a) ==
  [l \in Layers |->
     IF l \in {"fmt", "journald"} THEN LocalLayers(a)[l]
     ELSE IF call[a].otlp # None THEN call[a].otlp
     ELSE IF call[a].late THEN Off ELSE None]

\* The layers follow the expressions the call resolved and was given.
LayersFit(a) ==
  /\ pc[a] \in Before("local") => layers[a] = [l \in Layers |-> None]
  /\ pc[a] \in {"exporters", "meter", "otlpLayers"} => layers[a] = LocalLayers(a)
  /\ Reached(a, {"install", "guard", "metrics", "server"}) =>
       layers[a] = AllLayers(a) /\ call[a].otlp \in WellFormed \cup {None}
  /\ Reached(a, Steps \ {"new", "features", "resolve", "done"})
       => spec[a] \in WellFormed

Fits(a) ==
  /\ ProgressFits(a)
  /\ SubscriberFits(a)
  /\ MeterFits(a)
  /\ GuardFits(a)
  /\ LayersFit(a)

Inv == TypeOK /\ \A a \in Attempts : Fits(a)

-----------------------------------------------------------------------------
(* Types *)

\* The process starts with neither global set and no call made.
LEMMA TypeInit == Init => TypeOK
<1> SUFFICES ASSUME Init PROVE TypeOK
  OBVIOUS
<1>1. {subscriber, meter} \subseteq Attempts \cup {None}
  BY DEF Init
<1> QED
  BY <1>1 DEF Init, TypeOK, Steps

\* A step of a call goes on or returns.
Moves(a) ==
  \/ \E l \in Steps : Goto(a, l)
  \/ \E r \in Errors \cup {"ok", "panicked"} : Return(a, r)

\* Every step of a call moves it.
LEMMA CallMoves ==
  ASSUME NEW a \in Attempts, Call(a) \/ Proceed(a)
  PROVE  Moves(a)
<1> USE DEF Moves, Steps, Errors
<1>1. CASE Call(a) \/ CheckFeatures(a) \/ Resolve(a) \/ BuildLocalLayers(a)
  BY <1>1 DEF Call, CheckFeatures, Resolve, BuildLocalLayers
<1>2. CASE SkipExporters(a) \/ BuildExporters(a) \/ BuildMeter(a)
  BY <1>2 DEF SkipExporters, BuildExporters, BuildMeter
<1>3. CASE BuildOtlpLayers(a) \/ Install(a) \/ FillGuard(a)
  BY <1>3 DEF BuildOtlpLayers, Install, InstallError,
     FillGuard
<1>4. CASE SpawnMetrics(a) \/ StartServer(a)
  BY <1>4 DEF SpawnMetrics, StartServer, BindError
<1> QED
  BY <1>1, <1>2, <1>3, <1>4 DEF Proceed

\* A move keeps the places and the results within their types.
LEMMA MoveType ==
  ASSUME TypeOK, NEW a \in Attempts, Moves(a)
  PROVE  /\ pc' \in [Attempts -> Steps]
         /\ result' \in [Attempts -> Errors \cup {"none", "ok", "panicked"}]
<1>1. /\ pc \in [Attempts -> Steps]
      /\ result \in [Attempts -> Errors \cup {"none", "ok", "panicked"}]
  BY DEF TypeOK
<1>2. CASE \E l \in Steps : Goto(a, l)
  BY <1>1, <1>2 DEF Goto
<1>3. CASE \E r \in Errors \cup {"ok", "panicked"} : Return(a, r)
  BY <1>1, <1>3 DEF Return, Steps
<1> QED
  BY <1>2, <1>3 DEF Moves

\* The globals are set to the call or left alone.
LEMMA GlobalType ==
  ASSUME TypeOK, NEW a \in Attempts, Call(a) \/ Proceed(a)
  PROVE  {subscriber', meter'} \subseteq Attempts \cup {None}
<1>1. subscriber' \in {subscriber, a} /\ meter' \in {meter, a}
  BY DEF Call, Proceed, CheckFeatures, Resolve, BuildLocalLayers, SkipExporters,
     BuildExporters, BuildMeter, GlobalMeter, BuildOtlpLayers, Install, InstallError,
     FillGuard, SpawnMetrics, StartServer, process
<1>2. subscriber \in Attempts \cup {None} /\ meter \in Attempts \cup {None}
  BY DEF TypeOK
<1> QED
  BY <1>1, <1>2

\* Giving a call new layers.
LEMMA LayersType ==
  ASSUME layers \in [Attempts -> [Layers -> WellFormed \cup {None}]],
         NEW a \in Attempts,
         NEW x \in WellFormed \cup {None}, NEW y \in WellFormed \cup {None}
  PROVE  /\ [layers EXCEPT ![a].fmt = x, ![a].journald = y]
               \in [Attempts -> [Layers -> WellFormed \cup {None}]]
         /\ [layers EXCEPT ![a].trace = x, ![a].log = y]
               \in [Attempts -> [Layers -> WellFormed \cup {None}]]
BY DEF Layers

\* The local layers filter with the expression the call resolved.
LEMMA LocalLayersType ==
  ASSUME TypeOK, NEW a \in Attempts, BuildLocalLayers(a), spec[a] \in WellFormed
  PROVE  layers' \in [Attempts -> [Layers -> WellFormed \cup {None}]]
<1> DEFINE y == IF call[a].journald THEN spec[a] ELSE None
<1>1. layers \in [Attempts -> [Layers -> WellFormed \cup {None}]]
  BY DEF TypeOK
<1>2. spec[a] \in WellFormed \cup {None} /\ y \in WellFormed \cup {None}
  OBVIOUS
<1>3. \/ layers' = layers
      \/ layers' = [layers EXCEPT ![a].fmt = spec[a], ![a].journald = y]
  BY DEF BuildLocalLayers
<1> HIDE DEF y
<1>4. [layers EXCEPT ![a].fmt = spec[a], ![a].journald = y]
        \in [Attempts -> [Layers -> WellFormed \cup {None}]]
  BY <1>1, <1>2, LayersType
<1> QED
  BY <1>1, <1>3, <1>4

\* The OTLP layers are built over an expression that parses.
LEMMA OtlpLayersType ==
  ASSUME TypeOK, NEW a \in Attempts, BuildOtlpLayers(a)
  PROVE  layers' \in [Attempts -> [Layers -> WellFormed \cup {None}]]
<1>1. layers \in [Attempts -> [Layers -> WellFormed \cup {None}]]
  BY DEF TypeOK
<1>2. CASE layers' = layers
  BY <1>1, <1>2
<1>3. CASE call[a].otlp \in WellFormed
  <2> DEFINE g == call[a].otlp
  <2>1. g \in WellFormed \cup {None}
    BY <1>3
  <2>2. layers' = [layers EXCEPT ![a].trace = g, ![a].log = g]
    BY <1>3 DEF BuildOtlpLayers, Parses
  <2> HIDE DEF g
  <2>3. [layers EXCEPT ![a].trace = g, ![a].log = g]
          \in [Attempts -> [Layers -> WellFormed \cup {None}]]
    BY <1>1, <2>1, LayersType
  <2> QED
    BY <2>2, <2>3
<1> QED
  BY <1>2, <1>3 DEF BuildOtlpLayers, Parses

\* Giving up the guard on the way out.
LEMMA ReleaseType ==
  ASSUME TypeOK, NEW a \in Attempts,
         ReleaseGuard(a) \/ UNCHANGED <<slot, held>>,
         UNCHANGED tasks \/ \E t \in Tasks : Spawn(a, t)
  PROVE  /\ held' \in [Attempts -> SUBSET Signals]
         /\ slot' \in [Attempts -> Slots \cup {None}]
         /\ tasks' \in [Attempts -> SUBSET Tasks]
<1>1. /\ held \in [Attempts -> SUBSET Signals]
      /\ slot \in [Attempts -> Slots \cup {None}]
      /\ tasks \in [Attempts -> SUBSET Tasks]
  BY DEF TypeOK
<1>2. tasks' \in [Attempts -> SUBSET Tasks]
  BY <1>1 DEF Spawn
<1>3. held' \in [Attempts -> SUBSET Signals]
  BY <1>1 DEF ReleaseGuard
<1>4. slot' \in [Attempts -> Slots \cup {None}]
  BY <1>1 DEF ReleaseGuard
<1> QED
  BY <1>2, <1>3, <1>4

\* Every step of a call stays within the types.
LEMMA TypeStep ==
  ASSUME TypeOK, NEW a \in Attempts, Call(a) \/ Proceed(a),
         pc[a] # "new" => call[a] \in Calls[a],
         pc[a] \in {"local", "guard"} => spec[a] \in WellFormed,
         pc[a] = "guard" => call[a].otlp \in WellFormed \cup {None}
  PROVE  TypeOK'
<1>0. /\ pc' \in [Attempts -> Steps]
      /\ result' \in [Attempts -> Errors \cup {"none", "ok", "panicked"}]
      /\ {subscriber', meter'} \subseteq Attempts \cup {None}
  BY CallMoves, MoveType, GlobalType
<1>a. /\ Calls[a] \subseteq AllCalls
      /\ {Default, Off} \subseteq Filters /\ WellFormed \subseteq Filters
  BY DEF Filters
<1> USE <1>0 DEF TypeOK, process, parts, guard
<1>1. CASE Call(a)
  BY <1>a, <1>1 DEF Call
<1>2. CASE CheckFeatures(a)
  BY <1>2 DEF CheckFeatures
<1>3. CASE Resolve(a)
  <2>1. call[a] \in AllCalls
    BY <1>3, <1>a DEF Resolve
  <2>2. spec' \in [Attempts -> Filters \cup {None}]
    BY <1>3, <1>a, <2>1 DEF Resolve, FromEnv, AllCalls
  <2> QED
    BY <1>3, <2>2 DEF Resolve
<1>4. CASE BuildLocalLayers(a)
  <2>1. layers' \in [Attempts -> [Layers -> WellFormed \cup {None}]]
    BY <1>4, LocalLayersType DEF BuildLocalLayers
  <2> QED
    BY <1>4, <2>1 DEF BuildLocalLayers
<1>5. CASE SkipExporters(a)
  <2>1. layers' \in [Attempts -> [Layers -> WellFormed \cup {None}]]
    BY <1>5, LayersType DEF SkipExporters, DeferredFilter
  <2> QED
    BY <1>5, <2>1 DEF SkipExporters
<1>6. CASE BuildExporters(a)
  BY <1>6 DEF BuildExporters
<1>7. CASE BuildMeter(a)
  BY <1>7 DEF BuildMeter
<1>8. CASE BuildOtlpLayers(a)
  <2>1. layers' \in [Attempts -> [Layers -> WellFormed \cup {None}]]
    BY <1>8, OtlpLayersType
  <2> QED
    BY <1>8, <2>1 DEF BuildOtlpLayers
<1>9. CASE Install(a)
  BY <1>9 DEF Install, InstallError
<1>10. CASE FillGuard(a)
  BY <1>10, <1>a DEF FillGuard, Providers, Signals, Records, Slots, FromEnv,
     AllCalls
<1>11. CASE SpawnMetrics(a)
  <2>1. /\ held' \in [Attempts -> SUBSET Signals]
        /\ slot' \in [Attempts -> Slots \cup {None}]
        /\ tasks' \in [Attempts -> SUBSET Tasks]
    BY <1>11, ReleaseType DEF SpawnMetrics, Tasks
  <2> QED
    BY <1>11, <2>1 DEF SpawnMetrics
<1>12. CASE StartServer(a)
  <2>1. /\ held' \in [Attempts -> SUBSET Signals]
        /\ slot' \in [Attempts -> Slots \cup {None}]
        /\ tasks' \in [Attempts -> SUBSET Tasks]
    BY <1>12, ReleaseType DEF StartServer, Tasks
  <2> QED
    BY <1>12, <2>1 DEF StartServer
<1> QED
  BY <1>1, <1>2, <1>3, <1>4, <1>5, <1>6, <1>7, <1>8, <1>9, <1>10, <1>11, <1>12
  DEF Proceed

-----------------------------------------------------------------------------
(* The other calls *)

\* What a step of one call leaves alone: whatever belongs to another.
LEMMA OneCall ==
  ASSUME TypeOK, NEW a \in Attempts, Call(a) \/ Proceed(a),
         NEW b \in Attempts \ {a}
  PROVE  /\ UNCHANGED <<pc[b], call[b], spec[b], layers[b], slot[b],
                        held[b], record[b], tasks[b], result[b]>>
         /\ pc'[a] # "new" /\ env' = env /\ features' = features
         /\ subscriber' = b <=> subscriber = b
         /\ meter' = b => meter = b
<1> USE DEF TypeOK, Goto, Return, process, parts, guard
<1>1. CASE Call(a)
  BY <1>1 DEF Call
<1>2. CASE CheckFeatures(a)
  BY <1>2 DEF CheckFeatures
<1>3. CASE Resolve(a)
  BY <1>3 DEF Resolve
<1>4. CASE BuildLocalLayers(a)
  BY <1>4 DEF BuildLocalLayers
<1>5. CASE SkipExporters(a)
  BY <1>5 DEF SkipExporters
<1>6. CASE BuildExporters(a)
  BY <1>6 DEF BuildExporters
<1>7. CASE BuildMeter(a)
  BY <1>7 DEF BuildMeter, GlobalMeter
<1>8. CASE BuildOtlpLayers(a)
  BY <1>8 DEF BuildOtlpLayers
<1>9. CASE Install(a)
  BY <1>9 DEF Install, InstallError
<1>10. CASE FillGuard(a)
  BY <1>10 DEF FillGuard
<1>11. CASE SpawnMetrics(a)
  BY <1>11 DEF SpawnMetrics, ReleaseGuard, Spawn
<1>12. CASE StartServer(a)
  BY <1>12 DEF StartServer, ReleaseGuard, Spawn
<1> QED
  BY <1>1, <1>2, <1>3, <1>4, <1>5, <1>6, <1>7, <1>8, <1>9, <1>10, <1>11, <1>12
  DEF Proceed

\* A call stays as far as it is while another takes a step.
LEMMA OtherFits ==
  ASSUME Inv, NEW a \in Attempts, Call(a) \/ Proceed(a),
         NEW b \in Attempts \ {a}
  PROVE  Fits(b)'
<1>0. Fits(b)
  BY DEF Inv
<1>1. /\ UNCHANGED <<pc[b], call[b], spec[b], layers[b], slot[b],
                      held[b], record[b], tasks[b], result[b]>>
      /\ pc'[a] # "new" /\ env' = env
      /\ subscriber' = b <=> subscriber = b
      /\ meter' = b => meter = b
  BY OneCall DEF Inv
<1>2. ProgressFits(b)' /\ SubscriberFits(b)'
  BY <1>0, <1>1 DEF Fits, ProgressFits, SubscriberFits, Reached, MayRefuse
<1>3. MeterFits(b)'
  BY <1>0, <1>1 DEF Fits, MeterFits, Reached
<1>4. GuardFits(b)'
  BY <1>0, <1>1 DEF Fits, GuardFits, Reached
<1>5. LayersFit(b)'
  BY <1>0, <1>1 DEF Fits, LayersFit, LocalLayers, AllLayers, Reached
<1> QED
  BY <1>2, <1>3, <1>4, <1>5 DEF Fits

-----------------------------------------------------------------------------
(* The call that takes the step *)

\* Nothing is built before the first filter is resolved.
LEMMA EarlyFits ==
  ASSUME Inv, NEW a \in Attempts,
         Call(a) \/ CheckFeatures(a) \/ Resolve(a)
  PROVE  Fits(a)'
<1> USE DEF Goto, Return, process, parts, guard, Reached, Before
<1>0. /\ TypeOK /\ Fits(a)
      /\ pc \in [Attempts -> Steps]
      /\ result \in [Attempts -> Errors \cup {"none", "ok", "panicked"}]
      /\ a # None
  BY DEF Inv, TypeOK
<1>1. CASE Call(a)
  <2>1. /\ pc[a] = "new" /\ pc'[a] = "features" /\ call'[a] \in Calls[a]
        /\ UNCHANGED <<process, parts, guard, result>>
    BY <1>0, <1>1 DEF TypeOK, Call
  <2> QED
    BY <1>0, <2>1 DEF Fits, ProgressFits, SubscriberFits, MeterFits, GuardFits,
       LayersFit, Steps
<1>2. CASE CheckFeatures(a)
  <2>1. /\ pc[a] = "features"
        /\ UNCHANGED <<process, parts, guard, call>>
        /\ \/ pc'[a] = "resolve" /\ result' = result
           \/ /\ pc'[a] = "done"
              /\ result'[a] \in {"JournaldFeatureDisabled",
                                 "TokioMetricsFeatureDisabled"}
    BY <1>0, <1>2 DEF CheckFeatures
  <2> QED
    BY <1>0, <2>1 DEF Fits, ProgressFits, SubscriberFits, MeterFits, GuardFits,
       LayersFit, Steps, Errors
<1>3. CASE Resolve(a)
  <2>1. /\ pc[a] = "resolve"
        /\ UNCHANGED <<process, layers, guard, call>>
        /\ \/ pc'[a] = "local" /\ spec'[a] \in WellFormed /\ result' = result
           \/ pc'[a] = "done" /\ result'[a] = "Subscriber"
    BY <1>0, <1>3 DEF TypeOK, Resolve, FromEnv, Parses
  <2> QED
    BY <1>0, <2>1 DEF Fits, ProgressFits, SubscriberFits, MeterFits, GuardFits,
       LayersFit, Steps, Errors
<1> QED
  BY <1>1, <1>2, <1>3

\* The layers and the providers are built before anything is installed.
LEMMA BuildFits ==
  ASSUME Inv, NEW a \in Attempts,
         \/ BuildLocalLayers(a) \/ SkipExporters(a) \/ BuildExporters(a)
         \/ BuildMeter(a) \/ BuildOtlpLayers(a)
  PROVE  Fits(a)'
<1> USE DEF Goto, Return, process, parts, guard, Reached, Before
<1>0. /\ TypeOK /\ Fits(a)
      /\ pc \in [Attempts -> Steps]
      /\ result \in [Attempts -> Errors \cup {"none", "ok", "panicked"}]
      /\ layers \in [Attempts -> [Layers -> WellFormed \cup {None}]]
      /\ a # None
  BY DEF Inv, TypeOK
<1>b. \A b \in Attempts \ {a} : pc'[b] = pc[b]
  BY <1>0, OneCall DEF Proceed
<1>1. CASE BuildLocalLayers(a)
  <2>1. /\ pc[a] = "local" /\ layers[a] = [l \in Layers |-> None]
        /\ UNCHANGED <<process, spec, guard, call>>
    BY <1>0, <1>1 DEF BuildLocalLayers, Fits, LayersFit
  <2>2. \/ /\ pc'[a] = "exporters" /\ result' = result
           /\ layers'[a] = LocalLayers(a)
        \/ pc'[a] = "done" /\ result'[a] = "Subscriber"
    <3>1. CASE layers' = [layers EXCEPT
                 ![a].fmt = spec[a],
                 ![a].journald = IF call[a].journald THEN spec[a] ELSE None]
      <4>1. layers'[a] = LocalLayers(a)
        BY <1>0, <2>1, <3>1 DEF LocalLayers, Layers
      <4> QED
        BY <1>0, <1>1, <4>1 DEF BuildLocalLayers
    <3> QED
      BY <1>0, <1>1, <3>1 DEF BuildLocalLayers
  <2>3. LocalLayers(a)' = LocalLayers(a)
    BY <2>1 DEF LocalLayers
  <2> QED
    BY <1>0, <2>1, <2>2, <2>3 DEF Fits, ProgressFits, SubscriberFits, MeterFits,
       GuardFits, LayersFit, Steps, Errors
<1>2. CASE SkipExporters(a)
  <2>1. /\ pc[a] = "exporters" /\ pc'[a] = "install" /\ call[a].otlp = None
        /\ layers[a] = LocalLayers(a)
        /\ UNCHANGED <<process, spec, guard, call, result>>
    BY <1>0, <1>2 DEF SkipExporters, Fits, LayersFit
  <2>2. layers'[a] = AllLayers(a)
    BY <1>0, <1>2, <2>1 DEF SkipExporters, DeferredFilter, AllLayers,
       LocalLayers, Layers
  <2>3. AllLayers(a)' = AllLayers(a)
    BY <2>1 DEF AllLayers, LocalLayers
  <2> QED
    BY <1>0, <2>1, <2>2, <2>3 DEF Fits, ProgressFits, SubscriberFits, MeterFits,
       GuardFits, LayersFit, Steps
<1>3. CASE BuildExporters(a)
  <2>1. /\ pc[a] = "exporters" /\ call[a].otlp # None
        /\ UNCHANGED <<process, parts, guard, call>>
        /\ \/ pc'[a] = "meter" /\ result' = result
           \/ /\ pc'[a] = "done"
              /\ result'[a] \in {"OtlpEndpoint", "TraceProvider", "LogProvider"}
    BY <1>0, <1>3 DEF BuildExporters
  <2> QED
    BY <1>0, <2>1 DEF Fits, ProgressFits, SubscriberFits, MeterFits, GuardFits,
       LayersFit, LocalLayers, Steps, Errors
<1>4. CASE BuildMeter(a)
  <2>1. /\ pc[a] = "meter"
        /\ UNCHANGED <<env, subscriber, parts, guard, call>>
        /\ \/ pc'[a] = "otlpLayers" /\ result' = result /\ meter' = a
           \/ pc'[a] = "done" /\ result'[a] = "MeterProvider" /\ meter' = meter
    BY <1>0, <1>4 DEF BuildMeter, GlobalMeter
  <2> QED
    BY <1>0, <2>1 DEF Fits, ProgressFits, SubscriberFits, MeterFits, GuardFits,
       LayersFit, LocalLayers, Steps, Errors
<1>5. CASE BuildOtlpLayers(a)
  <2>1. /\ pc[a] = "otlpLayers" /\ call[a].otlp # None
        /\ layers[a] = LocalLayers(a)
        /\ UNCHANGED <<process, spec, guard, call>>
    BY <1>0, <1>5 DEF BuildOtlpLayers, Fits, LayersFit, MeterFits
  <2>2. \/ /\ pc'[a] = "install" /\ result' = result
           /\ call[a].otlp \in WellFormed
           /\ layers'[a] = AllLayers(a)
        \/ pc'[a] = "done" /\ result'[a] = "Subscriber"
    <3>1. CASE Parses(call[a].otlp)
      <4>1. layers' = [layers EXCEPT ![a].trace = call[a].otlp,
                                     ![a].log = call[a].otlp]
        BY <1>5, <3>1 DEF BuildOtlpLayers
      <4>2. layers'[a] = AllLayers(a)
        BY <1>0, <2>1, <4>1 DEF AllLayers, LocalLayers, Layers
      <4> QED
        BY <1>0, <1>5, <3>1, <4>2 DEF BuildOtlpLayers, Parses
    <3>2. CASE ~Parses(call[a].otlp)
      BY <1>0, <1>5, <3>2 DEF BuildOtlpLayers
    <3> QED
      BY <3>1, <3>2
  <2>3. AllLayers(a)' = AllLayers(a)
    BY <2>1 DEF AllLayers, LocalLayers
  <2>4. CASE pc'[a] = "install"
    <3>1. ProgressFits(a)' /\ SubscriberFits(a)' /\ GuardFits(a)'
      BY <1>0, <2>1, <2>2, <2>4 DEF Fits, ProgressFits, SubscriberFits, GuardFits
    <3>2. MeterFits(a)' /\ LayersFit(a)'
      BY <1>0, <1>b, <2>1, <2>2, <2>3, <2>4 DEF Fits, ProgressFits, MeterFits,
         LayersFit, Steps
    <3> QED
      BY <3>1, <3>2 DEF Fits
  <2>5. CASE pc'[a] = "done"
    BY <1>0, <2>1, <2>2, <2>5 DEF Fits, ProgressFits, SubscriberFits, MeterFits,
       GuardFits, LayersFit, Steps, Errors
  <2> QED
    BY <2>2, <2>4, <2>5
<1> QED
  BY <1>1, <1>2, <1>3, <1>4, <1>5

\* The guard is filled and the tasks are started by the call that has installed
\* its subscriber.
LEMMA InstallFits ==
  ASSUME Inv, NEW a \in Attempts,
         Install(a) \/ FillGuard(a) \/ SpawnMetrics(a) \/ StartServer(a)
  PROVE  Fits(a)'
<1> USE DEF Goto, Return, process, parts, guard, Reached, Before
<1>0. /\ TypeOK /\ Fits(a)
      /\ pc \in [Attempts -> Steps]
      /\ result \in [Attempts -> Errors \cup {"none", "ok", "panicked"}]
      /\ slot \in [Attempts -> Slots \cup {None}]
      /\ record \in [Attempts -> Records \cup {None}]
      /\ a # None
  BY DEF Inv, TypeOK
<1>b. \A b \in Attempts \ {a} : pc'[b] = pc[b]
  BY <1>0, OneCall DEF Proceed
<1>1. CASE Install(a)
  <2>1. /\ pc[a] = "install"
        /\ UNCHANGED <<env, meter, parts, guard, call>>
        /\ \/ pc'[a] = "guard" /\ result' = result /\ subscriber' = a
           \/ /\ pc'[a] = "done" /\ result'[a] = "Subscriber"
              /\ subscriber' = a => MayRefuse("logger") \/ subscriber = a
    BY <1>0, <1>1 DEF Install, InstallError
  <2>a. ProgressFits(a)' /\ SubscriberFits(a)'
    BY <1>0, <2>1 DEF Fits, ProgressFits, SubscriberFits, Errors, MayRefuse
  <2>b. MeterFits(a)'
    BY <1>0, <1>b, <2>1 DEF Fits, ProgressFits, MeterFits, Errors
  <2>c. GuardFits(a)'
    BY <1>0, <2>1 DEF Fits, ProgressFits, GuardFits, Errors
  <2>d. LayersFit(a)'
    BY <1>0, <2>1 DEF Fits, ProgressFits, LayersFit, AllLayers, LocalLayers,
       Steps
  <2> QED
    BY <2>a, <2>b, <2>c, <2>d DEF Fits
<1>2. CASE FillGuard(a)
  <2>1. /\ pc[a] = "guard" /\ pc'[a] = "metrics" /\ slot[a] = None
        /\ UNCHANGED <<process, parts, call, result, tasks>>
        /\ record'[a] = [stdout |-> spec[a], otlp |-> call[a].otlp]
        /\ slot'[a] = IF call[a].late
                      THEN [fromEnv  |-> FromEnv(a),
                            deferred |-> call[a].otlp = None]
                      ELSE None
    BY <1>0, <1>2 DEF FillGuard, Fits, GuardFits
  <2>2. FromEnv(a) \in BOOLEAN
    BY <1>0, <2>1 DEF Fits, ProgressFits, AllCalls, FromEnv
  <2>3. slot'[a] # None <=> call[a].late
    <3>1. [fromEnv |-> FromEnv(a), deferred |-> call[a].otlp = None] \in Slots
      BY <2>2 DEF Slots
    <3> QED
      BY <2>1, <3>1
  <2>a. ProgressFits(a)' /\ SubscriberFits(a)'
    BY <1>0, <2>1, <2>3 DEF Fits, ProgressFits, SubscriberFits, Errors, MayRefuse
  <2>b. MeterFits(a)'
    BY <1>0, <1>b, <2>1, <2>3 DEF Fits, ProgressFits, MeterFits, Errors
  <2>c. GuardFits(a)'
    BY <1>0, <2>1, <2>3 DEF Fits, ProgressFits, GuardFits, Errors
  <2>d. LayersFit(a)'
    BY <1>0, <2>1, <2>3 DEF Fits, ProgressFits, LayersFit, AllLayers, LocalLayers,
       Steps
  <2> QED
    BY <2>a, <2>b, <2>c, <2>d DEF Fits
<1>3. CASE SpawnMetrics(a)
  <2>1. /\ pc[a] = "metrics"
        /\ UNCHANGED <<process, parts, call, record>>
        /\ \/ /\ pc'[a] = "server" /\ UNCHANGED <<result, slot>>
              /\ IF call[a].metrics
                 THEN tasks'[a] = tasks[a] \cup {"metrics"} /\ call[a].runtime # "none"
                 ELSE tasks' = tasks
           \/ pc'[a] = "done" /\ result'[a] = "panicked" /\ slot'[a] = None
    BY <1>0, <1>3 DEF TypeOK, SpawnMetrics, ReleaseGuard, Spawn
  <2>a. ProgressFits(a)' /\ SubscriberFits(a)'
    BY <1>0, <2>1 DEF Fits, ProgressFits, SubscriberFits, Errors, MayRefuse
  <2>b. MeterFits(a)'
    BY <1>0, <1>b, <2>1 DEF Fits, ProgressFits, MeterFits, Errors
  <2>c. GuardFits(a)'
    BY <1>0, <2>1 DEF Fits, ProgressFits, GuardFits, Errors
  <2>d. LayersFit(a)'
    BY <1>0, <2>1 DEF Fits, ProgressFits, LayersFit, AllLayers, LocalLayers,
       Steps
  <2> QED
    BY <2>a, <2>b, <2>c, <2>d DEF Fits
<1>4. CASE StartServer(a)
  <2>1. /\ pc[a] = "server" /\ pc'[a] = "done"
        /\ UNCHANGED <<process, parts, call, record>>
        /\ \/ result'[a] = "ok" /\ UNCHANGED slot
           \/ result'[a] \in {"LogControl", "panicked"} /\ slot'[a] = None
    BY <1>0, <1>4 DEF StartServer, ReleaseGuard, BindError
  <2>a. ProgressFits(a)' /\ SubscriberFits(a)'
    BY <1>0, <2>1 DEF Fits, ProgressFits, SubscriberFits, Errors, MayRefuse
  <2>b. MeterFits(a)'
    BY <1>0, <1>b, <2>1 DEF Fits, ProgressFits, MeterFits, Errors
  <2>c. GuardFits(a)'
    BY <1>0, <2>1 DEF Fits, ProgressFits, GuardFits, Errors
  <2>d. LayersFit(a)'
    BY <1>0, <2>1 DEF Fits, ProgressFits, LayersFit, AllLayers, LocalLayers,
       Steps
  <2> QED
    BY <2>a, <2>b, <2>c, <2>d DEF Fits
<1> QED
  BY <1>1, <1>2, <1>3, <1>4

-----------------------------------------------------------------------------
(* The invariant *)

\* No call has been made.
LEMMA InvInit == Init => Inv
<1> SUFFICES ASSUME Init, NEW a \in Attempts PROVE Fits(a)
  BY TypeInit DEF Inv
<1>1. /\ pc[a] = "new" /\ result[a] = "none" /\ subscriber # a /\ meter # a
      /\ slot[a] = None /\ held[a] = {} /\ tasks[a] = {}
      /\ layers[a] = [l \in Layers |-> None]
  BY DEF Init
<1> QED
  BY <1>1 DEF Fits, ProgressFits, SubscriberFits, MeterFits, GuardFits,
     LayersFit, Reached, Before, Errors

\* What a call has built does not follow the environment.
LEMMA EnvInv ==
  ASSUME Inv, ChangeEnv
  PROVE  Inv'
<1>1. TypeOK'
  BY DEF Inv, TypeOK, ChangeEnv, parts, guard
<1>2. ASSUME NEW a \in Attempts PROVE Fits(a)'
  <2>1. Fits(a) /\ UNCHANGED <<subscriber, meter, pc, call, parts, guard, result>>
    BY DEF Inv, ChangeEnv
  <2> QED
    BY <2>1 DEF Fits, ProgressFits, SubscriberFits, MeterFits, GuardFits,
       LayersFit, AllLayers, LocalLayers, MayRefuse, Reached, parts, guard
<1> QED
  BY <1>1, <1>2 DEF Inv

\* Every step of every call.
LEMMA InvNext ==
  ASSUME Inv, [Next]_vars
  PROVE  Inv'
<1>1. ASSUME NEW a \in Attempts, Call(a) \/ Proceed(a)
      PROVE  Inv'
  <2>1. TypeOK'
    <3>1. TypeOK /\ Fits(a)
      BY DEF Inv
    <3>2. /\ pc[a] # "new" => call[a] \in Calls[a]
          /\ pc[a] \in {"local", "guard"} => spec[a] \in WellFormed
          /\ pc[a] = "guard" => call[a].otlp \in WellFormed \cup {None}
      BY <3>1 DEF Fits, ProgressFits, LayersFit, Reached, Steps
    <3> QED
      BY <1>1, <3>1, <3>2, TypeStep
  <2>2. Fits(a)'
    BY <1>1, EarlyFits, BuildFits, InstallFits DEF Proceed
  <2> QED
    BY <1>1, <2>1, <2>2, OtherFits DEF Inv
<1>2. CASE UNCHANGED vars
  BY <1>2 DEF vars, process, parts, guard, Inv, TypeOK, Fits, ProgressFits,
     SubscriberFits, MeterFits, GuardFits, LayersFit, AllLayers, LocalLayers,
     MayRefuse, Reached
<1> QED
  BY <1>1, <1>2, EnvInv DEF Next, Quiescent

\* Whatever calls are made, in whatever order, and whatever is refused.
THEOREM Invariance == Spec => []Inv
BY InvInit, InvNext, PTL DEF Spec

\* The state of the process and of every call stays within its types.
THEOREM TypeCorrect == Spec => []TypeOK
<1>1. Inv => TypeOK
  BY DEF Inv
<1> QED
  BY <1>1, Invariance, PTL

\* Of the calls racing for the one subscriber only the one that installed it
\* succeeds.
THEOREM InstallerSucceeds == Spec => []OnlyInstallerSucceeds
<1>1. Inv => OnlyInstallerSucceeds
  BY DEF Inv, Fits, SubscriberFits, Reached, OnlyInstallerSucceeds
<1> QED
  BY <1>1, Invariance, PTL

\* An init() that fails leaves nothing to clean up, but for the port.
THEOREM ErrorsMayBeRepeated == Spec => []ErrorMeansNotInstalled
<1>1. Inv => ErrorMeansNotInstalled
  BY DEF Inv, Fits, SubscriberFits, GuardFits, ErrorMeansNotInstalled
<1> QED
  BY <1>1, Invariance, PTL

\* An exporter that cannot be built leaves neither global behind.
THEOREM ExporterErrorsAreClean == Spec => []ExporterErrorLeavesNothing
<1>1. Inv => ExporterErrorLeavesNothing
  BY DEF Inv, Fits, MeterFits, ExporterErrorLeavesNothing
<1> QED
  BY <1>1, Invariance, PTL

\* init() hands over a state FilterControl starts from.
THEOREM HandsOverToFilterControl == Spec => []HandsOver
<1>1. ASSUME Inv, NEW a \in Attempts, result[a] = "ok",
             \A b \in Attempts \ {a} : pc[b] = "new"
      PROVE  Control(a)!Init
  <2>1. /\ call[a] \in AllCalls
        /\ slot[a] # None => slot[a] \in Slots
        /\ slot[a] # None <=> call[a].late
        /\ record[a] = [stdout |-> spec[a], otlp |-> call[a].otlp]
        /\ layers[a] = AllLayers(a)
        /\ call[a].otlp \in WellFormed \cup {None} /\ spec[a] \in WellFormed
        /\ meter = a <=> call[a].otlp # None
    BY <1>1 DEF Inv, TypeOK, Fits, ProgressFits, MeterFits, GuardFits, LayersFit,
       Reached
  <2>2. /\ call[a].journald \in BOOLEAN /\ call[a].late \in BOOLEAN
        /\ call[a].limit \in Limits \cup {Unlimited}
    BY <2>1 DEF AllCalls
  <2> DEFINE setup == [journald |-> call[a].journald,
                       otlp     |-> call[a].otlp # None,
                       late     |-> slot[a] # None,
                       fromEnv  |-> slot[a] # None /\ slot[a].fromEnv]
  <2>3. setup \in [journald : BOOLEAN, otlp : BOOLEAN, late : BOOLEAN,
                   fromEnv : BOOLEAN]
    BY <2>1, <2>2 DEF Slots
  <2>4. \E f, g \in WellFormed :
          /\ layers[a] = [l \in Control(a)!Layers |->
               IF l = "fmt" THEN f
               ELSE IF l = "journald" THEN IF setup.journald THEN f ELSE None
               ELSE IF setup.otlp THEN g
               ELSE IF setup.late THEN Off ELSE None]
          /\ record[a] = [stdout |-> f, otlp |-> IF setup.otlp THEN g ELSE None]
    <3> DEFINE f == spec[a]
               g == IF call[a].otlp = None THEN Off ELSE call[a].otlp
    <3>1. f \in WellFormed /\ g \in WellFormed
      BY <2>1
    <3>2. layers[a] = [l \in Control(a)!Layers |->
               IF l = "fmt" THEN f
               ELSE IF l = "journald" THEN IF setup.journald THEN f ELSE None
               ELSE IF setup.otlp THEN g
               ELSE IF setup.late THEN Off ELSE None]
      BY <2>1 DEF AllLayers, LocalLayers, Layers, Control!Layers
    <3>3. record[a] = [stdout |-> f, otlp |-> IF setup.otlp THEN g ELSE None]
      BY <2>1
    <3> QED
      BY <3>1, <3>2, <3>3
  <2>5. /\ [d \in {"stdout", "otlp"} |-> None]
             = [d \in Control(a)!Domains |-> None]
        /\ [actor \in {"late"} |-> "new"] = [b \in Control(a)!Actors |-> "new"]
        /\ [actor \in {"late"} |-> None] = [b \in Control(a)!Actors |-> None]
        /\ [r \in {} |-> None] = [r \in {} |-> Control(a)!Blank]
    BY DEF Control!Domains, Control!Actors
  <2>6. (IF meter = a THEN Signals ELSE {})
          = (IF setup.otlp THEN Control(a)!Signals ELSE {})
    BY <2>1 DEF Signals, Control!Signals
  <2>7. RateLimitOf(a) \in IF setup.otlp THEN Limits \cup {Unlimited}
                           ELSE {Unlimited}
    BY <2>2 DEF RateLimitOf
  <2> QED
    BY <2>3, <2>4, <2>5, <2>6, <2>7 DEF Control!Init
<1>2. Inv => HandsOver
  BY <1>1 DEF HandsOver
<1> QED
  BY <1>2, Invariance, PTL

-----------------------------------------------------------------------------
(* init() and the guard *)

\* Until the guard is filled a call changes nothing GuardLifecycle sees.
LEMMA GuardSeesNothing ==
  ASSUME NEW a \in Attempts, pc[a] \notin {"metrics", "server", "done"},
         pc'[a] \notin {"metrics", "server", "done"},
         UNCHANGED <<call, slot[a], held[a], tasks[a], result[a]>>
  PROVE  UNCHANGED Guard(a)!vars
<1>1. ownerBar(a) = "install" /\ ownerBar(a)' = "install"
  BY DEF ownerBar
<1>2. UNCHANGED <<setupBar(a), slotBar(a), held[a], taskBar(a)>>
  BY DEF setupBar, slotBar, taskBar
<1>3. UNCHANGED <<liveBar(a), meterBar(a)>>
  BY <1>1 DEF liveBar, meterBar
<1>4. Dropped(a)' = Dropped(a)
  BY DEF Dropped
<1>5. UNCHANGED <<handlesBar(a), abortedBar(a), skippedBar(a)>>
  BY <1>4 DEF handlesBar, abortedBar, skippedBar
<1> QED
  BY <1>1, <1>2, <1>3, <1>4, <1>5
  DEF Guard!vars, Guard!guard, Guard!call, Guard!tasks

\* An error before the guard is filled is a failed installation: what is left
\* is the meter provider of an OTLP configuration, and all its pipelines once
\* the subscriber is global.
LEMMA GuardSeesFailure ==
  ASSUME NEW a \in Attempts, pc[a] \notin {"metrics", "server", "done"},
         pc'[a] = "done", result'[a] \in Errors \ {"LogControl"},
         result[a] = "none",
         UNCHANGED <<call, slot[a], held[a], tasks[a]>>,
         meter' = a => call[a].otlp # None
  PROVE  Guard(a)!InstallFails
<1>1. ownerBar(a) = "install" /\ ownerBar(a)' = "initFailed"
  BY DEF ownerBar, Dropped, Errors
<1>2. /\ Dropped(a) = FALSE /\ Dropped(a)' = FALSE
      /\ skippedBar(a) = FALSE /\ skippedBar(a)' = FALSE
      /\ abortedBar(a) = {} /\ abortedBar(a)' = {}
  BY DEF Dropped, Errors, skippedBar, abortedBar
<1>3. handlesBar(a)' = handlesBar(a)
  BY <1>2 DEF handlesBar
<1>4. /\ liveBar(a) = {}
      /\ liveBar(a)' = IF meter' # a THEN {}
                       ELSE IF subscriber' # a THEN {"metrics"} ELSE Signals
      /\ meterBar(a) = "noop"
      /\ meterBar(a)' = IF meter' = a THEN "init" ELSE "noop"
  BY <1>1 DEF liveBar, meterBar
<1>5. setupBar(a)' = setupBar(a) /\ taskBar(a)' = taskBar(a)
  BY DEF setupBar, taskBar
<1>6. slotBar(a)' = slotBar(a) /\ held'[a] = held[a]
  BY DEF slotBar
<1>7. \/ liveBar(a)' = liveBar(a) /\ meterBar(a)' = meterBar(a)
      \/ /\ setupBar(a).otlp
         /\ liveBar(a)' \in {{"metrics"}, Signals}
         /\ meterBar(a)' = "init"
  BY <1>4 DEF setupBar
<1> QED
  BY <1>1, <1>2, <1>3, <1>5, <1>6, <1>7
  DEF Guard!InstallFails, Guard!Signals, Signals, Guard!guard, Guard!call,
      Guard!tasks
\* Filling the guard is the installation as GuardLifecycle has it.
LEMMA GuardSeesInstall ==
  ASSUME Inv, NEW a \in Attempts, FillGuard(a),
         \A b \in Attempts \ {a} : pc[b] = "new"
  PROVE  Guard(a)!Install
<1>1. /\ pc[a] = "guard" /\ pc'[a] = "metrics" /\ UNCHANGED <<call, tasks, meter>>
      /\ result[a] = "none" /\ result' = result
      /\ slot[a] = None
      /\ meter = a <=> call[a].otlp # None
      /\ held'[a] = Providers(a)
  BY DEF Inv, TypeOK, FillGuard, Goto, Fits, ProgressFits, MeterFits, GuardFits,
     Reached, Before, process
<1>2. slot'[a] # None <=> call[a].late
  BY <1>1, InstallFits DEF Fits, GuardFits, Reached
<1>3. ownerBar(a) = "install" /\ ownerBar(a)' = "spawnMetrics"
  BY <1>1 DEF ownerBar
<1>4. /\ Dropped(a) = FALSE /\ Dropped(a)' = FALSE
      /\ skippedBar(a) = FALSE /\ skippedBar(a)' = FALSE
      /\ abortedBar(a) = {} /\ abortedBar(a)' = {}
  BY <1>1 DEF Dropped, skippedBar, abortedBar
<1>5. handlesBar(a)' = handlesBar(a)
  BY <1>1, <1>4 DEF handlesBar
<1>6. setupBar(a)' = setupBar(a) /\ taskBar(a)' = taskBar(a)
  BY <1>1 DEF setupBar, taskBar
<1>7. /\ setupBar(a).otlp <=> call[a].otlp # None
      /\ setupBar(a).late = call[a].late
  BY DEF setupBar
<1>8. /\ liveBar(a)' = IF setupBar(a).otlp THEN Signals ELSE {}
      /\ meterBar(a) = "noop"
      /\ meterBar(a)' = IF setupBar(a).otlp THEN "init" ELSE "noop"
  BY <1>1, <1>3, <1>7 DEF liveBar, meterBar
<1>9. held'[a] = IF setupBar(a).otlp THEN Signals
                 ELSE IF setupBar(a).late THEN {"logs", "spans"} ELSE {}
  BY <1>1, <1>7 DEF Providers
<1>10. slotBar(a)' = setupBar(a).late
  <2>1. call[a].late \in BOOLEAN
    BY <1>1 DEF Inv, Fits, ProgressFits, AllCalls
  <2>2. slotBar(a)' <=> call[a].late
    BY <1>2 DEF slotBar
  <2> QED
    BY <1>7, <2>1, <2>2 DEF slotBar
<1> QED
  BY <1>3, <1>4, <1>5, <1>6, <1>8, <1>9, <1>10
  DEF Guard!Install, Guard!Signals, Signals, Guard!call, Guard!tasks
\* Past the installation the pipelines stay what they are.
LEMMA GuardKeepsPipelines ==
  ASSUME NEW a \in Attempts, UNCHANGED <<call, meter>>,
         ownerBar(a) \notin {"install", "initFailed"},
         ownerBar(a)' \notin {"install", "initFailed"}
  PROVE  UNCHANGED <<setupBar(a), liveBar(a), meterBar(a)>>
BY DEF setupBar, liveBar, meterBar

\* Where a call past the installation is, as GuardLifecycle sees it.
LEMMA GuardSeesTasks ==
  ASSUME Inv, NEW a \in Attempts, pc[a] \in {"metrics", "server"}
  PROVE  /\ result[a] = "none" /\ Dropped(a) = FALSE
         /\ ownerBar(a) = IF pc[a] = "metrics" THEN "spawnMetrics"
                          ELSE "spawnServer"
         /\ skippedBar(a) = FALSE /\ abortedBar(a) = {}
         /\ \/ tasks[a] = {} /\ handlesBar(a) = <<>>
            \/ tasks[a] = {"metrics"} /\ handlesBar(a) = <<"metrics">>
         /\ call[a].runtime \in Runtimes
         /\ pc[a] = "metrics" => tasks[a] = {}
         /\ pc[a] = "server" /\ call[a].metrics => call[a].runtime # "none"
<1>1. /\ result[a] = "none" /\ call[a] \in AllCalls
      /\ pc[a] = "metrics" => tasks[a] = {}
      /\ tasks[a] \in {{}, {"metrics"}}
      /\ pc[a] = "server" /\ call[a].metrics => call[a].runtime # "none"
  BY DEF Inv, Fits, ProgressFits, GuardFits
<1>2. Dropped(a) = FALSE
  BY <1>1 DEF Dropped
<1>3. call[a].runtime \in Runtimes
  BY <1>1 DEF AllCalls
<1>4. CASE tasks[a] = {}
  <2>1. handlesBar(a) = <<>>
    BY <1>2, <1>4 DEF handlesBar
  <2> QED
    BY <1>1, <1>2, <1>3, <1>4, <2>1 DEF ownerBar, skippedBar, abortedBar
<1>5. CASE tasks[a] = {"metrics"}
  <2>1. handlesBar(a) = <<"metrics">>
    BY <1>2, <1>5 DEF handlesBar
  <2> QED
    BY <1>1, <1>2, <1>3, <1>5, <2>1 DEF ownerBar, skippedBar, abortedBar
<1> QED
  BY <1>1, <1>4, <1>5

\* A call that fails once the guard is filled drops it.
LEMMA GuardSeesDrop ==
  ASSUME Inv, NEW a \in Attempts, pc[a] \in {"metrics", "server"},
         NEW r \in {"LogControl", "panicked"}, Return(a, r),
         UNCHANGED <<call, meter, tasks>>, ReleaseGuard(a)
  PROVE  Guard(a)!Drop(call[a].runtime)
<1>1. pc'[a] = "done" /\ result'[a] = r
  BY DEF Inv, TypeOK, Return
<1>2. /\ slot'[a] = None
      /\ held'[a] = IF call[a].runtime = "current" THEN {} ELSE held[a]
  BY DEF Inv, TypeOK, ReleaseGuard
<1>3. /\ Dropped(a)' = TRUE /\ abortedBar(a)' = tasks[a]
      /\ skippedBar(a)' = (call[a].runtime = "current")
      /\ handlesBar(a)' = <<>> /\ slotBar(a)' = FALSE
  BY <1>1, <1>2 DEF Dropped, abortedBar, skippedBar, handlesBar, slotBar
<1>4. ownerBar(a)' = IF call[a].runtime = "current" THEN "dropped"
                     ELSE "dropFlushing"
  BY <1>1, <1>3 DEF ownerBar
<1>5. UNCHANGED <<setupBar(a), liveBar(a), meterBar(a)>>
  BY <1>4, GuardSeesTasks, GuardKeepsPipelines
<1>6. UNCHANGED taskBar(a)
  BY DEF taskBar
<1>7. {t \in Guard(a)!Tasks : Guard(a)!Active(t) /\
         \E i \in DOMAIN handlesBar(a) : handlesBar(a)[i] = t} = tasks[a]
  <2>1. \A t \in Guard(a)!Tasks : Guard(a)!Active(t) <=> t \in tasks[a]
    BY DEF Guard!Tasks, Guard!Active, taskBar, Tasks
  <2>2. CASE tasks[a] = {}
    BY <2>1, <2>2
  <2>3. CASE tasks[a] = {"metrics"} /\ handlesBar(a) = <<"metrics">>
    BY <2>1, <2>3 DEF Guard!Tasks
  <2> QED
    BY <2>2, <2>3, GuardSeesTasks
<1>8. Guard(a)!AbortUnfinished
  BY <1>3, <1>7, GuardSeesTasks DEF Guard!AbortUnfinished
<1>9. skippedBar(a) = FALSE
  BY GuardSeesTasks
<1> QED
  BY <1>2, <1>3, <1>4, <1>5, <1>6, <1>8, <1>9
  DEF Guard!Drop, Guard!call, Guard!tasks
\* Spawning a task, or passing it by, past the installation.
LEMMA GuardSeesSpawn ==
  ASSUME Inv, NEW a \in Attempts, pc[a] \in {"metrics", "server"},
         Goto(a, "server") \/ Return(a, "ok"),
         UNCHANGED <<call, meter, slot, held>>
  PROVE  /\ Dropped(a)' = FALSE
         /\ ownerBar(a)' = IF pc'[a] = "server" THEN "spawnServer" ELSE "owned"
         /\ UNCHANGED <<setupBar(a), slotBar(a), held[a], liveBar(a),
                        meterBar(a), abortedBar(a), skippedBar(a)>>
<1>1. \/ pc'[a] = "server" /\ result'[a] = result[a]
      \/ pc'[a] = "done" /\ result'[a] = "ok"
  BY DEF Inv, TypeOK, Goto, Return
<1>2. Dropped(a)' = FALSE
  <2>1. result'[a] = "none" \/ result'[a] = "ok"
    BY <1>1, GuardSeesTasks
  <2> QED
    BY <2>1 DEF Dropped
<1>3. ownerBar(a)' = IF pc'[a] = "server" THEN "spawnServer" ELSE "owned"
  BY <1>1 DEF ownerBar
<1>4. UNCHANGED <<setupBar(a), liveBar(a), meterBar(a)>>
  BY <1>3, GuardSeesTasks, GuardKeepsPipelines
<1>5. abortedBar(a)' = {} /\ skippedBar(a)' = FALSE /\ slotBar(a)' = slotBar(a)
  BY <1>2 DEF abortedBar, skippedBar, slotBar
<1> QED
  BY <1>2, <1>3, <1>4, <1>5, GuardSeesTasks

\* The metrics task.
LEMMA GuardSeesMetrics ==
  ASSUME Inv, NEW a \in Attempts, SpawnMetrics(a)
  PROVE  Guard(a)!SpawnMetrics \/ Guard(a)!SpawnPanics
<1>1. pc[a] = "metrics" /\ UNCHANGED <<call, meter>>
  BY DEF SpawnMetrics, process
<1>2. /\ Dropped(a) = FALSE /\ ownerBar(a) = "spawnMetrics"
      /\ tasks[a] = {} /\ handlesBar(a) = <<>>
  BY <1>1, GuardSeesTasks
<1>3. call[a].metrics \in BOOLEAN /\ setupBar(a).metrics = call[a].metrics
  BY <1>1 DEF Inv, Fits, ProgressFits, AllCalls, setupBar
<1>4. CASE ~call[a].metrics
  <2>1. Goto(a, "server") /\ UNCHANGED <<slot, held, tasks>>
    BY <1>4 DEF SpawnMetrics
  <2>2. pc'[a] = "server"
    BY <2>1, <1>1 DEF Inv, TypeOK, Goto, Steps
  <2>3. UNCHANGED <<taskBar(a), handlesBar(a)>>
    BY <2>1, <1>1, <1>2, GuardSeesSpawn DEF taskBar, handlesBar
  <2> QED
    BY <1>1, <1>2, <1>3, <1>4, <2>1, <2>2, <2>3, GuardSeesSpawn
    DEF Guard!SpawnMetrics, Guard!Wanted, Guard!call
<1>5. CASE call[a].metrics /\ call[a].runtime = "none"
  <2>1. Return(a, "panicked") /\ ReleaseGuard(a) /\ UNCHANGED tasks
    BY <1>5 DEF SpawnMetrics
  <2>2. Guard(a)!Drop("none")
    BY <1>1, <1>5, <2>1, GuardSeesDrop
  <2> QED
    BY <1>2, <1>3, <1>5, <2>2 DEF Guard!SpawnPanics, Guard!Wanted
<1>6. CASE call[a].metrics /\ call[a].runtime # "none"
  <2>1. Goto(a, "server") /\ Spawn(a, "metrics") /\ UNCHANGED <<slot, held>>
    BY <1>6 DEF SpawnMetrics
  <2>2. pc'[a] = "server" /\ tasks'[a] = {"metrics"}
    BY <2>1, <1>1, <1>2 DEF Inv, TypeOK, Goto, Steps, Spawn
  <2>3. Dropped(a)' = FALSE
    BY <2>1, <1>1, GuardSeesSpawn
  <2>4. handlesBar(a)' = Append(handlesBar(a), "metrics")
    <3>1. handlesBar(a)' = <<"metrics">>
      BY <2>2, <2>3 DEF handlesBar
    <3> QED
      BY <3>1, <1>2
  <2>5. taskBar(a)' = [taskBar(a) EXCEPT !["metrics"] = "spawned"]
    BY <2>2, <1>2 DEF taskBar, Tasks
  <2> QED
    BY <1>1, <1>2, <1>3, <1>6, <2>1, <2>2, <2>4, <2>5, GuardSeesSpawn
    DEF Guard!SpawnMetrics, Guard!Wanted, Guard!Spawn, Guard!call
<1> QED
  BY <1>3, <1>4, <1>5, <1>6

\* The log-control server.
LEMMA GuardSeesServer ==
  ASSUME Inv, NEW a \in Attempts, StartServer(a)
  PROVE  Guard(a)!SpawnServer \/ Guard(a)!BindFails \/ Guard(a)!SpawnPanics
<1>1. pc[a] = "server" /\ UNCHANGED <<call, meter>>
  BY DEF StartServer, process
<1>2. /\ Dropped(a) = FALSE /\ ownerBar(a) = "spawnServer"
      /\ \/ tasks[a] = {} /\ handlesBar(a) = <<>>
         \/ tasks[a] = {"metrics"} /\ handlesBar(a) = <<"metrics">>
      /\ call[a].runtime \in Guard(a)!Runtimes
      /\ call[a].metrics => call[a].runtime # "none"
  BY <1>1, GuardSeesTasks DEF Runtimes, Guard!Runtimes
<1>3. /\ call[a].server \in BOOLEAN /\ setupBar(a).server = call[a].server
      /\ setupBar(a).metrics = call[a].metrics
  BY <1>1 DEF Inv, Fits, ProgressFits, AllCalls, setupBar
<1>4. CASE ~call[a].server
  <2>1. Return(a, "ok") /\ UNCHANGED <<slot, held, tasks>>
    BY <1>4 DEF StartServer
  <2>2. pc'[a] = "done"
    BY <2>1, <1>1 DEF Inv, TypeOK, Return, Steps
  <2>3. UNCHANGED <<taskBar(a), handlesBar(a)>>
    BY <2>1, <1>1, <1>2, GuardSeesSpawn DEF taskBar, handlesBar
  <2> QED
    BY <1>1, <1>2, <1>3, <1>4, <2>1, <2>2, <2>3, GuardSeesSpawn
    DEF Guard!SpawnServer, Guard!Wanted, Guard!call
<1>5. CASE /\ call[a].server
           /\ Return(a, BindError) /\ ReleaseGuard(a) /\ UNCHANGED tasks
  <2>1. Guard(a)!Drop(call[a].runtime)
    BY <1>1, <1>5, GuardSeesDrop DEF BindError
  <2> QED
    BY <1>2, <1>3, <1>5, <2>1 DEF Guard!BindFails, Guard!Wanted
<1>6. CASE /\ call[a].server /\ call[a].runtime = "none"
           /\ Return(a, "panicked") /\ ReleaseGuard(a) /\ UNCHANGED tasks
  <2>1. Guard(a)!Drop("none")
    BY <1>1, <1>6, GuardSeesDrop
  <2> QED
    BY <1>2, <1>3, <1>6, <2>1 DEF Guard!SpawnPanics, Guard!Wanted
<1>7. CASE /\ call[a].server /\ Return(a, "ok")
           /\ Spawn(a, "server") /\ UNCHANGED <<slot, held>>
  <2>1. pc'[a] = "done" /\ tasks'[a] = tasks[a] \cup {"server"}
    BY <1>1, <1>7 DEF Inv, TypeOK, Return, Steps, Spawn
  <2>2. Dropped(a)' = FALSE
    BY <1>1, <1>7, GuardSeesSpawn
  <2>3. handlesBar(a)' = Append(handlesBar(a), "server")
    <3>1. CASE tasks[a] = {} /\ handlesBar(a) = <<>>
      <4>1. handlesBar(a)' = <<"server">>
        BY <2>1, <2>2, <3>1 DEF handlesBar
      <4> QED
        BY <3>1, <4>1
    <3>2. CASE tasks[a] = {"metrics"} /\ handlesBar(a) = <<"metrics">>
      <4>1. "metrics" \in tasks'[a] /\ "server" \in tasks'[a]
        BY <2>1, <3>2
      <4>2. handlesBar(a)' = <<"metrics">> \o <<"server">>
        BY <2>2, <4>1 DEF handlesBar
      <4>3. <<"metrics">> \o <<"server">> = Append(<<"metrics">>, "server")
        OBVIOUS
      <4> QED
        BY <3>2, <4>2, <4>3
    <3> QED
      BY <1>2, <3>1, <3>2
  <2>4. taskBar(a)' = [taskBar(a) EXCEPT !["server"] = "spawned"]
    BY <2>1 DEF taskBar, Tasks
  <2> QED
    BY <1>1, <1>2, <1>3, <1>7, <2>1, <2>3, <2>4, GuardSeesSpawn
    DEF Guard!SpawnServer, Guard!Wanted, Guard!Spawn, Guard!call
<1> QED
  BY <1>3, <1>4, <1>5, <1>6, <1>7 DEF StartServer
\* The steps up to the guard are hidden from it, or fail the installation.
LEMMA GuardSeesEarlySteps ==
  ASSUME Inv, NEW a \in Attempts,
         \/ CheckFeatures(a) \/ Resolve(a) \/ BuildLocalLayers(a)
         \/ SkipExporters(a) \/ BuildExporters(a) \/ BuildMeter(a)
         \/ BuildOtlpLayers(a) \/ Install(a)
  PROVE  Guard(a)!InstallFails \/ UNCHANGED Guard(a)!vars
<1>1. /\ pc[a] \notin {"metrics", "server", "done"}
      /\ UNCHANGED <<call, slot, held, tasks>>
  BY DEF CheckFeatures, Resolve, BuildLocalLayers, SkipExporters,
     BuildExporters, BuildMeter, BuildOtlpLayers, Install, InstallError, process,
     parts, guard
<1>2. \/ \E l \in Steps \ {"metrics", "server", "done"} : Goto(a, l)
      \/ \E r \in Errors \ {"LogControl"} : Return(a, r)
  <2> USE DEF Steps, Errors
  <2>1. CASE CheckFeatures(a) \/ Resolve(a) \/ BuildLocalLayers(a)
    BY <2>1 DEF CheckFeatures, Resolve, BuildLocalLayers
  <2>2. CASE SkipExporters(a) \/ BuildExporters(a) \/ BuildMeter(a)
    BY <2>2 DEF SkipExporters, BuildExporters, BuildMeter
  <2>3. CASE BuildOtlpLayers(a) \/ Install(a)
    BY <2>3 DEF BuildOtlpLayers, Install, InstallError
  <2> QED
    BY <2>1, <2>2, <2>3
<1>3. CASE \E l \in Steps \ {"metrics", "server", "done"} : Goto(a, l)
  <2>1. pc'[a] \notin {"metrics", "server", "done"} /\ result'[a] = result[a]
    BY <1>3 DEF Inv, TypeOK, Goto
  <2> QED
    BY <1>1, <2>1, GuardSeesNothing
<1>4. CASE \E r \in Errors \ {"LogControl"} : Return(a, r)
  <2>1. pc'[a] = "done" /\ result'[a] \in Errors \ {"LogControl"}
    BY <1>4 DEF Inv, TypeOK, Return
  <2>2. result[a] = "none"
    BY <1>1 DEF Inv, Fits, ProgressFits
  <2>3. meter' = a => call[a].otlp # None
    <3>1. CASE BuildMeter(a)
      BY <3>1 DEF Inv, Fits, MeterFits, BuildMeter
    <3>2. CASE pc[a] \in Before("meter")
      <4>1. pc[a] # "meter" => meter' = meter
        BY DEF CheckFeatures, Resolve, BuildLocalLayers, SkipExporters,
           BuildExporters, BuildMeter, BuildOtlpLayers, Install, InstallError,
           process
      <4>2. pc[a] = "meter" => BuildMeter(a)
        BY DEF CheckFeatures, Resolve, BuildLocalLayers, SkipExporters,
           BuildExporters, BuildMeter, BuildOtlpLayers, Install, InstallError
      <4> QED
        BY <3>1, <3>2, <4>1, <4>2 DEF Inv, Fits, MeterFits
    <3>3. CASE BuildOtlpLayers(a) \/ Install(a)
      BY <3>3 DEF Inv, Fits, MeterFits, BuildOtlpLayers, Install, Reached, process
    <3> QED
      BY <3>1, <3>2, <3>3 DEF CheckFeatures, Resolve, BuildLocalLayers,
         SkipExporters, BuildExporters, Before
  <2> QED
    BY <1>1, <2>1, <2>2, <2>3, GuardSeesFailure
<1> QED
  BY <1>2, <1>3, <1>4

\* Whatever fails, the guard of the first call gets the providers, tasks and
\* late slot, and leaves the pipelines, that its teardown is checked with.
THEOREM GuardInitImplemented == Spec => ImplementsGuardInit
<1>1. ASSUME Inv, NEW a \in Attempts, Proceed(a),
             \A b \in Attempts \ {a} : pc[b] = "new"
      PROVE  Guard(a)!InitStep \/ UNCHANGED Guard(a)!vars
  BY <1>1, GuardSeesEarlySteps, GuardSeesInstall, GuardSeesMetrics,
     GuardSeesServer DEF Proceed, Guard!InitStep
<1>2. Inv /\ [Next]_vars =>
        [\A a \in Attempts :
           Proceed(a) /\ (\A b \in Attempts \ {a} : pc[b] = "new")
             => Guard(a)!InitStep \/ UNCHANGED Guard(a)!vars]_vars
  BY <1>1
<1> QED
  BY <1>2, Invariance, PTL DEF Spec, ImplementsGuardInit
=============================================================================
