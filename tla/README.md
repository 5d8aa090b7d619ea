# A TLA+ development for telemetry-setup

telemetry-setup is a Rust library that installs one `tracing` subscriber for a
service (stdout, journald, OTLP), runs a small HTTP server that changes the
filters at run time, accepts one configuration after `init()`, and takes it all
down again. This directory holds TLA+ models of it, the TLC configurations that
check them on small instances, and TLAPS proofs about them. `PROJECT.json` lists
the components, runs, properties, theorems and the source lines of every
definition. Source paths below are relative to `src/src/`.

Contents: [the system](#the-system) · [modules](#modules-and-the-code) ·
[runs](#runs) · [fairness](#fairness) · [proofs](#proofs) ·
[findings](#findings) · [limits of the models](#what-the-models-leave-out) ·
[plan](#plan)

## The system

| Component | Files | State | Operations |
|---|---|---|---|
| Filter domains | `reload.rs`, `builder/layers.rs` | one reloadable filter per layer; per domain the recorded expression behind a mutex | `reload_shared`, combined callbacks (`fmt` then `journald`, `trace` then `log`) |
| Log-control router | `log_control/router.rs`, `reload.rs` | shares the records and callbacks | `GET /filters`, `PUT /filters/stdout`, `PUT /filters/otlp` |
| Late configuration | `late.rs` | `LateSlot`, taken once | `validate`, `LateSlot::apply` |
| Deferred OTLP export | `otlp/deferred.rs` | processor slots (filled once), deferred filters, log rate limit | `attach` |
| Telemetry guard | `guard.rs` | providers, late slot, cancellation token, task handles, `shutdown_completed` | `apply_late_configuration`, `shutdown`, `Drop` |
| Tokio metrics task | `tokio_metrics.rs` | its meter, taken at the first poll | sample, wait for the interval or the token |
| Log-control server | `log_control/server.rs` | listener, connections | bind, serve, graceful shutdown |
| OTLP log rate limit | `otlp/rate_limit.rs` | five atomics shared by all logging threads | `allow`, `set_limit`, the warning thread |
| Builder, init | `builder/` | builder choices; process-wide: the subscriber, the environment | `init()`: filter, layers, providers, subscriber, guard, metrics task, server |
| OTLP providers | `otlp/providers.rs` | the process-wide meter provider | build exporters and providers |
| OTLP endpoint, headers, configuration | `otlp/endpoint.rs`, `otlp/config.rs` | the configuration in memory and as text | endpoint of a signal, merged headers, save and load |
| Errors | `error.rs` | none | wrapping and display |

How they interact. `init()` builds the layers, keeps the callbacks that reload
them, and hands clones of callbacks and records to the router and to the late
slot; the guard owns the slot, the providers and the task handles. From then on
three kinds of actor run beside each other: the application (one at a time,
since every method of the guard takes `&mut self`), the request handlers and
background tasks on the Tokio runtime, and every thread that logs.

What is hard about it, and what makes each part correct:

- **Filter domains, router, late configuration, attach.** Changing a filter is
  several steps (lock, first layer, second layer, record, unlock), done by
  concurrent handlers and by the late configuration, and each reload can fail.
  Correct means: the recorded expression is the installed one; the two layers of a
  domain agree; an update is atomic to an observer; a response reports
  expressions that were active; a filter marked as the environment's choice is kept; an attach
  opens the OTLP filters only when everything behind them is ready, and a
  failed one starts nothing; no handler waits for ever.
- **Guard, tasks, server.** `shutdown()` is a future with await points that the
  application may drop; tasks may panic; a server waits for its clients; drop
  works differently on each runtime. Correct means: `Ok(())` says that all is
  down; an error of one task does not stop the teardown; no exporting pipeline
  is out of the guard's reach; nothing starts after a shutdown; no sample is
  recorded to a provider already shut down; shutdown returns and tasks end.
- **Rate limit.** `allow()` is a sequence of independent atomic operations run
  by any number of threads. Correct means: the counter grants its budget
  exactly, a bounded number of resets per second, at most one warning thread,
  and warnings that are not lost.

- **Init.** Nine steps that can fail, two process-wide resources that can be
  taken once or overwritten, an environment read twice. Correct means: only the
  call that installed the subscriber succeeds; an error leaves nothing that
  cannot be undone, with the exceptions the model names; the guard and filter
  control start from what was installed.
- **OTLP requests and configuration.** Text that is parsed one way and extended
  another; names compared in two ways; a number checked on one side of a
  conversion. Correct means: each signal is posted to its own path, with the
  headers configured for it; what is saved can be loaded, if its interval is one
  the documentation allows.
- **The parts together.** A request may be under way while the application applies
  a late configuration, shuts down or drops the guard, and threads log through
  a layer that is being attached to.

The list of hazards, each at its line and with the properties that would catch it
going wrong, is in `PROJECT.json`.

## Modules and the code

### `FilterDomains`: what filter control promises

Two domains, each with one active expression. A request reads them one at a time,
or replaces one in a single step and then reads the other. The response reports
what was active at those instants; a refused request changes nothing; the late
configuration replaces the stdout expression unless the environment chose it,
and starts the OTLP domain. There are no locks, layers or callbacks in it.

### `FilterControl`: how the code does it

One step per lock operation or layer reload.

| Action | Code |
|---|---|
| `Send` | a client's request reaches its handler (any of GET, PUT stdout, PUT otlp, with any expression) |
| `Acquire`, `NotFound` | `shared.lock()` in `reload_shared` and in the OTLP handler; the handler answers 404 when the record is `None` |
| `ReloadFirst`, `ReloadSecond` | the combined callback: parse, then `Handle::reload` of one layer; failure releases the lock and leaves the record |
| `Record` | the record is written and the guard dropped |
| `ReadStdout`, `ReadOtlp` | `clone_mutex_value`, `current_otlp_filter`, in the order the handlers evaluate the fields of the response |
| `Apply` | `apply_late_configuration` up to the first lock: availability, "already configured", precedence of the environment |
| `BuildExporters`, `BuildMeter`, `Connect` | the three parts of `attach()` before the OTLP filters are reloaded |

`installed` is the filter of each layer, `record` the mutex-protected
expression, `lock` its holder, `pc`/`job` the position and errand of every actor.
Expressions are model values, split into those that parse and those that do not;
`Off` is the deferred filter. `Breakable` names the layers whose reload handle may
fail although the expression parses (`reload::Handle` reports an error when its
layer is gone), which the code handles.

**The refinement.** `ImplementsDomains` is `Promise!Spec`, where `Promise` is
`FilterDomains` under this mapping: a domain's active expression is the filter of
the *last* layer its callback reloads (`activeBar`), so the update happens at
that reload and not at the record; the response of a writer is committed from then
on (`answerBar`); the OTLP domain exists from the late configuration's last
reload. Everything between is a stutter.

### `GuardLifecycle`

| Action | Code |
|---|---|
| `Install`, `InstallFails`, `SpawnMetrics`, `SpawnServer`, `BindFails`, `SpawnPanics` | `TelemetryBuilder::init` as far as the guard sees it (`InitSequence` has every step); a bind failure, or a panic outside a runtime, drops a guard that already holds providers |
| `ApplyLate` | `TelemetryGuard::apply_late_configuration`: the slot is taken, the meter provider stored; what happens inside is `FilterControl` |
| `Shutdown`, `Await`, `Park`, `Wake`, `BeginFlush`, `FlushProvider`, `EndShutdown` | `shutdown()`: first poll, one join result at a time, pending, providers in the order logger, meter, tracer |
| `ShutdownAgain` | the early `Ok(())` once `shutdown_completed` is set |
| `Abandon` | the application drops the pending future |
| `DropGuard`, `EndDrop` | `Drop`, outside a runtime, on a multi-thread and on a current-thread one |
| `FirstPoll`, `RecordSample`, `Stop`, `Panic`, `EndAborted` | the two background tasks |
| `Drain` | the server notices the cancelled token and accepts no more; until then a connection may still be opened, `axum`'s graceful shutdown waits for it |
| `OpenConnection`, `CloseConnection` | clients of the server |

`InstallFails` has the three ways in which `install_subscriber` fails: before any
provider exists; after all three do, when the tracer and logger providers die with
the layers and the meter provider stays global; and at the `log` crate, after
`try_init` has made the subscriber global, when all three pipelines go on exporting
and nobody holds them.

`live` is the set of signals whose pipeline exports and has not been shut down,
`held` the providers the guard still has. `lost`, `skipped`, `abandoned`,
`again` and `result` are history for the properties.

### `RateLimit`

`allow()` with one atomic operation per step, between any two of which any
other thread may run: `Enter` (load the limit), `ReadClock`, `ReadWindow`,
`MoveWindow` (`compare_exchange`), `ResetSeen`, `ResetWarned`, `Count`
(`fetch_add`), `Warn`, `Claim`, `Spawn`; `HelperLogs` and `HelperEnds` are the
warning thread, `SetLimit` the late configuration, `Tick` the clock.
`granted`, `spent`, `warnings` and `rolls` are history.

### `InitSequence`

`TelemetryBuilder::init()`, one step of a call per action, any number of calls
beside each other: `CheckFeatures`, `Resolve` (the first read of the
environment), `BuildLocalLayers`, `SkipExporters` or `BuildExporters` and
`BuildMeter` (which sets the global meter provider), `BuildOtlpLayers`,
`Install` (`try_init`), `FillGuard` (the second read), `SpawnMetrics`,
`StartServer`. A step fails when an expression does not parse, a feature is not
compiled in, or the outside refuses (`Refusals`: journald, an exporter, the port,
the `log` crate); outside a Tokio runtime the spawning steps panic.
`subscriber` and `meter` say whose subscriber and meter provider are the global
ones. The variable may change at any time (`ChangeEnv`), between the two reads too.

It is the module that starts the others. `HandsOver` says that a successful call
is an initial state of `FilterControl` (`Control`): the layers filter with what the
first read chose and the record says so, whatever the flag of the late slot, from
the second read, says. `ImplementsGuardInit` says
that every step of a call is a step of `init()` in `GuardLifecycle` or a stutter
(`Guard`, whose variables are mapped from the call's by `ownerBar`, `liveBar`,
`handlesBar`). `liveBar` tells a failed call whose subscriber is global (the `log`
crate refused) from one whose layers died.

### `OtlpExport`

The life of one configuration. It is written in code (`Write`) or by hand
(`Compose`), saved (`Save`) and loaded by another process (`Load`), any number of
times; an interval is counted in ticks in memory and in whole seconds in the text.
`Build` and one `BuildExporter` per signal then make the three exporters, up to
the first failure. A URL is what follows the authority, cut into `/`, the mark
of a query, the three suffixes and other text; `Path` is `Url::path`, `Endpoint`
is `signal_endpoint`, `Merged` is `signal_headers`, and `Sent` what the HTTP
client makes of the merged map.

### `TelemetrySystem`: the guard and filter control

Both modules are instantiated, and every step is a step of one of them or a joint
one. `Connect` is the arrival of a request (`Send`) and of a connection
(`OpenConnection`); `Serve` runs its handler; `Disconnect` closes the connection once it
is answered, which a graceful shutdown waits for. `BeginApply` and
`ContinueApply` are the late configuration, and its last step is also `ApplyLate`
of the guard; `GuardFollows` says that the guard gets a meter provider exactly
when exporters were attached. `CallGuard` are the other methods, which
`&mut self` keeps out while the method runs.

### `LateExport`: the deferred log layer and the rate limit

`RateLimit` is instantiated, and its actions are steps of an event: `Emit` (the
filter), `AskLimit` and `Allow` (`filter_layer.and(rate_limit)`), `Process` (the slot). The
four steps of `attach()` after everything fallible, in the order `Order`, run
beside the threads; `Retune` is log control changing the published filter, which
lets through any of the events and the warning about them (`open`). The warning
thread's own event goes through the layer like any other: `Helper` exports the
warning only if the filter passes it, and the rate limit lets it by as internal.

### Mutants

An operator `X_Suffix` is `X` with a plausible bug (`Free_Always`,
`Unlock_Never`, `Fits_OffByOne`, ...). No action uses it; replacing `X` by it
must break the property `PROJECT.json` names under `mutants`, which shows that
the property is sensitive to that code.

## Runs

| Run | Instance | What it shows |
|---|---|---|
| `filter_setups` | one request, every installation (journald × OTLP × late × environment), every late configuration: both parts well-formed, malformed or absent, every exporter failing; under fairness | `OpenMeansReady`, `FailedApplyStartsNothing`, `ValidatedIsApplied`, `TypeOK`, and `EveryoneReturns`: no lock is kept |
| `filter_race` | three requests and the late configuration, installations with journald and a late slot; the second OTLP layer may refuse after the first was swapped | the inductive invariant `Inv` with `RecordIsInstalled` and `LayersAgree`, and `ImplementsDomains`; no deadlock between the actors |
| `guard_life` | every builder, every failure of the installation, panicking tasks, a server that drains its connections, pending shutdown futures that may be dropped; under fairness | `TeardownIsReported`, `LiveIsHeld`, `DropFlushes`, `NoSampleLostByShutdown`, `ShutdownIsFinal`, `ShutdownReturns`, `TasksEndAfterDrop`, `TypeOK` |
| `guard_abandoned_ok` | expected violation | see [findings](#findings) |
| `guard_first_poll` | expected violation | see [findings](#findings) |
| `rate_contention` | two threads, three events each, limit 1, three seconds; a spawn may fail | `OneHelper`, `BudgetExact`, `RollsBounded`, `ExactAlone` |
| `init` | a call of every kind (every source of a filter; every part and runtime; both checked features or neither; every refusal; an environment that may change at any time) and one that configures OTLP at once or later, racing or in sequence | `HandsOver`, `ImplementsGuardInit`, `OnlyInstallerSucceeds`, `ErrorMeansNotInstalled`, `ExporterErrorLeavesNothing` |
| `otlp` | configurations that differ from the default in one field (every URL of up to five tokens without a query, two header names in any of the four maps, every interval up to a second too long), and texts written by hand; any exporter may refuse | `PostsToSignalPath`, `HeadersReachTheirSignal`, `SpecificOverridesCommon`, `SavedCanBeLoaded`: what loads again, and what is refused |
| `otlp_spelling`, `otlp_suffix` | expected violations | see [findings](#findings) |
| `system` | one request beside a late configuration, shutdown, its abandonment, drop, for every builder with a server; under fairness | `ManagedMeansExporting`, `FiltersFrozen`, `ShutdownReturns` |
| `late_export` | two threads, two events each, with a rate limit and without, while log control changes the filter; under fairness | `NoneLost`, `NoneUnlimited`, `BudgetIsUndisturbed`, `DropIsReported`, `HelperIsReleased` |

Bounds, and why they are enough:

- *Requests.* A request is sent once and its handler has at most seven steps. Two
  writers suffice for every race on one domain, a third adds a reader of the
  other; the late configuration is a fourth actor in `filter_race`.
- *Expressions.* `off`, one other well-formed and one malformed expression. The
  code compares expressions with nothing but the parser, so two distinct
  well-formed values tell old from new. `FewConfigs` (the race runs) keeps the
  configurations that reach the locks; `filter_setups` runs all of them.
- *`MaxOpen` = 2.* Connections matter only as zero or not zero; two makes the
  transition between non-zero counts occur.
- *`MaxSecond`, `MaxCalls`.* Three seconds let a thread that read an old second move the
  window back and another forward again; three events per thread reach
  both a dropped event and a reset after it. `ExactAlone` speaks of the behaviours
  in which only one of the threads has logged.
- *Calls of `init()`.* What a call finds depends on whether another one took the
  subscriber and whose meter provider is global, and a second call produces every
  combination of the two; it needs no variety of its own beyond OTLP at once or
  later. Where the first call's filters come from and which parts it starts are
  varied separately, since no step looks at both.
- *Tokens.* `signal_endpoint` looks at the end of the path and at the slashes
  that end the text: five tokens hold a suffix with a slash before it, two after
  it, and one more token on either side.
- *Headers.* A name is in a map or not, independently of other names: two show that
  they do not disturb each other.
- *Intervals.* Two ticks a second make a fraction, three seconds leave a middle
  between the smallest and the largest accepted number. No step looks at two
  fields, so the configurations differ in one.
- *System.* One request is enough for a connection the server waits for and a
  handler that contends with the late configuration for a lock; the
  interleavings of more handlers are in `filter_race`. The server is always on
  (the parts do not meet otherwise).
- *Late export.* Two seconds and two events per thread reach a reset of the window and a
  dropped event and its warning; the rate limit itself has a larger instance of
  its own.
- Symmetry is used over requests (`filter_race`) and threads (`rate_contention`),
  only in runs without liveness.

Deadlock is checked in every run: where a model may stop, `Quiescent` is the only
way, and its guard says that everything started has ended.

## Fairness

- `FilterControl`: weak fairness of each started handler and of a started
  `apply_late_configuration`. A handler contains no await between its lock and
  its unlock and runs on a runtime thread, so it is not suspended for ever.
  Weak fairness is enough for `std::sync::Mutex` here because each request is
  sent once, so a waiting handler can be overtaken finitely often; with an endless
  stream of requests the code promises nothing about an unfair mutex. No client has
  to send and no application has to apply.
- `GuardLifecycle`: weak fairness of the steps of `init()`, of a polled future and of
  drop; of each task (Tokio polls a woken task); and of closing
  connections: axum's graceful shutdown waits for clients, without which
  `shutdown()` really may not return. Calling `shutdown`, dropping, applying,
  abandoning and panicking are not fair.
- `TelemetrySystem`: the same, of each handler, of the late configuration, of the
  guard's steps and of each task. A client closes its connection once it has its
  answer; unlike in `GuardLifecycle` that answer has to come, so `ShutdownReturns`
  includes that no handler waits for ever.
- `LateExport`: weak fairness of threads inside `allow()` and of the warning thread.
  The clock need not advance, nobody has to log, `attach()` need not go on. The
  two liveness properties are those of `RateLimit`, whose `FairSpec` asks for the
  same; they are checked where the limit arrives while threads log, and suppose
  that the warning thread can be spawned: otherwise nothing is reported, by
  design, and `DropIsReported` would be false. The failing spawn, which lowers
  the flag at once, is in `rate_contention`, under the safety properties.

## Proofs

Every safety invariant, action property and refinement that a passing run checks
is also a theorem, for every value of the constants under the named assumptions;
the liveness properties are only model-checked. `PROJECT.json` lists the theorems
under `theorems`. The proofs of a component are in a module of their own,
with one lemma per action of `Next`, and under it one step per conjunct that
the action can disturb.

**`FilterControlProofs`**: any sets of requests, expressions, limits,
configurations, installations and failing layers.

- `Invariance`: `Spec => []Inv`. `RecordIsInstalled` is not inductive: nothing in it
  says who may write. `Inv` adds `LockInv` (the lock of a domain is held by
  exactly the actor between its acquire and its record on that domain),
  `SwapInv` (a layer a writer has passed filters with what the writer asked for) and
  `ControlInv` (where an actor can be and that its expression has been parsed by
  then). With those, `Record` writes exactly what the last layer holds, and
  `LockInv` gives that no other writer changed it in between. `AgreeInv` says
  that only a writer between its two reloads separates two layers.
- `TypeCorrect`, `RecordNeverStale`, `LayersNeverDiverge` follow.

**`FilterPromiseProofs`** goes on from `Inv`, for the late configuration and the
responses.

- `AttachInvariance`: `AttachInv` follows `apply_late_configuration`. `StageInv` says
  how far the deferred layers have come: untouched until `attach()` connects them,
  connected and not recorded while their filters are reloaded. It is kept by the
  requests because one that holds the OTLP domain has found it recorded
  (`OtlpHeldInv`). `OpenLayersAreReady`, `FailureStartsNothing` and
  `ValidationSuffices` follow.
- `DomainsImplemented`: `Spec => ImplementsDomains`. Initial states map to initial
  states (`InitImplements`), and each action to a step of `FilterDomains` or a
  stutter (`StepImplements`): the last reload of a domain is its update, the
  reads of a response are its reads, everything else stutters. `ReplyInv` says
  which fields of a response are filled where.

**`GuardLifecycleProofs`**: every builder, any tasks that panic, any number of
connections, with and without abandoned futures.

- `Invariance`. None of the properties is inductive alone: that everything is down
  when `shutdown()` returns depends on which handles it has still to await
  (`TaskInv`: an active task is among them, and an error has been met exactly
  when a task that is no longer among them panicked), on what it still holds
  (`PipelineInv`) and on the flags that tell where it is (`PhaseInv`). `MeterInv`
  follows the meter provider from whoever installed it to the teardown that gets
  to it, and `EndInv` says what a teardown has left behind.
- `TypeCorrect`, `TeardownReported`, `LivePipelinesHeld`, `DropLeavesNothing`,
  `SamplesOutliveShutdown` follow, and the action property
  `NothingStartsAfterShutdown`, because a guard that has begun to shut down has no
  slot.

**`RateLimitProofs`**: any finite set of threads, any limit, with or without
failing spawns; `MaxSecond` and `MaxCalls` are arbitrary.

- `AtMostOneHelper`. The invariant ties the flag to the
  one place the right to warn can be: a thread that has claimed it and has yet to
  spawn, a warning thread yet to log, or one yet to clear the flag.
- `BudgetIsExact`: the events granted since the last reset are exactly the first
  `Limit` of those counted.
- `ResetsAreBounded`. The invariant is a potential: resets so far, plus two for
  each call whose clock reading is stale (`Stale`), plus one if the window is not
  that of the present second and a fresh call can catch it up (`Catchup`), is at
  most two per thread. A stale call that moves the window back gives up its two,
  one for its own reset and one for the call that moves the window forward again.
- `LimitIsExactAlone`. While one thread logs, its window only moves forward, nothing
  has been granted beyond the window, and what was granted in it is counted
  (`AloneInv`).

**`LateExportProofs`**: any number of threads.

- `LimitsLikeRateLimit`: `Spec => Rate!Spec`. Every step of `LateExport` is one of
  `RateLimit` or leaves its variables alone.
- `NoEventLost`, `NoEventUnlimited`, `BudgetUndisturbed` from `AttachInv`: an event
  past the filter implies that the slots are filled and the limit set,
  for `attach()` opens the filter after both, and with a limit every event that
  passes has asked it.

**`InitSequenceProofs`**: any number of calls, racing or in sequence, any
builders, features and refusals.

- `Invariance`. `Fits(a)` says of a call how far it has come and what it has built
  by then. Other calls disturb it only through the two globals (`OtherFits`): the
  subscriber is taken once, and the meter provider may be replaced, so the
  invariant claims it only while the other calls have not begun.
- `TypeCorrect`, `InstallerSucceeds`, `ErrorsMayBeRepeated`,
  `ExporterErrorsAreClean` follow.
- `HandsOverToFilterControl`, and `GuardInitImplemented`: every step of a call is a
  step of `init()` in `GuardLifecycle` under the mapping, or a stutter. The refusal
  of the `log` crate is the case to watch: the call has failed, and its subscriber
  is global.

**`OtlpExportProofs`**: any URLs, header names, intervals and ticks in a second.

- `WhatIsSavedIsLoaded` (the whole seconds of an interval are in range exactly for
  the intervals that are allowed, `AllowedSeconds`) and `HeadersAreSent` for every
  constant.
- `SpecificOverrides` supposes that no two spellings are one header name, and
  `EndpointsAreSignalPaths` that no URL has a query. The first is the complement of
  the violation run `otlp_spelling`; the second leaves out the observation in
  [findings](#findings). Both hold of the instance of the run `otlp`.
  The second needs that trimming slashes leaves a prefix of the path
  (`TrimmedIsPrefix`), by the least number of slashes that may be left out.

**`TelemetrySystemProofs`**: any finite set of requests, any builders.

- `FollowsFilterControl` and `FollowsGuardLifecycle`: every behaviour of the
  composed system is a behaviour of each module. The module instantiates
  `FilterPromiseProofs` and `GuardLifecycleProofs` and discharges their
  assumptions (`FilterAssumptions`, `GuardAssumptions`), so that the theorems above
  hold of the system: `SystemKeepsPromise` is `ImplementsDomains` there,
  `SystemTearsDown` is `TeardownIsReported` and `LiveIsHeld`.
- `Invariance`: the invariants of both and `JointInv`. `ConnectionInv` counts the
  connections: they are the requests sent and not yet closed, and a server
  that has any has not finished. `SlotInv` keeps the late configuration inside the
  method that takes the slot, `RecordInv` ties export to the OTLP record, and
  `LiveInv` says that the pipelines of the guard are those that export, but for a
  late configuration that has yet to return.
- `FrozenAfterShutdown`: once `shutdown()` has returned `Ok(())` the server has
  finished, so nothing is open and no handler is under way; the slot is gone, so
  nothing is applied. `ManagedIsExporting` is `RecordInv` with `LiveInv`.

**Assumptions.** Apart from the types of the constants they say that the values
standing for absence (`None`, `Unread`, `Unlimited`) are not among the values they
stand in for (`JobAssumption`, `SlotAssumption`, `NoneAssumption` and the
`ValueAssumption`s: Rust's `Option` gives that), that the thread of the late
configuration is not a request, that the deferred filter parses, and that threads
and requests are finite in number. TLC evaluates all of them in the runs.

**Model-checked only**: every liveness property (`EveryoneReturns`,
`ShutdownReturns` of the guard and of the system, `TasksEndAfterDrop`,
`DropIsReported`, `HelperIsReleased`), because the prover treats neither fairness
nor `ENABLED`; and the four violations, which are counterexamples.

## Findings

1. *An abandoned shutdown makes the next one lie.* `guard.rs:121` sets
   `shutdown_completed` before the first await. When the pending future is dropped
   (a `timeout` or `select!` around it while a connection is open), the task handles are detached, and the
   next `shutdown()` returns `Ok(())` at once with the task running and every
   provider alive; drop then skips the providers too. The doc of the method
   (`guard.rs:112-113`) says `Ok(())` is returned "once all tracked background
   tasks have been awaited and all configured OTLP providers have been shut
   down". Run `guard_abandoned_ok`; `guard_life` shows what still holds.
2. *The metrics task takes its meter late.* `tokio_metrics.rs:59` asks for the global meter when the
   task is first polled. A late configuration applied between `init()` and that
   poll (no await is needed between the two) becomes its provider, though
   `builder/mod.rs:267-268` and the repository's README (136-137) say that such metrics "keep
   the meter provider that was global at init". Run `guard_first_poll`.

3. *A common header may win.* `signal_headers` (`otlp/endpoint.rs:43`) merges by
   spelling, and the HTTP client takes `X-Shared` and `x-shared` for one name and
   keeps the one it comes to last in a hash map, so the common value may replace
   the signal's, though `otlp/config.rs:63-64` says that signal-specific maps override
   "entries with the same header name". Run `otlp_spelling`.
4. *A slash doubles the suffix.* With `http://host/v1/traces/` as the collector URL traces are
   posted to `/v1/traces/v1/traces`: `otlp/endpoint.rs:19` looks for the suffix before
   the slashes are trimmed. `otlp/config.rs:34-35` appends it "when this URL does
   not already include a signal suffix". Run `otlp_suffix`. The request still goes
   to a path of its own signal (`PostsToSignalPath`).

More observations, none of them a run of its own. `init()` reads the
environment variable twice (`builder/mod.rs:298` to resolve the filter, 321 to
fill the late slot): when it is set or removed in between, the flag of the slot
disagrees with the installed filter, and a late configuration replaces a filter
the environment chose, or is held off by a variable the filter did not come from.
`guard.rs:66` and `late.rs:116` speak of the variable that chose the filter at init,
as if it were read once. The run `init` reaches both cases; nothing in the code
prevents them, and no property denies them. Only a process that sets its
environment in one thread while another is inside `init()` meets them. An interval written in code is never checked: it reaches the periodic
reader as it is, and when it is out of range the text it is saved as is refused by
the process that loads it (the second half of `SavedCanBeLoaded`). A rate-limit warning is lost
when the OTLP filter rejects warnings (`builder/layers.rs:150` composes the filter
with the limit), and a window whose first drop finds the previous warning thread not
quite done has none; `DropIsReported` excepts both. And, outside the instances that
are run, `signal_endpoint` appends to the text of the URL (`otlp/endpoint.rs:24`), so
that after a query the suffix becomes part of the query; `PostsToSignalPath`
fails when `Urls` holds `<<"?">>`.

Not findings: a second `init()` with OTLP replaces the global meter provider of
the first although it fails, and an `init()` that fails on the log-control port has
installed the subscriber, so that it cannot be repeated, as has one that fails
because the application has a logger of its own, whose layers go on exporting; the
documentation supports only one call per process. The window of the rate limit may move backwards and grant more than
the limit in a second, but the code documents the limit as approximate under
contention; `RollsBounded` says how approximate. `GET /filters` may report a pair
of expressions that were never active together; nothing promises a snapshot.

## What the models leave out

- Memory is sequentially consistent. The atomics of `rate_limit.rs` use weaker
  orderings. `OneHelper` and `BudgetExact` each rest on read-modify-writes of one location,
  whose modification order is total anyway; `RollsBounded` and the liveness
  properties are claimed of the sequentially consistent model only.
- The wall clock never steps back: `Tick` only advances it. A `SetLimit` puts a
  limit where there was none, which is all `attach()` can do.
- No handler panics, so no mutex is poisoned (the code recovers the value of a poisoned
  mutex in any case).
- Bodies, status text, JSON extraction and routing: a request that does not
  deserialise never reaches a handler.
- The spans and logs themselves. A signal "exports" or does not. The errors of a provider's
  `shutdown` are logged by the code and change nothing, so the model does
  not distinguish them.
- Cargo features other than `journald` and `tokio-metrics`. They are taken to be
  enabled; without one, its part of the models does not occur.
- `try_init` and the global registries are external: one subscriber per process,
  taken once, and a `log` crate that may already have a logger. `init()` leaves
  the filters, the guard and the process in the model; its resource and service name are
  plain data and are left out.
- URLs are not normalised (`Url::path` also resolves dots and encodes
  characters; the code appends to the original text, as the model does). A header whose
  name or value HTTP does not allow is dropped by the exporter; the environment
  variables the exporter builders read besides the configuration are in
  `Refusing` only.
- In `TelemetrySystem` a connection carries one request, and the guard gets the meter
  provider in the step in which the late configuration returns. Panicking tasks and failing
  reload handles are left to the modules they belong to.
- In `LateExport` the two deferred layers are one: the trace layer has no rate
  limit and takes the same first and third step. The events of the threads all have the same level, so the filter lets all
  of them through or none; the warning about them is a kind of its own.
- `OtlpExport` leaves out the filter, the service name and the rate limit of a
  configuration: derived code copies them like the URL, and what is done with
  the filter and the limit is in `InitSequence` and `FilterControl`.
- Errors have no state and no code acts on their contents. Their variants are
  in `InitSequence` and `OtlpExport`; texts and sources are not modelled.

## Plan

Written so far, in this order: `FilterDomains`, `FilterControl`,
`FilterControlProofs`, `GuardLifecycle`, `RateLimit`, `RateLimitProofs`,
`InitSequence`, `OtlpExport`, `TelemetrySystem`, `LateExport`, then
`GuardLifecycleProofs`, `FilterPromiseProofs`, `LateExportProofs`,
`InitSequenceProofs`, `OtlpExportProofs`, `TelemetrySystemProofs`.
No component is left without a model, and no safety property of a run without a
theorem.

Next, to prove:

1. That the theorems on `init()` connect with those on the guard and the filters: a
   call of `InitSequence` that succeeds leaves the state from which
   `TelemetrySystem` goes on after `init()`.
2. `EndpointsAreSignalPaths` for URLs with a query before which nothing is
   appended (a configured endpoint that ends in its suffix).
3. What remains true of `TeardownIsReported` and `SamplesOutliveShutdown` after an
   abandoned `shutdown()`, as invariants of their own.
