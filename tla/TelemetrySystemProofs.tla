------------------------- MODULE TelemetrySystemProofs -------------------------
(***************************************************************************)
(* The guard and filter control together, for any number of requests.      *)
(*                                                                         *)
(* What holds of FilterControl and of GuardLifecycle holds of the system:  *)
(* every behaviour of it is one of each, and their theorems are used here  *)
(* through instances of the modules that prove them.  What neither module  *)
(* can say needs JointInv, which ties a connection to its request, the     *)
(* slot to the late configuration, and the pipelines of the guard to what  *)
(* log control has recorded.                                               *)
(***************************************************************************)
EXTENDS TelemetrySystem, FiniteSetTheorems, TLAPS

\* The modules with the proofs, instantiated as TelemetrySystem instantiates
\* Filter and Guard.

FilterP == INSTANCE FilterPromiseProofs
  WITH Setups <- {FilterSetup(s) : s \in Setups}, Breakable <- {},
       setup <- FilterSetup(setup)
GuardP == INSTANCE GuardLifecycleProofs
  WITH Setups <- {GuardSetup(s) : s \in Setups}, Fallible <- {},
       MaxOpen <- Cardinality(Requests), setup <- GuardSetup(setup)

\* The instances meet the assumptions their theorems rest on.
LEMMA FilterAssumptions ==
  /\ Off \in WellFormed
  /\ WellFormed \cap Malformed = {}
  /\ None \notin FilterP!Filters
  /\ Unread \notin FilterP!Filters \cup {None}
  /\ Unlimited \notin Limits
  /\ Late \notin Requests
  /\ None \notin FilterP!Actors
  /\ LateConfigs \subseteq FilterP!Configs
  /\ {FilterSetup(s) : s \in Setups} \subseteq FilterP!AllSetups
  /\ {} \subseteq FilterP!Layers
  /\ None \notin FilterP!Jobs
<1>1. {FilterSetup(s) : s \in Setups} \subseteq FilterP!AllSetups
  BY SetupAssumption DEF AllSetups, FilterSetup, FilterP!AllSetups
<1>2. /\ FilterP!Filters = Filter!Filters /\ FilterP!Actors = Filter!Actors
      /\ FilterP!Configs = Filter!Configs /\ FilterP!Jobs = Filter!Jobs
  BY DEF FilterP!Filters, Filter!Filters, FilterP!Actors, Filter!Actors,
     FilterP!Configs, Filter!Configs, FilterP!Jobs, Filter!Jobs,
     FilterP!Domains, Filter!Domains, FilterP!Reading, Filter!Reading
<1> QED
  BY <1>1, <1>2, ValueAssumption, ActorAssumption, ChoiceAssumption

\* As many connections as requests can be open at once.
LEMMA GuardAssumptions ==
  /\ {GuardSetup(s) : s \in Setups} \subseteq GuardP!AllSetups
  /\ {} \subseteq GuardP!Tasks
  /\ Cancellable \in BOOLEAN
  /\ Cardinality(Requests) \in Nat
<1>1. {GuardSetup(s) : s \in Setups} \subseteq GuardP!AllSetups
  BY SetupAssumption DEF AllSetups, GuardSetup, GuardP!AllSetups
<1>2. Cardinality(Requests) \in Nat
  BY ActorAssumption, FS_CardinalityType
<1> QED
  BY <1>1, <1>2, ChoiceAssumption

-----------------------------------------------------------------------------
(* The two instances are the same specifications *)

\* The invariants of FilterPromiseProofs are about what Filter specifies.
LEMMA SameFilter ==
  /\ Filter!Init <=> FilterP!Init
  /\ Filter!Next <=> FilterP!Next
  /\ UNCHANGED Filter!vars <=> UNCHANGED FilterP!vars
<1>1. Filter!Init <=> FilterP!Init
  BY DEF
    Filter!Init, Filter!Layers, Filter!Domains, Filter!Actors, Filter!Blank,
    Filter!Signals, FilterP!Init, FilterP!Layers, FilterP!Domains,
    FilterP!Actors, FilterP!Blank, FilterP!Signals
<1>2. Filter!Next <=> FilterP!Next
  BY DEF
    Filter!Next, Filter!Send, Filter!Handle, Filter!Apply, Filter!Attach,
    Filter!Quiescent, Filter!Jobs, Filter!Goto, Filter!Reading,
    Filter!NotFound, Filter!ReadStdout, Filter!ReadOtlp, Filter!Change,
    Filter!Return, Filter!Deferred, Filter!AppliesStdout,
    Filter!BuildExporters, Filter!BuildMeter, Filter!Connect, Filter!Actors,
    Filter!vars, Filter!Domains, Filter!Filters, Filter!Free, Filter!Respond,
    Filter!Acquire, Filter!ReloadFirst, Filter!ReloadSecond, Filter!Record,
    Filter!ExportersRejected, Filter!FillSlots, Filter!FirstLayer,
    Filter!Swap, Filter!LastLayer, Filter!FailReload, Filter!Unlock,
    FilterP!Next, FilterP!Send, FilterP!Handle, FilterP!Apply, FilterP!Attach,
    FilterP!Quiescent, FilterP!Jobs, FilterP!Goto, FilterP!Reading,
    FilterP!NotFound, FilterP!ReadStdout, FilterP!ReadOtlp, FilterP!Change,
    FilterP!Return, FilterP!Deferred, FilterP!AppliesStdout,
    FilterP!BuildExporters, FilterP!BuildMeter, FilterP!Connect,
    FilterP!Actors, FilterP!vars, FilterP!Domains, FilterP!Filters,
    FilterP!Free, FilterP!Respond, FilterP!Acquire, FilterP!ReloadFirst,
    FilterP!ReloadSecond, FilterP!Record, FilterP!ExportersRejected,
    FilterP!FillSlots, FilterP!FirstLayer, FilterP!Swap, FilterP!LastLayer,
    FilterP!FailReload, FilterP!Unlock
<1>3. UNCHANGED Filter!vars <=> UNCHANGED FilterP!vars
  BY DEF Filter!vars, FilterP!vars
<1> QED
  BY <1>1, <1>2, <1>3

\* The invariant of GuardLifecycleProofs is about what Guard specifies.
LEMMA SameGuard ==
  /\ Guard!Init <=> GuardP!Init
  /\ Guard!Next <=> GuardP!Next
  /\ UNCHANGED Guard!vars <=> UNCHANGED GuardP!vars
<1>1. Guard!Init <=> GuardP!Init
  BY DEF
    Guard!Init, Guard!Tasks, GuardP!Init, GuardP!Tasks
<1>2. Guard!Next <=> GuardP!Next
  BY DEF
    Guard!Next, Guard!Proceed, Guard!Choose, Guard!Tasks, Guard!TaskStep,
    Guard!Panic, Guard!RecordSample, Guard!OpenConnection,
    Guard!CloseConnection, Guard!Quiescent, Guard!InitStep, Guard!Await,
    Guard!Park, Guard!Wake, Guard!BeginFlush, Guard!FlushProvider,
    Guard!EndShutdown, Guard!EndDrop, Guard!ApplyLate, Guard!Shutdown,
    Guard!ShutdownAgain, Guard!DropGuard, Guard!Abandon, Guard!FirstPoll,
    Guard!Stop, Guard!EndAborted, Guard!Drain, Guard!Working, Guard!guard,
    Guard!call, Guard!Ended, Guard!vars, Guard!Install, Guard!InstallFails,
    Guard!SpawnMetrics, Guard!SpawnServer, Guard!BindFails, Guard!SpawnPanics,
    Guard!Active, Guard!KeepError, Guard!tasks, Guard!TasksAwaited,
    Guard!Remaining, Guard!NextProvider, Guard!Signals, Guard!StoreMeter,
    Guard!BeginShutdown, Guard!Runtimes, Guard!Drop, Guard!MayStop,
    Guard!Wanted, Guard!Spawn, Guard!AbortUnfinished, GuardP!Next,
    GuardP!Proceed, GuardP!Choose, GuardP!Tasks, GuardP!TaskStep,
    GuardP!Panic, GuardP!RecordSample, GuardP!OpenConnection,
    GuardP!CloseConnection, GuardP!Quiescent, GuardP!InitStep, GuardP!Await,
    GuardP!Park, GuardP!Wake, GuardP!BeginFlush, GuardP!FlushProvider,
    GuardP!EndShutdown, GuardP!EndDrop, GuardP!ApplyLate, GuardP!Shutdown,
    GuardP!ShutdownAgain, GuardP!DropGuard, GuardP!Abandon, GuardP!FirstPoll,
    GuardP!Stop, GuardP!EndAborted, GuardP!Drain, GuardP!Working,
    GuardP!guard, GuardP!call, GuardP!Ended, GuardP!vars, GuardP!Install,
    GuardP!InstallFails, GuardP!SpawnMetrics, GuardP!SpawnServer,
    GuardP!BindFails, GuardP!SpawnPanics, GuardP!Active, GuardP!KeepError,
    GuardP!tasks, GuardP!TasksAwaited, GuardP!Remaining, GuardP!NextProvider,
    GuardP!Signals, GuardP!StoreMeter, GuardP!BeginShutdown, GuardP!Runtimes,
    GuardP!Drop, GuardP!MayStop, GuardP!Wanted, GuardP!Spawn,
    GuardP!AbortUnfinished
<1>3. UNCHANGED Guard!vars <=> UNCHANGED GuardP!vars
  BY DEF
    Guard!vars, Guard!guard, Guard!call, Guard!tasks, GuardP!vars,
    GuardP!guard, GuardP!call, GuardP!tasks
<1> QED
  BY <1>1, <1>2, <1>3

-----------------------------------------------------------------------------
(* Every step is a step of each module, or leaves it alone *)

\* A joint step is one step of filter control.
LEMMA FilterStep ==
  ASSUME [Next]_vars
  PROVE  [Filter!Next]_(Filter!vars)
<1> USE DEF Filter!vars, vars, filterVars
<1>1. ASSUME NEW r \in Requests, Connect(r) \/ Serve(r)
      PROVE  Filter!Next
  BY <1>1 DEF Connect, Serve, Filter!Next
<1>2. ASSUME NEW c \in LateConfigs, BeginApply(c)
      PROVE  Filter!Next
  BY <1>2 DEF BeginApply, Filter!Next
<1>3. CASE ContinueApply
  BY <1>3 DEF ContinueApply, Filter!Next
<1>4. ASSUME \/ \E r \in Requests : Disconnect(r)
             \/ CallGuard \/ ProceedGuard \/ Sample \/ Quiescent
             \/ \E t \in Guard!Tasks : RunTask(t)
             \/ UNCHANGED vars
      PROVE  UNCHANGED Filter!vars
  <2>1. UNCHANGED <<setup, filterVars>>
    BY <1>4 DEF Disconnect, CallGuard, ProceedGuard, Sample, Quiescent, RunTask
  <2> QED
    BY <2>1
<1> QED
  BY <1>1, <1>2, <1>3, <1>4 DEF Next

\* A joint step is one step of the guard.
LEMMA GuardStep ==
  ASSUME [Next]_vars
  PROVE  [Guard!Next]_(Guard!vars)
<1> USE DEF Guard!Next
<1>1. ASSUME NEW r \in Requests, Connect(r) \/ Disconnect(r)
      PROVE  Guard!Next
  BY <1>1 DEF Connect, Disconnect
<1>2. ASSUME GuardFollows, UNCHANGED setup
      PROVE  [Guard!Next]_(Guard!vars)
  BY <1>2 DEF GuardFollows, Guard!Choose, guardVars, Guard!vars, Guard!guard,
     Guard!call, Guard!tasks
<1>3. ASSUME CallGuard PROVE Guard!Next
  BY <1>3 DEF CallGuard, Guard!Choose
<1>4. ASSUME ProceedGuard \/ Sample PROVE Guard!Next
  BY <1>4 DEF ProceedGuard, Sample
<1>5. ASSUME NEW t \in Guard!Tasks, RunTask(t) PROVE Guard!Next
  BY <1>5 DEF RunTask
<1>6. ASSUME \/ \E r \in Requests : Serve(r)
             \/ Quiescent \/ UNCHANGED vars
      PROVE  UNCHANGED Guard!vars
  BY <1>6 DEF Serve, Quiescent, vars, guardVars, Guard!vars, Guard!guard,
     Guard!call, Guard!tasks
<1>7. ASSUME NEW c \in LateConfigs, BeginApply(c)
      PROVE  [Guard!Next]_(Guard!vars)
  BY <1>2, <1>7 DEF BeginApply
<1>8. ASSUME ContinueApply PROVE [Guard!Next]_(Guard!vars)
  BY <1>2, <1>8 DEF ContinueApply
<1> QED
  BY <1>1, <1>3, <1>4, <1>5, <1>6, <1>7, <1>8 DEF Next

\* Seen by its filters, the system behaves as FilterControl says.
THEOREM FollowsFilterControl == Spec => Filter!Spec
<1>1. Init => Filter!Init
  BY DEF Init
<1> QED
  BY <1>1, FilterStep, PTL DEF Spec, Filter!Spec

\* Seen by its guard, the system behaves as GuardLifecycle says.
THEOREM FollowsGuardLifecycle == Spec => Guard!Spec
<1>1. Init => Guard!Init
  BY DEF Init
<1> QED
  BY <1>1, GuardStep, PTL DEF Spec, Guard!Spec

-----------------------------------------------------------------------------
(* The inductive invariant *)

\* The connections of the server are the requests that have been sent and not
\* yet closed; a server with connections has not finished.
ConnectionInv ==
  /\ closed \subseteq {r \in Requests : pc[r] = "done"}
  /\ open = Cardinality({r \in Requests : pc[r] # "new"} \ closed)
  /\ open # 0 => task["server"] \in {"running", "draining", "aborted"}
  /\ completed => aborted = {}

\* The late configuration runs only inside the method that consumes the slot.
SlotInv ==
  /\ slot => setup.late
  /\ owner \in {"install", "spawnMetrics", "spawnServer"} => pc[Late] = "new"
  /\ Applying => owner = "owned" /\ slot

Exporting == running = Guard!Signals /\ record.otlp # None
Silent    == running = {} /\ record.otlp = None

\* OTLP is exported and recorded, both, from init() or from the end of a late
\* configuration that has an OTLP part and succeeds.
RecordInv ==
  /\ setup.otlp => Exporting
  /\ ~setup.otlp /\ ~setup.late => Silent
  /\ ~setup.otlp /\ pc[Late] = "done" =>
       IF outcome = "ok" /\ config.otlp # None THEN Exporting ELSE Silent

\* The pipelines of an undamaged guard are those that reach an exporter; it
\* learns of the ones of a late configuration when that has returned.
LiveInv ==
  owner \in {"spawnMetrics", "spawnServer", "owned"} /\ ~completed
    => live = IF Applying /\ ~setup.otlp THEN {} ELSE running

PartsInv  == FilterP!Inv /\ FilterP!AttachInv /\ GuardP!Inv
JointInv  == ConnectionInv /\ SlotInv /\ RecordInv /\ LiveInv
SystemInv == setup \in Setups /\ PartsInv /\ JointInv

-----------------------------------------------------------------------------
(* The invariants of the two modules *)

\* Both start in their invariants.
LEMMA PartsInit == Init => PartsInv
<1>1. FilterP!Init => FilterP!Inv
  BY FilterAssumptions, FilterP!InitInv
<1>2. FilterP!Init => FilterP!AttachInv
  BY FilterAssumptions, FilterP!AttachInit
<1>3. GuardP!Init => GuardP!Inv
  BY GuardAssumptions, GuardP!InitInv
<1> QED
  BY <1>1, <1>2, <1>3, SameFilter, SameGuard DEF Init, PartsInv

\* Both keep them, for every step is one of theirs.
LEMMA PartsNext ==
  ASSUME PartsInv, [Next]_vars
  PROVE  PartsInv'
<1>1. [FilterP!Next]_(FilterP!vars) /\ [GuardP!Next]_(GuardP!vars)
  BY FilterStep, GuardStep, SameFilter, SameGuard
<1>2. FilterP!Inv'
  BY <1>1, FilterAssumptions, FilterP!NextInv DEF PartsInv
<1>3. FilterP!AttachInv'
  BY <1>1, FilterAssumptions, FilterP!AttachNext DEF PartsInv
<1>4. GuardP!Inv'
  BY <1>1, GuardAssumptions, GuardP!NextInv DEF PartsInv
<1> QED
  BY <1>2, <1>3, <1>4 DEF PartsInv

\* What the invariants of filter control say to its surroundings.
LEMMA FilterFacts ==
  ASSUME FilterP!Inv, FilterP!AttachInv
  PROVE  /\ pc \in [Requests \cup {Late} -> Filter!Locations]
         /\ record \in [stdout : WellFormed, otlp : WellFormed \cup {None}]
         /\ None \notin WellFormed
         /\ \A a \in Requests \cup {Late} : pc[a] = "record" =>
              /\ job[a].domain \in {"stdout", "otlp"}
              /\ job[a].filter \in WellFormed
         /\ \A r \in Requests :
              pc[r] = "record" /\ job[r].domain = "otlp" => record.otlp # None
         /\ Applying => setup.late /\ (config.otlp # None => ~setup.otlp)
         /\ pc[Late] \in {"build", "meter", "connect"} => config.otlp # None
         /\ pc[Late] = "record" => job[Late].filter = config[job[Late].domain]
         /\ setup.late /\ ~setup.otlp =>
              /\ pc[Late] \in {"new", "build", "meter"} => Silent
              /\ pc[Late] = "connect"
                   => running = {"metrics"} /\ record.otlp = None
              /\ pc[Late] = "record" /\ job[Late].domain = "stdout" => Silent
              /\ pc[Late] = "record" /\ job[Late].domain = "otlp"
                   => running = Guard!Signals
              /\ outcome \notin {"none", "ok"} => Silent
         /\ outcome = "none" <=> pc[Late] # "done"
<1> USE DEF FilterP!Inv, FilterP!AttachInv
<1>1. /\ pc \in [Requests \cup {Late} -> Filter!Locations]
      /\ record \in [stdout : WellFormed, otlp : WellFormed \cup {None}]
  BY DEF FilterP!TypeOK, FilterP!Actors, FilterP!Locations, Filter!Locations
<1>2. None \notin WellFormed
  BY FilterAssumptions DEF FilterP!Filters
<1>3. \A a \in Requests \cup {Late} : pc[a] = "record" =>
              /\ job[a].domain \in {"stdout", "otlp"}
              /\ job[a].filter \in WellFormed
  BY DEF FilterP!ControlInv, FilterP!Writing, FilterP!Actors, FilterP!Domains
<1>4. \A r \in Requests :
              pc[r] = "record" /\ job[r].domain = "otlp" => record.otlp # None
  BY DEF FilterP!OtlpHeldInv, FilterP!Holding
<1>5. /\ Applying => setup.late /\ (config.otlp # None => ~setup.otlp)
      /\ pc[Late] = "record" => job[Late].filter = config[job[Late].domain]
      /\ outcome = "none" <=> pc[Late] # "done"
  BY DEF FilterP!ApplyingInv, FilterP!Writing, FilterP!Deferred, FilterSetup,
     Applying
<1>6. pc[Late] \in {"build", "meter", "connect"} => config.otlp # None
  BY FilterAssumptions DEF FilterP!ControlInv
<1>7. ASSUME setup.late, ~setup.otlp
      PROVE  /\ pc[Late] \in {"new", "build", "meter"} => Silent
             /\ pc[Late] = "connect"
                  => running = {"metrics"} /\ record.otlp = None
             /\ pc[Late] = "record" /\ job[Late].domain = "stdout" => Silent
             /\ pc[Late] = "record" /\ job[Late].domain = "otlp"
                  => running = Guard!Signals
             /\ outcome \notin {"none", "ok"} => Silent
  <2>1. FilterP!Deferred
    BY <1>7 DEF FilterP!Deferred, FilterSetup
  <2>2. Guard!Signals = FilterP!Signals
    BY DEF Guard!Signals, FilterP!Signals
  <2> QED
    BY <2>1, <2>2 DEF FilterP!StageInv, FilterP!Untouched, FilterP!Connected,
       FilterP!Writing, FilterP!FailedApplyStartsNothing, Silent
<1> QED
  BY <1>1, <1>2, <1>3, <1>4, <1>5, <1>6, <1>7

\* A step of a request leaves the late configuration and the export alone, and
\* changes a record only of a domain that has one.
LEMMA RequestStep ==
  ASSUME FilterP!Inv, FilterP!AttachInv, NEW r \in Requests,
         Filter!Send(r) \/ Filter!Handle(r)
  PROVE  /\ UNCHANGED <<config, outcome, running>>
         /\ record'.otlp # None <=> record.otlp # None
         /\ pc' = [pc EXCEPT ![r] = pc'[r]] /\ pc'[r] # "new"
         /\ pc[r] # "done"
<1> USE DEF Filter!Goto
<1>0. /\ pc \in [Requests \cup {Late} -> Filter!Locations]
      /\ record \in [stdout : WellFormed, otlp : WellFormed \cup {None}]
      /\ None \notin WellFormed
      /\ pc[r] = "record" => /\ job[r].domain \in {"stdout", "otlp"}
                             /\ job[r].filter \in WellFormed
                             /\ job[r].domain = "otlp" => record.otlp # None
      /\ r # Late
  BY FilterFacts, ActorAssumption
<1>2. CASE Filter!Send(r)
  BY <1>0, <1>2 DEF Filter!Send
<1>3. CASE Filter!NotFound(r)
  BY <1>0, <1>3 DEF Filter!NotFound, Filter!Respond
<1>4. CASE Filter!ReadStdout(r)
  BY <1>0, <1>4 DEF Filter!ReadStdout
<1>5. CASE Filter!ReadOtlp(r)
  BY <1>0, <1>5 DEF Filter!ReadOtlp
<1>6. CASE Filter!Acquire(r)
  BY <1>0, <1>6 DEF Filter!Acquire
<1>7. CASE Filter!ReloadFirst(r)
  BY <1>0, <1>7 DEF Filter!ReloadFirst, Filter!FailReload, Filter!Respond
<1>8. CASE Filter!ReloadSecond(r)
  BY <1>0, <1>8 DEF Filter!ReloadSecond, Filter!FailReload, Filter!Respond
<1>9. CASE Filter!Record(r)
  BY <1>0, <1>9 DEF Filter!Record
<1> QED
  BY <1>2, <1>3, <1>4, <1>5, <1>6, <1>7, <1>8, <1>9 DEF Filter!Handle,
     Filter!Change

\* A step of the late configuration moves only its own thread, which has begun
\* afterwards and had not returned before.
LEMMA LateStep ==
  ASSUME FilterP!Inv, FilterP!AttachInv,
         (\E c \in LateConfigs : Filter!Apply(c)) \/ Filter!Attach
  PROVE  /\ pc' = [pc EXCEPT ![Late] = pc'[Late]] /\ pc'[Late] # "new"
         /\ Filter!Attach => Applying
         /\ pc[Late] # "done"
<1> USE DEF Filter!Goto, Filter!Return
<1>0. pc \in [Requests \cup {Late} -> Filter!Locations]
  BY FilterFacts
<1>1. ASSUME NEW c \in LateConfigs, Filter!Apply(c)
      PROVE  /\ pc' = [pc EXCEPT ![Late] = pc'[Late]] /\ pc'[Late] # "new"
             /\ pc[Late] = "new"
  BY <1>0, <1>1 DEF Filter!Apply
<1>2. CASE Filter!BuildExporters \/ Filter!BuildMeter \/ Filter!Connect
  BY <1>0, <1>2 DEF Filter!BuildExporters, Filter!BuildMeter, Filter!Connect,
     Applying
<1>3. CASE Filter!Acquire(Late) \/ Filter!Record(Late)
  BY <1>0, <1>3 DEF Filter!Acquire, Filter!Record, Applying
<1>4. CASE Filter!ReloadFirst(Late)
  BY <1>0, <1>4 DEF Filter!ReloadFirst, Filter!FailReload, Applying
<1>5. CASE Filter!ReloadSecond(Late)
  BY <1>0, <1>5 DEF Filter!ReloadSecond, Filter!FailReload, Applying
<1> QED
  BY <1>1, <1>2, <1>3, <1>4, <1>5 DEF Filter!Attach, Filter!Change

-----------------------------------------------------------------------------
(* Export and record *)

\* init() exports and records OTLP, or neither.
LEMMA RecordInit == Init => RecordInv
<1> SUFFICES ASSUME Init PROVE RecordInv
  OBVIOUS
<1>1. pc[Late] = "new"
  BY DEF Init, Filter!Init, Filter!Actors
<1>2. PICK f \in WellFormed, g \in WellFormed :
        record = [stdout |-> f, otlp |-> IF setup.otlp THEN g ELSE None]
  BY DEF Init, Filter!Init, FilterSetup
<1>3. running = IF setup.otlp THEN Guard!Signals ELSE {}
  BY DEF Init, Filter!Init, FilterSetup, Filter!Signals, Guard!Signals
<1>4. None \notin WellFormed
  BY FilterAssumptions DEF FilterP!Filters
<1> QED
  BY <1>1, <1>2, <1>3, <1>4 DEF RecordInv, Exporting, Silent

\* Requests leave the two together.
LEMMA RequestRecordInv ==
  ASSUME FilterP!Inv, FilterP!AttachInv, RecordInv, UNCHANGED setup,
         NEW r \in Requests, Filter!Send(r) \/ Filter!Handle(r)
  PROVE  RecordInv'
<1>1. pc'[Late] = pc[Late]
  BY RequestStep, FilterFacts, ActorAssumption
<1> QED
  BY <1>1, RequestStep DEF RecordInv, Exporting, Silent, Guard!Signals

\* A late configuration that succeeds with an OTLP part starts the export and
\* its record; any other leaves what it found.
LEMMA LateRecordInv ==
  ASSUME FilterP!Inv, FilterP!AttachInv, FilterP!Inv', FilterP!AttachInv',
         RecordInv, UNCHANGED setup,
         (\E c \in LateConfigs : Filter!Apply(c)) \/ Filter!Attach
  PROVE  RecordInv'
<1> USE DEF Filter!Goto, Filter!Return
<1>0. /\ pc \in [Requests \cup {Late} -> Filter!Locations]
      /\ pc'[Late] # "done" <=> outcome' = "none"
      /\ setup.late /\ ~setup.otlp /\ outcome' \notin {"none", "ok"} => Silent'
  BY FilterFacts DEF FilterP!AttachInv, FilterP!ApplyingInv,
     FilterP!FailedApplyStartsNothing, FilterP!Deferred, FilterSetup, Silent
<1> DEFINE Kept == UNCHANGED <<running, record>>
<1>1. ASSUME NEW c \in LateConfigs, Filter!Apply(c)
      PROVE  RecordInv'
  <2>1. Kept /\ config' = c /\ pc[Late] = "new"
    BY <1>1 DEF Filter!Apply
  <2>2. outcome' = "ok" => config'.otlp = None
    BY <1>0, <1>1 DEF Filter!Apply
  <2>3. setup.late /\ ~setup.otlp => Silent
    BY <2>1, FilterFacts
  <2> QED
    BY <2>1, <2>2, <2>3 DEF RecordInv, Exporting, Silent, Guard!Signals
<1>2. ASSUME Filter!Attach
      PROVE  RecordInv'
  <2>0. Applying /\ setup.late /\ (config.otlp # None => ~setup.otlp)
    BY <1>2, LateStep, FilterFacts
  <2>1. CASE Filter!BuildExporters
    BY <1>0, <2>0, <2>1, FilterFacts
       DEF Filter!BuildExporters, RecordInv, Exporting, Silent, Guard!Signals
  <2>2. CASE Filter!BuildMeter
    BY <1>0, <2>0, <2>2, FilterFacts
       DEF Filter!BuildMeter, RecordInv, Exporting, Silent, Guard!Signals
  <2>3. CASE Filter!Connect
    <3>1. ~setup.otlp
      BY <2>0, <2>3, FilterFacts DEF Filter!Connect
    <3>2. pc'[Late] # "done"
      BY <1>0, <2>0, <2>3, <3>1, FilterFacts DEF Filter!Connect
    <3> QED
      BY <2>0, <3>1, <3>2 DEF RecordInv
  <2>4. CASE Filter!Acquire(Late)
    BY <1>0, <2>0, <2>4
       DEF Filter!Acquire, RecordInv, Exporting, Silent, Guard!Signals
  <2>5. CASE Filter!ReloadFirst(Late) \/ Filter!ReloadSecond(Late)
    <3>1. Kept /\ outcome' # "ok"
      BY <2>0, <2>5, FilterFacts DEF Filter!ReloadFirst, Filter!ReloadSecond,
         Filter!FailReload, Applying
    <3> QED
      BY <1>0, <2>0, <3>1 DEF RecordInv, Exporting, Silent, Guard!Signals
  <2>6. CASE Filter!Record(Late)
    <3>1. /\ pc[Late] = "record"
          /\ record' = [record EXCEPT ![job[Late].domain] = job[Late].filter]
          /\ UNCHANGED <<config, running>>
      BY <2>6 DEF Filter!Record
    <3>2. /\ record \in [stdout : WellFormed, otlp : WellFormed \cup {None}]
          /\ job[Late].domain \in {"stdout", "otlp"}
          /\ job[Late].filter \in WellFormed
          /\ None \notin WellFormed
          /\ job[Late].filter = config[job[Late].domain]
      BY <3>1, FilterFacts
    <3>3. CASE job[Late].domain = "otlp"
      <4>1. config.otlp # None /\ ~setup.otlp
        BY <2>0, <3>2, <3>3
      <4>2. running' = Guard!Signals /\ record'.otlp # None
        BY <2>0, <3>1, <3>2, <3>3, <4>1, FilterFacts
      <4>3. outcome' = "ok"
        BY <2>6, <3>3 DEF Filter!Record
      <4> QED
        BY <2>0, <3>1, <4>1, <4>2, <4>3
           DEF RecordInv, Exporting, Guard!Signals
    <3>4. CASE job[Late].domain = "stdout"
      <4>1. record'.otlp = record.otlp
        BY <3>1, <3>2, <3>4
      <4>2. ~setup.otlp => Silent
        BY <2>0, <3>1, <3>4, FilterFacts
      <4>3. pc'[Late] = "done" => config.otlp = None
        BY <1>0, <2>6, <3>4 DEF Filter!Record
      <4> QED
        BY <2>0, <3>1, <4>1, <4>2, <4>3
           DEF RecordInv, Exporting, Silent, Guard!Signals
    <3> QED
      BY <3>2, <3>3, <3>4
  <2> QED
    BY <1>2, <2>1, <2>2, <2>3, <2>4, <2>5, <2>6 DEF Filter!Attach,
       Filter!Change
<1> QED
  BY <1>1, <1>2

-----------------------------------------------------------------------------
(* The steps of the guard *)

\* What the invariant of the guard says to its surroundings.
LEMMA GuardFacts ==
  ASSUME GuardP!Inv
  PROVE  /\ DOMAIN task = {"metrics", "server"} /\ open \in Nat
         /\ aborted # {} => owner \in {"dropFlushing", "dropped"}
         /\ completed => /\ handles = <<>>
                         /\ owner \notin {"install", "spawnMetrics",
                                          "spawnServer", "dropFlushing"}
         /\ owner \in {"polling", "parked", "flushing"} => completed
         /\ task["server"] = "aborted" => aborted # {}
         /\ result # "none" =>
              /\ completed
              /\ task["server"] \notin {"spawned", "running", "draining"}
         /\ slot => /\ owner \in {"spawnMetrics", "spawnServer", "owned"}
                    /\ ~completed
         /\ owner = "install" => live = {}
         /\ owner = "owned" => live \subseteq held
         /\ owner \in {"install", "spawnMetrics", "spawnServer"}
              => task["server"] = "absent"
<1> USE DEF GuardP!Inv, GuardP!TypeOK, GuardP!PhaseInv, GuardP!TaskInv,
            GuardP!PipelineInv, GuardP!InShutdown, GuardP!Tasks
<1>1. /\ DOMAIN task = {"metrics", "server"} /\ open \in Nat
      /\ aborted # {} => owner \in {"dropFlushing", "dropped"}
      /\ task["server"] = "aborted" => aborted # {}
  BY GuardAssumptions
<1>2. /\ completed => /\ handles = <<>>
                      /\ owner \notin {"install", "spawnMetrics",
                                       "spawnServer", "dropFlushing"}
      /\ owner \in {"polling", "parked", "flushing"} => completed
  OBVIOUS
<1>3. ASSUME result # "none"
      PROVE  completed /\ task["server"] \notin {"spawned", "running", "draining"}
  <2>1. completed /\ ~abandoned /\ owner \in {"owned", "dropped"}
    BY <1>3
  <2> QED
    BY <2>1 DEF GuardP!EndInv, GuardP!Ended, GuardP!Active
<1>4. /\ slot => /\ owner \in {"spawnMetrics", "spawnServer", "owned"}
                 /\ ~completed
      /\ owner = "install" => live = {}
      /\ owner = "owned" => live \subseteq held
      /\ owner \in {"install", "spawnMetrics", "spawnServer"}
           => task["server"] = "absent"
  OBVIOUS
<1> QED
  BY <1>1, <1>2, <1>3, <1>4

\* What a step of the guard that concerns neither connections nor the late
\* configuration changes of what the joint invariant is about.
GuardFrame ==
  /\ open' = open
  /\ open # 0 /\ task["server"] \in {"running", "draining", "aborted"}
       => task'["server"] \in {"running", "draining", "aborted"}
  /\ completed' /\ (completed => aborted = {}) => aborted' = {}
  /\ slot' => slot \/ (owner = "install" /\ setup.late)
  /\ owner' \in {"install", "spawnMetrics", "spawnServer"}
       => owner \in {"install", "spawnMetrics", "spawnServer"}
  /\ owner' \in {"spawnMetrics", "spawnServer", "owned"} /\ ~completed' =>
       \/ /\ owner \in {"spawnMetrics", "spawnServer", "owned"}
          /\ ~completed /\ live' = live
       \/ owner = "install" /\ live' = IF setup.otlp THEN Guard!Signals ELSE {}

\* No step of init() disturbs a connection, for there is none.
LEMMA InitFrame ==
  ASSUME GuardP!Inv, Guard!InitStep,
         open # 0 => task["server"] \in {"running", "draining", "aborted"}
  PROVE  GuardFrame
<1> USE DEF GuardFrame, Guard!guard, Guard!call, Guard!tasks, Guard!Tasks,
            GuardSetup
<1>0. /\ DOMAIN task = {"metrics", "server"}
      /\ aborted # {} => owner \in {"dropFlushing", "dropped"}
      /\ owner \in {"install", "spawnMetrics", "spawnServer"}
           => task["server"] = "absent" /\ ~completed
  BY GuardFacts
<1>1. CASE Guard!Install
  BY <1>0, <1>1 DEF Guard!Install, Guard!Signals
<1>2. CASE Guard!InstallFails
  BY <1>0, <1>2 DEF Guard!InstallFails
<1>3. CASE Guard!SpawnMetrics
  BY <1>0, <1>3 DEF Guard!SpawnMetrics, Guard!Wanted, Guard!Spawn
<1>4. CASE Guard!SpawnServer
  BY <1>0, <1>4 DEF Guard!SpawnServer, Guard!Wanted, Guard!Spawn
<1>5. CASE Guard!BindFails
  BY <1>0, <1>5 DEF Guard!BindFails, Guard!Drop
<1>6. CASE Guard!SpawnPanics
  BY <1>0, <1>6 DEF Guard!SpawnPanics, Guard!Drop
<1> QED
  BY <1>1, <1>2, <1>3, <1>4, <1>5, <1>6 DEF Guard!InitStep

\* The other steps of the guard, and of its tasks.
LEMMA RunFrame ==
  ASSUME GuardP!Inv,
         \/ Guard!Proceed /\ ~Guard!InitStep
         \/ Guard!Shutdown \/ Guard!ShutdownAgain \/ Guard!DropGuard
         \/ Guard!Abandon
         \/ \E t \in Guard!Tasks : Guard!TaskStep(t)
         \/ Guard!RecordSample
  PROVE  GuardFrame
<1> USE DEF GuardFrame, Guard!guard, Guard!call, Guard!tasks, Guard!Tasks
<1>0. /\ DOMAIN task = {"metrics", "server"}
      /\ aborted # {} => owner \in {"dropFlushing", "dropped"}
      /\ completed => handles = <<>>
      /\ owner \in {"polling", "parked", "flushing"} => completed
      /\ slot => /\ owner \in {"spawnMetrics", "spawnServer", "owned"}
                 /\ ~completed
  BY GuardFacts
<1>1. CASE \/ Guard!Await \/ Guard!Park \/ Guard!Wake \/ Guard!BeginFlush
           \/ Guard!EndShutdown \/ Guard!EndDrop
  BY <1>0, <1>1 DEF Guard!Await, Guard!Park, Guard!Wake, Guard!BeginFlush,
     Guard!EndShutdown, Guard!EndDrop
<1>2. CASE Guard!FlushProvider
  BY <1>0, <1>2 DEF Guard!FlushProvider
<1>3. CASE Guard!Shutdown
  BY <1>0, <1>3 DEF Guard!Shutdown, Guard!BeginShutdown
<1>4. CASE Guard!ShutdownAgain \/ Guard!Abandon \/ Guard!RecordSample
  BY <1>0, <1>4 DEF Guard!ShutdownAgain, Guard!Abandon, Guard!RecordSample
<1>5. CASE Guard!DropGuard
  <2>1. PICK runtime \in Guard!Runtimes : Guard!Drop(runtime)
    BY <1>5 DEF Guard!DropGuard
  <2>2. completed => aborted' = aborted
    BY <1>0, <2>1 DEF Guard!Drop, Guard!AbortUnfinished
  <2>3. owner' \in {"dropFlushing", "dropped"} /\ ~slot'
        /\ UNCHANGED <<completed, open, task>>
    BY <2>1 DEF Guard!Drop
  <2> QED
    BY <2>2, <2>3
<1>6. ASSUME NEW t \in Guard!Tasks, Guard!TaskStep(t)
      PROVE  GuardFrame
  <2>1. CASE Guard!FirstPoll(t)
    BY <1>0, <2>1 DEF Guard!FirstPoll
  <2>2. CASE Guard!Stop(t)
    BY <1>0, <2>2 DEF Guard!Stop, Guard!MayStop
  <2>3. CASE Guard!EndAborted(t)
    BY <1>0, <2>3 DEF Guard!EndAborted
  <2>4. CASE Guard!Drain
    BY <1>0, <2>4 DEF Guard!Drain
  <2> QED
    BY <1>6, <2>1, <2>2, <2>3, <2>4 DEF Guard!TaskStep
<1> QED
  BY <1>1, <1>2, <1>3, <1>4, <1>5, <1>6 DEF Guard!Proceed

-----------------------------------------------------------------------------
(* The joint invariant *)

\* The requests that occupy a connection.
Connected == {r \in Requests : pc[r] # "new"} \ closed

\* No connection, no slot and no pipeline yet.
LEMMA JointInit == Init => JointInv
<1> SUFFICES ASSUME Init PROVE JointInv
  OBVIOUS
<1>1. /\ \A a \in Requests \cup {Late} : pc[a] = "new"
      /\ closed = {} /\ owner = "install" /\ ~slot /\ open = 0 /\ ~completed
  BY DEF Init, Filter!Init, Guard!Init, Filter!Actors
<1>2. ConnectionInv
  <2>1. {r \in Requests : pc[r] # "new"} \ closed = {}
    BY <1>1
  <2> QED
    BY <1>1, <2>1, FS_EmptySet DEF ConnectionInv
<1>3. SlotInv /\ LiveInv
  BY <1>1 DEF SlotInv, LiveInv, Applying
<1> QED
  BY <1>2, <1>3, RecordInit DEF JointInv

\* A step of the guard alone.
LEMMA FrameInv ==
  ASSUME SystemInv, GuardFrame, UNCHANGED <<setup, filterVars, closed>>,
         Applying => UNCHANGED <<owner, slot>>
  PROVE  JointInv'
<1> USE DEF SystemInv, JointInv, GuardFrame, filterVars, Applying
<1>1. ConnectionInv'
  BY DEF ConnectionInv
<1>2. SlotInv'
  BY DEF SlotInv
<1>3. RecordInv'
  BY DEF RecordInv, Exporting, Silent, Guard!Signals
<1>4. LiveInv'
  <2>1. CASE owner = "install"
    <3>1. pc[Late] = "new"
      BY <2>1 DEF SlotInv
    <3>2. running = IF setup.otlp THEN Guard!Signals ELSE {}
      BY <3>1, FilterFacts DEF PartsInv, RecordInv, Exporting, Silent
    <3> QED
      BY <2>1, <3>1, <3>2 DEF LiveInv
  <2>2. CASE owner # "install"
    BY <2>2 DEF LiveInv
  <2> QED
    BY <2>1, <2>2
<1> QED
  BY <1>1, <1>2, <1>3, <1>4

\* A new connection holds a new request.
LEMMA ConnectInv ==
  ASSUME SystemInv, NEW r \in Requests, Connect(r)
  PROVE  JointInv'
<1> USE DEF SystemInv, PartsInv, JointInv
<1>1. /\ pc' = [pc EXCEPT ![r] = pc'[r]] /\ pc'[r] # "new" /\ pc[r] = "new"
      /\ pc \in [Requests \cup {Late} -> Filter!Locations]
      /\ UNCHANGED <<setup, closed, config, outcome, running>>
      /\ r # Late
  BY RequestStep, FilterFacts, ActorAssumption DEF Connect, Filter!Send
<1>2. /\ open' = open + 1 /\ task["server"] = "running"
      /\ UNCHANGED <<owner, slot, live, task, completed, aborted>>
  BY DEF Connect, Guard!OpenConnection, Guard!guard, Guard!call
<1>3. ConnectionInv'
  <2>1. Connected' = Connected \cup {r} /\ r \notin Connected
    BY <1>1 DEF Connected, ConnectionInv
  <2>2. IsFiniteSet(Connected)
    BY ActorAssumption, FS_Subset DEF Connected
  <2>3. Cardinality(Connected') = Cardinality(Connected) + 1
    BY <2>1, <2>2, FS_AddElement
  <2>4. closed' \subseteq {s \in Requests : pc'[s] = "done"}
    BY <1>1 DEF ConnectionInv
  <2> QED
    BY <1>2, <2>3, <2>4 DEF ConnectionInv, Connected
<1>4. SlotInv' /\ LiveInv'
  BY <1>1, <1>2 DEF SlotInv, LiveInv, Applying
<1>5. RecordInv'
  BY <1>1, RequestRecordInv DEF Connect
<1> QED
  BY <1>3, <1>4, <1>5

\* A handler keeps its connection.
LEMMA ServeInv ==
  ASSUME SystemInv, NEW r \in Requests, Serve(r)
  PROVE  JointInv'
<1> USE DEF SystemInv, PartsInv, JointInv
<1>1. /\ pc' = [pc EXCEPT ![r] = pc'[r]] /\ pc'[r] # "new"
      /\ pc[r] \notin {"new", "done"}
      /\ pc \in [Requests \cup {Late} -> Filter!Locations]
      /\ UNCHANGED <<setup, closed, guardVars, config, outcome, running>>
      /\ r # Late
  <2>1. pc[r] # "new"
    BY DEF Serve, Filter!Handle, Filter!NotFound, Filter!ReadStdout,
       Filter!ReadOtlp, Filter!Change, Filter!Acquire, Filter!ReloadFirst,
       Filter!ReloadSecond, Filter!Record
  <2> QED
    BY <2>1, RequestStep, FilterFacts, ActorAssumption DEF Serve
<1>2. ConnectionInv'
  <2>1. Connected' = Connected
    BY <1>1 DEF Connected
  <2>2. closed' \subseteq {s \in Requests : pc'[s] = "done"}
    BY <1>1 DEF ConnectionInv
  <2> QED
    BY <1>1, <2>1, <2>2 DEF ConnectionInv, Connected, guardVars
<1>3. SlotInv' /\ LiveInv'
  BY <1>1 DEF SlotInv, LiveInv, Applying, guardVars
<1>4. RecordInv'
  BY <1>1, RequestRecordInv DEF Serve
<1> QED
  BY <1>2, <1>3, <1>4

\* A connection that is closed held a request.
LEMMA DisconnectInv ==
  ASSUME SystemInv, NEW r \in Requests, Disconnect(r)
  PROVE  JointInv'
<1> USE DEF SystemInv, PartsInv, JointInv
<1>1. /\ pc[r] = "done" /\ r \notin closed /\ closed' = closed \cup {r}
      /\ UNCHANGED <<setup, filterVars>>
      /\ open' = open - 1 /\ open > 0
      /\ UNCHANGED <<owner, slot, live, task, completed, aborted>>
  BY DEF Disconnect, Answered, Guard!CloseConnection, Guard!guard,
     Guard!call
<1>2. ConnectionInv'
  <2>1. Connected' = Connected \ {r} /\ r \in Connected
    BY <1>1 DEF Connected, filterVars
  <2>2. IsFiniteSet(Connected)
    BY ActorAssumption, FS_Subset DEF Connected
  <2>3. Cardinality(Connected') = Cardinality(Connected) - 1
    BY <2>1, <2>2, FS_RemoveElement
  <2>4. closed' \subseteq {s \in Requests : pc'[s] = "done"}
    BY <1>1 DEF ConnectionInv, filterVars
  <2>5. open \in Nat
    BY GuardFacts
  <2> QED
    BY <1>1, <2>3, <2>4, <2>5 DEF ConnectionInv, Connected
<1>3. SlotInv' /\ LiveInv' /\ RecordInv'
  BY <1>1 DEF SlotInv, LiveInv, RecordInv, Exporting, Silent, Applying,
     filterVars, Guard!Signals
<1> QED
  BY <1>2, <1>3

\* The guard has the pipelines of a late configuration when it returns.
LEMMA ApplyInv ==
  ASSUME SystemInv, PartsInv',
         ContinueApply \/ \E c \in LateConfigs : BeginApply(c)
  PROVE  JointInv'
<1> USE DEF SystemInv, PartsInv, JointInv
<1>1. /\ (\E c \in LateConfigs : Filter!Apply(c)) \/ Filter!Attach
      /\ UNCHANGED <<setup, closed>>
      /\ GuardFollows
  BY DEF ContinueApply, BeginApply
<1>2. /\ pc' = [pc EXCEPT ![Late] = pc'[Late]] /\ pc'[Late] # "new"
      /\ pc \in [Requests \cup {Late} -> Filter!Locations]
      /\ Late \notin Requests
  BY <1>1, LateStep, FilterFacts, ActorAssumption
<1>3. owner = "owned" /\ slot /\ ~completed /\ setup.late
  <2>1. owner = "owned" /\ slot
    BY LateStep DEF ContinueApply, BeginApply, SlotInv
  <2> QED
    BY <2>1, GuardFacts DEF SlotInv
<1>4. /\ UNCHANGED <<owner, open, task, completed, aborted>>
      /\ pc'[Late] # "done" => UNCHANGED <<slot, live>>
      /\ pc'[Late] = "done" => ~slot'
  BY <1>1 DEF GuardFollows, Guard!ApplyLate, guardVars, Guard!call, Guard!tasks
<1>5. ConnectionInv'
  <2>1. Connected' = Connected
    BY <1>1, <1>2 DEF Connected
  <2>2. closed' \subseteq {s \in Requests : pc'[s] = "done"}
    BY <1>1, <1>2 DEF ConnectionInv
  <2> QED
    BY <1>4, <2>1, <2>2 DEF ConnectionInv, Connected
<1>6. SlotInv'
  BY <1>1, <1>2, <1>3, <1>4 DEF SlotInv, Applying
<1>7. RecordInv'
  BY <1>1, LateRecordInv
<1>8. LiveInv'
  <2>1. CASE setup.otlp
    <3>1. live = running /\ running = Guard!Signals /\ running' = Guard!Signals
      BY <1>1, <1>3, <1>7, <2>1
         DEF LiveInv, RecordInv, Exporting, Guard!Signals
    <3>2. live' = live
      BY <1>1, <1>4, <2>1 DEF GuardFollows, Guard!ApplyLate, GuardSetup
    <3> QED
      BY <1>1, <2>1, <3>1, <3>2 DEF LiveInv
  <2>2. CASE ~setup.otlp
    <3>1. live = {}
      <4>1. CASE Applying
        BY <1>3, <2>2, <4>1 DEF LiveInv
      <4>2. CASE ~Applying
        <5>1. pc[Late] = "new"
          BY <1>1, <4>2, LateStep DEF Applying
        <5> QED
          BY <1>3, <2>2, <4>2, <5>1, FilterFacts DEF LiveInv, Silent
      <4> QED
        BY <4>1, <4>2
    <3>2. CASE pc'[Late] # "done"
      BY <1>1, <1>2, <1>4, <2>2, <3>1, <3>2 DEF LiveInv, Applying
    <3>3. CASE pc'[Late] = "done"
      <4>1. live' = IF Attached THEN Guard!Signals ELSE {}
        BY <1>1, <3>1, <3>3 DEF GuardFollows, Guard!ApplyLate
      <4>2. running' = IF Attached THEN Guard!Signals ELSE {}
        BY <1>1, <1>7, <2>2, <3>3
           DEF RecordInv, Attached, Exporting, Silent, Guard!Signals
      <4> QED
        BY <1>1, <3>3, <4>1, <4>2 DEF LiveInv, Applying
    <3> QED
      BY <3>2, <3>3
  <2> QED
    BY <2>1, <2>2
<1> QED
  BY <1>5, <1>6, <1>7, <1>8

\* The conjunction is inductive.
LEMMA SystemInit == Init => SystemInv
BY PartsInit, JointInit DEF Init, SystemInv

\* One lemma for each kind of step.
LEMMA SystemNext ==
  ASSUME SystemInv, [Next]_vars
  PROVE  SystemInv'
<1>0. PartsInv'
  BY PartsNext DEF SystemInv
<1>1. setup' = setup
  BY DEF Next, vars, Connect, Serve, Disconnect, BeginApply, ContinueApply,
     CallGuard, ProceedGuard, RunTask, Sample, Quiescent
<1> SUFFICES JointInv'
  BY <1>0, <1>1 DEF SystemInv
<1> USE DEF SystemInv
<1>2. ASSUME NEW r \in Requests, Connect(r) \/ Serve(r) \/ Disconnect(r)
      PROVE  JointInv'
  BY <1>2, ConnectInv, ServeInv, DisconnectInv
<1>3. CASE ContinueApply \/ \E c \in LateConfigs : BeginApply(c)
  BY <1>0, <1>3, ApplyInv
<1>4. CASE CallGuard
  BY <1>4, RunFrame, FrameInv DEF CallGuard, PartsInv
<1>5. CASE ProceedGuard
  <2>1. ~Applying
    BY <1>5 DEF ProceedGuard, JointInv, SlotInv, Guard!Proceed, Guard!InitStep,
       Guard!Install, Guard!InstallFails, Guard!SpawnMetrics,
       Guard!SpawnServer, Guard!BindFails, Guard!SpawnPanics, Guard!Await,
       Guard!Park, Guard!Wake, Guard!BeginFlush, Guard!FlushProvider,
       Guard!EndShutdown, Guard!EndDrop
  <2>2. GuardFrame
    BY <1>5, InitFrame, RunFrame DEF ProceedGuard, PartsInv, JointInv,
       ConnectionInv
  <2> QED
    BY <1>5, <2>1, <2>2, FrameInv DEF ProceedGuard
<1>6. CASE Sample \/ \E t \in Guard!Tasks : RunTask(t)
  <2>1. GuardFrame
    BY <1>6, RunFrame DEF Sample, RunTask, PartsInv
  <2>2. UNCHANGED <<owner, slot>>
    BY <1>6 DEF Sample, RunTask, Guard!RecordSample, Guard!TaskStep,
       Guard!FirstPoll, Guard!Drain, Guard!Stop, Guard!EndAborted, Guard!guard
  <2> QED
    BY <1>6, <2>1, <2>2, FrameInv DEF Sample, RunTask
<1>7. CASE Quiescent \/ UNCHANGED vars
  <2>1. UNCHANGED vars
    BY <1>7 DEF Quiescent
  <2> QED
    BY <2>1 DEF vars, filterVars, guardVars, JointInv, ConnectionInv, SlotInv,
       RecordInv, LiveInv, Exporting, Silent, Applying, Guard!Signals
<1> QED
  BY <1>0, <1>1, <1>2, <1>3, <1>4, <1>5, <1>6, <1>7 DEF Next

\* The inductive invariant of the composed system.
THEOREM Invariance == Spec => []SystemInv
BY SystemInit, SystemNext, PTL DEF Spec

\* The variables keep their types.
THEOREM TypeCorrect == Spec => []TypeOK
<1>1. SystemInv => TypeOK
  <2> SUFFICES ASSUME SystemInv PROVE TypeOK
    OBVIOUS
  <2>1. Filter!TypeOK
    BY DEF SystemInv, PartsInv, FilterP!Inv,
       Filter!TypeOK, Filter!AllSetups, Filter!Layers, Filter!Domains,
       Filter!Actors, Filter!Locations, Filter!Jobs, Filter!Replies,
       Filter!Configs, Filter!Outcomes, Filter!Signals, Filter!Filters,
       Filter!Reading, FilterP!TypeOK, FilterP!AllSetups, FilterP!Layers,
       FilterP!Domains, FilterP!Actors, FilterP!Locations, FilterP!Jobs,
       FilterP!Replies, FilterP!Configs, FilterP!Outcomes, FilterP!Signals,
       FilterP!Filters, FilterP!Reading
  <2>2. Guard!TypeOK
    BY DEF SystemInv, PartsInv, GuardP!Inv,
       Guard!TypeOK, Guard!AllSetups, Guard!Owners, Guard!Signals, Guard!Tasks,
       Guard!TaskStates, GuardP!TypeOK, GuardP!AllSetups, GuardP!Owners,
       GuardP!Signals, GuardP!Tasks, GuardP!TaskStates
  <2> QED
    BY <2>1, <2>2 DEF TypeOK, SystemInv, JointInv, ConnectionInv
<1> QED
  BY <1>1, Invariance, PTL

\* Log control finds the OTLP domain exactly when OTLP export runs and the
\* guard holds its pipelines.
THEOREM ManagedIsExporting == Spec => []ManagedMeansExporting
<1>1. SystemInv => ManagedMeansExporting
  <2> SUFFICES ASSUME SystemInv, owner = "owned", ~completed, ~Applying
               PROVE  (record.otlp # None)
                        <=> /\ running = Guard!Signals
                            /\ live \cap held = running
    BY DEF ManagedMeansExporting
  <2> USE DEF SystemInv, PartsInv, JointInv
  <2>1. live = running /\ live \subseteq held
    BY GuardFacts DEF LiveInv
  <2>2. Exporting \/ Silent
    BY FilterFacts DEF RecordInv, Applying
  <2>3. Guard!Signals # {}
    BY DEF Guard!Signals
  <2> QED
    BY <2>1, <2>2, <2>3 DEF Exporting, Silent
<1> QED
  BY <1>1, Invariance, PTL

\* After a shutdown() that returned Ok(()) no filter changes any more: nobody
\* is left to change one.
THEOREM FrozenAfterShutdown == Spec => FiltersFrozen
<1>1. ASSUME SystemInv, [Next]_vars
      PROVE  [result = "ok" => UNCHANGED <<installed, record>>]_vars
  <2> SUFFICES ASSUME result = "ok", Next
               PROVE  UNCHANGED <<installed, record>>
    BY <1>1
  <2> USE <1>1 DEF SystemInv, PartsInv, JointInv
  <2>1. ~slot /\ open = 0
    <3>1. /\ result # "none" =>
               completed /\ task["server"] \notin {"running", "draining"}
          /\ completed => ~slot
          /\ task["server"] = "aborted" => aborted # {}
      BY GuardFacts
    <3> QED
      BY <3>1 DEF ConnectionInv
  <2>2. ASSUME NEW r \in Requests, Serve(r)
        PROVE  FALSE
    <3>1. pc[r] \notin {"new", "done"}
      BY <2>2 DEF Serve, Filter!Handle, Filter!NotFound, Filter!ReadStdout,
         Filter!ReadOtlp, Filter!Change, Filter!Acquire, Filter!ReloadFirst,
         Filter!ReloadSecond, Filter!Record
    <3>2. r \in Connected
      BY <3>1 DEF Connected, ConnectionInv
    <3>3. IsFiniteSet(Connected)
      BY ActorAssumption, FS_Subset DEF Connected
    <3>4. Cardinality(Connected) # 0
      BY <3>2, <3>3, FS_EmptySet
    <3> QED
      BY <2>1, <3>4 DEF ConnectionInv, Connected
  <2>3. ~ContinueApply
    BY <2>1, LateStep DEF ContinueApply, SlotInv
  <2>4. \A c \in LateConfigs : ~BeginApply(c)
    BY <2>1 DEF BeginApply
  <2>5. ASSUME NEW r \in Requests, Connect(r)
        PROVE  UNCHANGED <<installed, record>>
    BY <2>5 DEF Connect, Filter!Send
  <2>6. ASSUME NEW r \in Requests, Disconnect(r)
        PROVE  UNCHANGED <<installed, record>>
    BY <2>6 DEF Disconnect, filterVars
  <2>7. CASE \/ CallGuard \/ ProceedGuard \/ Sample \/ Quiescent
             \/ \E t \in Guard!Tasks : RunTask(t)
    BY <2>7 DEF CallGuard, ProceedGuard, Sample, Quiescent, RunTask, vars,
       filterVars
  <2> QED
    BY <2>2, <2>3, <2>4, <2>5, <2>6, <2>7 DEF Next
<1> QED
  BY <1>1, Invariance, PTL DEF Spec, FiltersFrozen

\* A client of the running system sees what FilterDomains promises, whatever
\* the application does with the guard meanwhile.
THEOREM SystemKeepsPromise == Spec => Filter!ImplementsDomains
<1>1. Init => FilterP!Init
  BY SameFilter DEF Init
<1>2. [Next]_vars => [FilterP!Next]_(FilterP!vars)
  BY FilterStep, SameFilter
<1>3. Spec => FilterP!Spec
  BY <1>1, <1>2, PTL DEF Spec, FilterP!Spec
<1>4. FilterP!Spec => FilterP!ImplementsDomains
  BY FilterAssumptions, FilterP!DomainsImplemented
<1>5. FilterP!Promise!Init => Filter!Promise!Init
  BY DEF
     Filter!Promise!Init, Filter!Promise!Blank, FilterP!Promise!Init,
     FilterP!Promise!Blank, Filter!activeBar, Filter!answerBar,
     Filter!askedBar, Filter!LastLayer, Filter!Committed, FilterP!activeBar,
     FilterP!answerBar, FilterP!askedBar, FilterP!LastLayer, FilterP!Committed
<1>6. [FilterP!Promise!Next]_(FilterP!Promise!vars)
        => [Filter!Promise!Next]_(Filter!Promise!vars)
  BY DEF
     Filter!Promise!Next, Filter!Promise!vars, Filter!Promise!Ask,
     Filter!Promise!Put, Filter!Promise!Refuse, Filter!Promise!NotFound,
     Filter!Promise!Domains, Filter!Promise!Observe, Filter!Promise!LateSet,
     Filter!Promise!Asks, Filter!Promise!Blank, FilterP!Promise!Next,
     FilterP!Promise!vars, FilterP!Promise!Ask, FilterP!Promise!Put,
     FilterP!Promise!Refuse, FilterP!Promise!NotFound, FilterP!Promise!Domains,
     FilterP!Promise!Observe, FilterP!Promise!LateSet, FilterP!Promise!Asks,
     FilterP!Promise!Blank, Filter!activeBar, Filter!answerBar,
     Filter!askedBar, Filter!Unreliable, Filter!LastLayer, Filter!Committed,
     Filter!Domains, FilterP!activeBar, FilterP!answerBar, FilterP!askedBar,
     FilterP!Unreliable, FilterP!LastLayer, FilterP!Committed, FilterP!Domains
<1> QED
  BY <1>3, <1>4, <1>5, <1>6, PTL DEF Filter!ImplementsDomains,
     FilterP!ImplementsDomains, Filter!Promise!Spec, FilterP!Promise!Spec

\* The guard tears down as in GuardLifecycle while requests are served.
THEOREM SystemTearsDown ==
  Spec => [](Guard!TeardownIsReported /\ Guard!LiveIsHeld)
<1>1. Init => GuardP!Init
  BY SameGuard DEF Init
<1>2. [Next]_vars => [GuardP!Next]_(GuardP!vars)
  BY GuardStep, SameGuard
<1>3. Spec => GuardP!Spec
  BY <1>1, <1>2, PTL DEF Spec, GuardP!Spec
<1>4. GuardP!Spec => []GuardP!TeardownIsReported
  BY GuardAssumptions, GuardP!TeardownReported
<1>5. GuardP!Spec => []GuardP!LiveIsHeld
  BY GuardAssumptions, GuardP!LivePipelinesHeld
<1>6. /\ GuardP!TeardownIsReported => Guard!TeardownIsReported
      /\ GuardP!LiveIsHeld => Guard!LiveIsHeld
  BY DEF
     Guard!TeardownIsReported, Guard!LiveIsHeld, Guard!Ended, Guard!Tasks,
     Guard!Active, GuardP!TeardownIsReported, GuardP!LiveIsHeld, GuardP!Ended,
     GuardP!Tasks, GuardP!Active
<1> QED
  BY <1>3, <1>4, <1>5, <1>6, PTL
=============================================================================
