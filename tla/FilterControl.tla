---------------------------- MODULE FilterControl ----------------------------
(***************************************************************************)
(* Runtime filter control, at the grain of its locks.                      *)
(*                                                                         *)
(* Two filter domains each span one or two layers of the subscriber:       *)
(* "stdout" is the formatting layer and the optional journald layer,       *)
(* "otlp" is the trace layer and the log layer.  Every layer holds its own *)
(* reloadable filter; each domain also has a record of its active          *)
(* expression behind a mutex.  Requests to the log-control server and one  *)
(* late configuration replace the filters, layer after layer, under the    *)
(* lock of the domain, and then write the record.  Handlers run on threads *)
(* of the Tokio runtime, so they interleave at every lock and reload.      *)
(***************************************************************************)

CONSTANTS
  Requests,     \* the HTTP requests, each sent at most once
  Late,         \* the thread that calls apply_late_configuration
  WellFormed,   \* filter expressions EnvFilter::try_new accepts
  Malformed,    \* filter expressions it rejects
  Off,          \* the expression deferred layers start with (DEFERRED_FILTER)
  None,         \* the absent value
  Unread,       \* a response field not filled in yet
  Limits,       \* log rate limits a configuration may set
  Unlimited,    \* the absence of a rate limit
  LateConfigs,  \* the late configurations considered
  Setups,       \* the builder and environment choices considered
  Breakable     \* layers whose reload handle may fail

Layers  == {"fmt", "journald", "trace", "log"}
Domains == {"stdout", "otlp"}
Signals == {"spans", "logs", "metrics"}
Filters == WellFormed \cup Malformed
Actors  == Requests \cup {Late}

\* OTLP is absent from a late configuration when its filter is None.
\* "broken" names the exporter that cannot be built from the configuration.
Configs == [stdout : Filters \cup {None}, otlp : Filters \cup {None},
            limit  : Limits \cup {Unlimited},
            broken : {"none", "trace", "log", "metric"}]

AllSetups == [journald : BOOLEAN,  \* journald layer enabled
              otlp     : BOOLEAN,  \* OTLP configured at init
              late     : BOOLEAN,  \* with_late_configuration called
              fromEnv  : BOOLEAN]  \* the environment chose the stdout filter

ASSUME ValueAssumption ==
  /\ Off \in WellFormed
  /\ WellFormed \cap Malformed = {}
  /\ None \notin Filters
  /\ Unread \notin Filters \cup {None}
  /\ Unlimited \notin Limits
ASSUME ActorAssumption ==
  /\ Late \notin Requests
  /\ None \notin Actors
ASSUME ChoiceAssumption ==
  /\ LateConfigs \subseteq Configs
  /\ Setups \subseteq AllSetups
  /\ Breakable \subseteq Layers

\* What an actor is to do: replace a domain's filter, or read both (GET).
Reading  == [domain |-> None, filter |-> None]
Jobs     == [domain : Domains, filter : Filters] \cup {Reading}
ASSUME JobAssumption == None \notin Jobs

Replies  == [status : {"open", "ok", "refused", "notFound"},
             stdout : WellFormed \cup {Unread},
             otlp   : WellFormed \cup {None, Unread}]
Blank    == [status |-> "open", stdout |-> Unread, otlp |-> Unread]
Outcomes == {"none", "ok", "alreadyConfigured", "unavailable",
             "invalid", "filterReload"}
Locations == {"new", "acquire", "first", "second", "record", "readStdout",
              "readOtlp", "build", "meter", "connect", "done"}

VARIABLES
  setup,      \* what the builder installed
  installed,  \* the filter of each layer, None for a layer not installed
  record,     \* the recorded expression of each domain, None: no OTLP export
  lock,       \* the actor holding the mutex of each domain, None when free
  pc,         \* where each actor is
  job,        \* what each actor is doing, None before it has anything to do
  reply,      \* the response to each request
  config,     \* the late configuration, None before it is applied
  outcome,    \* the result of apply_late_configuration
  running,    \* the signals that reach an exporter
  limit       \* the rate limit of the OTLP log layer

vars == <<setup, installed, record, lock, pc, job, reply, config, outcome,
          running, limit>>

-----------------------------------------------------------------------------
\* Every operator whose name ends in a suffix after "_" is the operator of
\* that name with a plausible bug; it is used only to confirm that a property
\* would notice.

FirstLayer(d) == IF d = "stdout" THEN "fmt" ELSE "trace"

LastLayer_NoJournald(d) == IF d = "otlp" THEN "log" ELSE "fmt"
LastLayer(d)  == IF d = "otlp" THEN "log"
                 ELSE IF setup.journald THEN "journald" ELSE "fmt"

\* The OTLP layers are installed without an exporter.
Deferred == setup.late /\ ~setup.otlp

TypeOK ==
  /\ setup \in AllSetups
  /\ installed \in [Layers -> WellFormed \cup {None}]
  /\ record \in [stdout : WellFormed, otlp : WellFormed \cup {None}]
  /\ lock \in [Domains -> Actors \cup {None}]
  /\ pc \in [Actors -> Locations]
  /\ job \in [Actors -> Jobs \cup {None}]
  /\ reply \in [Requests -> Replies]
  /\ config \in Configs \cup {None}
  /\ outcome \in Outcomes
  /\ running \in SUBSET Signals
  /\ limit \in Limits \cup {Unlimited}

\* f and g are the expressions resolved for the local and the OTLP layers.
Init ==
  /\ setup \in Setups
  /\ \E f, g \in WellFormed :
       /\ installed = [l \in Layers |->
            IF l = "fmt" THEN f
            ELSE IF l = "journald" THEN IF setup.journald THEN f ELSE None
            ELSE IF setup.otlp THEN g
            ELSE IF setup.late THEN Off ELSE None]
       /\ record = [stdout |-> f, otlp |-> IF setup.otlp THEN g ELSE None]
  /\ lock = [d \in Domains |-> None]
  /\ pc = [a \in Actors |-> "new"]
  /\ job = [a \in Actors |-> None]
  /\ reply = [r \in Requests |-> Blank]
  /\ config = None
  /\ outcome = "none"
  /\ running = IF setup.otlp THEN Signals ELSE {}
  /\ limit \in IF setup.otlp THEN Limits \cup {Unlimited} ELSE {Unlimited}

-----------------------------------------------------------------------------
\* A mutex can be taken, or its value cloned, only while nobody holds it.
Free_Always(d) == TRUE
Free(d) == lock[d] = None

Unlock_Never(d) == UNCHANGED lock
Unlock(d) == lock' = [lock EXCEPT ![d] = None]

Goto(a, l) == pc' = [pc EXCEPT ![a] = l]

\* apply_late_configuration returns.
Return(result) ==
  /\ Goto(Late, "done")
  /\ outcome' = result

\* The response is sent.
Respond(r, status) ==
  /\ Goto(r, "done")
  /\ reply' = [reply EXCEPT ![r].status = status]

\* A client sends GET /filters or PUT /filters/<domain>.
Send(r) ==
  /\ pc[r] = "new"
  /\ \E j \in Jobs :
       /\ job' = [job EXCEPT ![r] = j]
       /\ Goto(r, IF j = Reading THEN "readStdout" ELSE "acquire")
  /\ UNCHANGED <<setup, installed, record, lock, reply, config, outcome,
                 running, limit>>

\* A request finds the OTLP domain absent once it has the lock, and drops it.
NotFound(r) ==
  /\ pc[r] = "acquire"
  /\ job[r].domain = "otlp"
  /\ Free("otlp")
  /\ record.otlp = None
  /\ Respond(r, "notFound")
  /\ UNCHANGED <<setup, installed, record, lock, job, config, outcome,
                 running, limit>>

\* An actor takes the lock of the domain it is to change.  The late
\* configuration does so whether or not the OTLP domain is recorded.
Acquire(a) ==
  /\ pc[a] = "acquire"
  /\ Free(job[a].domain)
  /\ a = Late \/ record[job[a].domain] # None
  /\ lock' = [lock EXCEPT ![job[a].domain] = a]
  /\ Goto(a, "first")
  /\ UNCHANGED <<setup, installed, record, job, reply, config, outcome,
                 running, limit>>

\* The reload callback of one layer parses the expression, then swaps it in.
Swap_Unparsed(a, l) ==
  installed' = [installed EXCEPT ![l] = job[a].filter]

Swap(a, l) ==
  /\ job[a].filter \in WellFormed
  /\ installed' = [installed EXCEPT ![l] = job[a].filter]

\* The callback of layer l fails: the lock is released, the record is kept.
FailReload(a, l) ==
  /\ job[a].filter \in Malformed \/ l \in Breakable
  /\ Unlock(job[a].domain)
  /\ IF a = Late
     THEN Return("filterReload") /\ UNCHANGED reply
     ELSE Respond(a, "refused") /\ UNCHANGED outcome
  /\ UNCHANGED <<setup, installed, record, job, config, running, limit>>

ReloadFirst(a) ==
  /\ pc[a] = "first"
  /\ LET d == job[a].domain
         l == FirstLayer(d)
     IN \/ /\ Swap(a, l)
           /\ Goto(a, IF l = LastLayer(d) THEN "record" ELSE "second")
           /\ UNCHANGED <<setup, record, lock, job, reply, config, outcome,
                          running, limit>>
        \/ FailReload(a, l)

ReloadSecond(a) ==
  /\ pc[a] = "second"
  /\ LET l == LastLayer(job[a].domain)
     IN \/ /\ Swap(a, l)
           /\ Goto(a, "record")
           /\ UNCHANGED <<setup, record, lock, job, reply, config, outcome,
                          running, limit>>
        \/ FailReload(a, l)

\* The record follows the layers and the lock is released.  A request keeps
\* the new expression for its response and goes on to the other domain; the
\* late configuration goes on to its OTLP part, or returns.
Record(a) ==
  /\ pc[a] = "record"
  /\ LET d == job[a].domain
         f == job[a].filter
     IN /\ record' = [record EXCEPT ![d] = f]
        /\ Unlock(d)
        /\ IF a = Late
           THEN /\ IF d = "stdout" /\ config.otlp # None
                   THEN Goto(a, "build") /\ UNCHANGED outcome
                   ELSE Return("ok")
                /\ UNCHANGED reply
           ELSE /\ Goto(a, IF d = "stdout" THEN "readOtlp" ELSE "readStdout")
                /\ reply' = [reply EXCEPT ![a][d] = f]
                /\ UNCHANGED outcome
  /\ UNCHANGED <<setup, installed, job, config, running, limit>>

\* clone_mutex_value of the stdout record; GET then reads the OTLP record.
ReadStdout(r) ==
  /\ pc[r] = "readStdout"
  /\ Free("stdout")
  /\ IF job[r] = Reading
     THEN /\ reply' = [reply EXCEPT ![r].stdout = record.stdout]
          /\ Goto(r, "readOtlp")
     ELSE /\ reply' = [reply EXCEPT ![r].stdout = record.stdout,
                                    ![r].status = "ok"]
          /\ Goto(r, "done")
  /\ UNCHANGED <<setup, installed, record, lock, job, config, outcome,
                 running, limit>>

\* current_otlp_filter, the last field of the response in every handler
\* that calls it.
ReadOtlp(r) ==
  /\ pc[r] = "readOtlp"
  /\ Free("otlp")
  /\ reply' = [reply EXCEPT ![r].otlp = record.otlp, ![r].status = "ok"]
  /\ Goto(r, "done")
  /\ UNCHANGED <<setup, installed, record, lock, job, config, outcome,
                 running, limit>>

AppliesStdout_IgnoringEnv(c) == c.stdout # None
AppliesStdout(c) == c.stdout # None /\ ~setup.fromEnv

\* The application applies configuration c: the whole is refused, or the
\* stdout part is started, or skipped because the environment has precedence.
Apply(c) ==
  /\ pc[Late] = "new"
  /\ config' = c
  /\ IF ~setup.late
     THEN Return("unavailable") /\ UNCHANGED job
     ELSE IF c.otlp # None /\ ~Deferred
     THEN Return("alreadyConfigured") /\ UNCHANGED job
     ELSE IF AppliesStdout(c)
     THEN /\ job' = [job EXCEPT ![Late] =
                       [domain |-> "stdout", filter |-> c.stdout]]
          /\ Goto(Late, "acquire")
          /\ UNCHANGED outcome
     ELSE IF c.otlp # None
     THEN Goto(Late, "build") /\ UNCHANGED <<job, outcome>>
     ELSE Return("ok") /\ UNCHANGED job
  /\ UNCHANGED <<setup, installed, record, lock, reply, running, limit>>

ExportersRejected_Unparsed == config.broken \in {"trace", "log"}
ExportersRejected ==
  config.otlp \in Malformed \/ config.broken \in {"trace", "log"}

\* attach() parses the filter and builds the trace and the log exporter.
BuildExporters ==
  /\ pc[Late] = "build"
  /\ IF ExportersRejected
     THEN Return("invalid")
     ELSE Goto(Late, "meter") /\ UNCHANGED outcome
  /\ UNCHANGED <<setup, installed, record, lock, job, reply, config, running,
                 limit>>

\* attach() builds the metric exporter; success sets the global meter provider.
BuildMeter ==
  /\ pc[Late] = "meter"
  /\ IF config.broken = "metric"
     THEN Return("invalid") /\ UNCHANGED running
     ELSE /\ running' = running \cup {"metrics"}
          /\ Goto(Late, "connect")
          /\ UNCHANGED outcome
  /\ UNCHANGED <<setup, installed, record, lock, job, reply, config, limit>>

FillSlots_SpansOnly == running' = running \cup {"spans"}
FillSlots ==
  running' = IF "spans" \in running THEN running
             ELSE running \cup {"spans", "logs"}

\* attach() fills the processor slots and sets the rate limit, then goes to
\* reload the OTLP filters.  A slot is filled at most once.
Connect ==
  /\ pc[Late] = "connect"
  /\ FillSlots
  /\ IF running \cap {"spans", "logs"} # {}
     THEN Return("unavailable") /\ UNCHANGED <<job, limit>>
     ELSE /\ limit' = config.limit
          /\ job' = [job EXCEPT ![Late] =
                       [domain |-> "otlp", filter |-> config.otlp]]
          /\ Goto(Late, "acquire")
          /\ UNCHANGED outcome
  /\ UNCHANGED <<setup, installed, record, lock, reply, config>>

\* Every request sent is answered and the late configuration has been applied.
Quiescent ==
  /\ \A a \in Actors : pc[a] = "done"
  /\ UNCHANGED vars

\* The steps of an actor that has started.
Change(a) == Acquire(a) \/ ReloadFirst(a) \/ ReloadSecond(a) \/ Record(a)
Handle(r) == NotFound(r) \/ ReadStdout(r) \/ ReadOtlp(r) \/ Change(r)
Attach    == BuildExporters \/ BuildMeter \/ Connect \/ Change(Late)

Next ==
  \/ \E r \in Requests : Send(r) \/ Handle(r)
  \/ \E c \in LateConfigs : Apply(c)
  \/ Attach
  \/ Quiescent

\* A handler, once started, is not suspended for ever: it has no await, and a
\* std mutex is held for finitely many steps.  Nobody has to send or apply.
Fairness ==
  /\ \A r \in Requests : WF_vars(Handle(r))
  /\ WF_vars(Attach)

Spec     == Init /\ [][Next]_vars
FairSpec == Spec /\ Fairness
-----------------------------------------------------------------------------
\* What LateConfiguration::validate accepts.
Validates_NoMetric(c) ==
  /\ {c.stdout, c.otlp} \cap Malformed = {}
  /\ c.otlp # None => c.broken \in {"none", "metric"}
Validates(c) ==
  /\ {c.stdout, c.otlp} \cap Malformed = {}
  /\ c.otlp # None => c.broken = "none"

\* An actor has changed the last layer of domain d but not yet its record.
Committed(a, d) == pc[a] = "record" /\ job[a].domain = d

\* The record of a domain names the expression its last layer filters with,
\* except while the writer that swapped that layer has yet to update it.
\* No order of updates through log control and of the late configuration, and
\* no reload that fails half way, leaves the record stale (reload_shared).
RecordIsInstalled ==
  \A d \in Domains :
    (record[d] # None /\ \A a \in Actors : ~Committed(a, d))
      => record[d] = installed[LastLayer(d)]

\* Whenever nobody is changing a domain, its two layers filter with the same
\* expression, provided the callback of the second one cannot fail after the
\* first has been swapped.
LayersAgree ==
  /\ Free("stdout") /\ setup.journald /\ "journald" \notin Breakable
       => installed.fmt = installed.journald
  /\ Free("otlp") /\ "log" \notin Breakable
       => installed.trace = installed.log

\* A deferred OTLP layer lets events through only once there is a destination
\* for every signal and the configured rate limit is in force (attach).
OpenMeansReady ==
  Deferred /\ (installed.trace # Off \/ installed.log # Off)
    => running = Signals /\ limit = config.limit

\* "A failed attach leaves the layers filtered off": when the late
\* configuration fails, no signal reaches an exporter, the layers are closed
\* and unlimited, and log control still finds the OTLP domain absent.  The
\* callbacks of the OTLP layers are taken not to fail: the reload is the last
\* fallible step, after the slots are filled.
FailedApplyStartsNothing ==
  /\ Deferred
  /\ {"trace", "log"} \cap Breakable = {}
  /\ outcome \notin {"none", "ok"}
  => /\ running = {}
     /\ limit = Unlimited
     /\ record.otlp = None
     /\ installed.trace = Off /\ installed.log = Off

\* A configuration validate() accepts is applied, when there is a slot, the
\* slot has what the configuration asks for and no layer handle fails.
ValidatedIsApplied ==
  /\ Breakable = {}
  /\ outcome # "none"
  /\ setup.late
  /\ config.otlp # None => Deferred
  /\ Validates(config)
  => outcome = "ok"

\* The strengthening that makes the safety properties inductive.

Writing(a) == pc[a] \in {"acquire", "first", "second", "record"}
Holding(a) == pc[a] \in {"first", "second", "record"}

\* Where each kind of actor can be, and what it needs to be there.
ControlInv ==
  /\ \A r \in Requests : pc[r] \notin {"build", "meter", "connect"}
  /\ pc[Late] \notin {"readStdout", "readOtlp"}
  /\ pc[Late] # "new" => config \in Configs
  /\ pc[Late] \in {"build", "meter", "connect"} => config.otlp \in Filters
  /\ \A a \in Actors :
       /\ Writing(a) => job[a] \in [domain : Domains, filter : Filters]
       /\ pc[a] \in {"second", "record"} => job[a].filter \in WellFormed

\* A domain is locked by the one actor that is changing it.
LockInv ==
  \A a \in Actors, d \in Domains :
    lock[d] = a <=> Holding(a) /\ job[a].domain = d

\* A layer passed by a writer filters with what the writer asked for.
SwapInv ==
  \A a \in Actors :
    /\ pc[a] \in {"second", "record"}
         => installed[FirstLayer(job[a].domain)] = job[a].filter
    /\ pc[a] = "record"
         => installed[LastLayer(job[a].domain)] = job[a].filter

\* Only a writer between its two reloads separates the layers of a domain.
AgreeInv ==
  \A d \in Domains :
    LastLayer(d) \notin Breakable
      => \/ installed[FirstLayer(d)] = installed[LastLayer(d)]
         \/ \E a \in Actors : pc[a] = "second" /\ job[a].domain = d

\* The inductive invariant behind RecordIsInstalled and LayersAgree.
Inv ==
  /\ TypeOK
  /\ ControlInv
  /\ LockInv
  /\ SwapInv
  /\ AgreeInv
  /\ RecordIsInstalled

\* Nobody waits for ever: every request sent is answered, and
\* apply_late_configuration returns, whatever the others do meanwhile.
EveryoneReturns == \A a \in Actors : pc[a] # "new" ~> pc[a] = "done"

-----------------------------------------------------------------------------
(* What FilterDomains sees: a domain changes when its last layer is swapped. *)

activeBar ==
  [stdout |-> installed[LastLayer("stdout")],
   otlp   |-> IF record.otlp = None /\ ~Committed(Late, "otlp")
              THEN None ELSE installed.log]

answerBar ==
  [r \in Requests |->
     IF pc[r] = "record"
     THEN [reply[r] EXCEPT ![job[r].domain] = job[r].filter]
     ELSE reply[r]]

askedBar == [r \in Requests |-> job[r]]

Unreliable ==
  {d \in Domains : Breakable \cap (IF d = "otlp" THEN {"trace", "log"}
                                    ELSE {"fmt", "journald"}) # {}}

Promise == INSTANCE FilterDomains
  WITH active <- activeBar, answer <- answerBar, asked <- askedBar,
       pinned <- setup.fromEnv

\* Updates take effect atomically, a response reports expressions that were
\* active when they were read, a refused update changes nothing, the late
\* configuration never overrides the environment, and the OTLP domain appears
\* exactly once.
ImplementsDomains == Promise!Spec
=============================================================================
