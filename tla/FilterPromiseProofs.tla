-------------------------- MODULE FilterPromiseProofs --------------------------
(***************************************************************************)
(* What filter control promises its users, for any number of requests, any *)
(* expressions, any late configuration and any layers that may fail: a     *)
(* late configuration opens the deferred layers only onto exporters, and   *)
(* leaves nothing started when it fails; and FilterControl implements      *)
(* FilterDomains.                                                          *)
(*                                                                         *)
(* Both rest on the inductive invariant Inv of FilterControl, and on       *)
(* AttachInv and ReplyInv, which follow apply_late_configuration and the   *)
(* response to each request.                                               *)
(***************************************************************************)
EXTENDS FilterControlProofs

USE ValueAssumption, ActorAssumption, ChoiceAssumption, JobAssumption

-----------------------------------------------------------------------------
(* The late configuration *)

\* What apply_late_configuration has settled by the time it is under way.
ApplyingInv ==
  /\ (outcome = "none") <=> (pc[Late] # "done")
  /\ pc[Late] \notin {"new", "done"} =>
       /\ setup.late
       /\ config.otlp # None => Deferred
  /\ Writing(Late) =>
       /\ job[Late].filter = config[job[Late].domain]
       /\ job[Late].domain = "stdout" => ~setup.fromEnv
  /\ \/ pc[Late] \in {"meter", "connect"}
     \/ Writing(Late) /\ job[Late].domain = "otlp"
     => config.otlp \in WellFormed /\ config.broken \notin {"trace", "log"}

\* A request holds the OTLP domain only once it is recorded, for good.
OtlpHeldInv ==
  \A r \in Requests : Holding(r) /\ job[r].domain = "otlp" => record.otlp # None

Untouched ==
  /\ limit = Unlimited
  /\ record.otlp = None
  /\ installed.trace = Off /\ installed.log = Off

Connected == running = Signals /\ limit = config.limit

\* How far the deferred layers have come: untouched until attach() connects
\* them, connected and not yet recorded while their filters are reloaded.
StageInv ==
  Deferred =>
    /\ pc[Late] \in {"new", "build", "meter", "connect"} => Untouched
    /\ Writing(Late) /\ job[Late].domain = "stdout" => Untouched /\ running = {}
    /\ pc[Late] \in {"new", "build", "meter"} => running = {}
    /\ pc[Late] = "connect" => running = {"metrics"}
    /\ Writing(Late) /\ job[Late].domain = "otlp"
         => Connected /\ record.otlp = None
    /\ pc[Late] = "done" => Connected \/ (Untouched /\ running = {})

AttachInv ==
  /\ ApplyingInv
  /\ OtlpHeldInv
  /\ StageInv
  /\ FailedApplyStartsNothing
  /\ ValidatedIsApplied

\* Nothing has been applied yet.
LEMMA AttachInit == Init => AttachInv
<1> SUFFICES ASSUME Init PROVE AttachInv
  OBVIOUS
<1> USE DEF Init
<1>1. \A a \in Actors : ~Writing(a) /\ ~Holding(a) /\ pc[a] = "new"
  BY DEF Writing, Holding
<1>2. ApplyingInv
  BY <1>1 DEF ApplyingInv, Actors
<1>3. OtlpHeldInv
  BY <1>1 DEF OtlpHeldInv, Actors
<1>4. StageInv
  BY <1>1 DEF StageInv, Untouched, Deferred, Layers, Actors
<1> QED
  BY <1>2, <1>3, <1>4 DEF AttachInv, FailedApplyStartsNothing,
     ValidatedIsApplied

\* What a request must leave alone for the late configuration not to notice it.
LEMMA BystanderInv ==
  ASSUME Inv, AttachInv,
         UNCHANGED <<setup, config, outcome, running, limit, pc[Late], job[Late]>>,
         record.otlp = None
           => UNCHANGED <<installed.trace, installed.log, record.otlp>>,
         OtlpHeldInv'
  PROVE  AttachInv'
<1>1. ApplyingInv'
  BY DEF AttachInv, ApplyingInv, Writing, Deferred
<1>2. record.otlp # None /\ Deferred => pc[Late] = "done" /\ Connected
  <2>1. pc[Late] \in Locations \ {"readStdout", "readOtlp"}
    BY DEF Inv, TypeOK, ControlInv, Actors
  <2>2. Writing(Late) => job[Late].domain \in {"stdout", "otlp"}
    BY DEF Inv, ControlInv, Actors, Domains
  <2> QED
    BY <2>1, <2>2 DEF AttachInv, StageInv, Untouched, Writing, Locations
<1>3. StageInv'
  BY <1>2 DEF AttachInv, StageInv, Untouched, Connected, Writing, Deferred
<1>4. FailedApplyStartsNothing'
  BY DEF AttachInv, FailedApplyStartsNothing, Deferred
<1>5. ValidatedIsApplied'
  BY DEF AttachInv, ValidatedIsApplied, Deferred, Validates
<1> QED
  BY <1>1, <1>3, <1>4, <1>5 DEF AttachInv

\* No step of a request is a step of the late configuration, and the OTLP
\* layers are out of its reach until they are recorded.
LEMMA RequestAttachInv ==
  ASSUME Inv, AttachInv, NEW r \in Requests, Send(r) \/ Handle(r)
  PROVE  AttachInv'
<1>0. Late # r /\ r \in Actors /\ Late \in Actors
  BY DEF Actors
<1>1. CASE Send(r) \/ NotFound(r) \/ ReadStdout(r) \/ ReadOtlp(r)
  <2>1. /\ UNCHANGED <<setup, config, outcome, running, limit, installed, record>>
        /\ UNCHANGED <<pc[Late], job[Late]>>
        /\ \A q \in Requests \ {r} : UNCHANGED <<pc[q], job[q]>>
        /\ pc'[r] \notin {"first", "second", "record"}
    <3>1. CASE Send(r)
      BY <1>0, <3>1 DEF Inv, TypeOK, Send, Goto, Actors
    <3>2. CASE NotFound(r)
      BY <1>0, <3>2 DEF Inv, TypeOK, NotFound, Goto, Respond, Actors
    <3>3. CASE ReadStdout(r)
      BY <1>0, <3>3 DEF Inv, TypeOK, ReadStdout, Goto, Actors
    <3>4. CASE ReadOtlp(r)
      BY <1>0, <3>4 DEF Inv, TypeOK, ReadOtlp, Goto, Actors
    <3> QED
      BY <1>1, <3>1, <3>2, <3>3, <3>4
  <2>2. OtlpHeldInv'
    BY <2>1 DEF AttachInv, OtlpHeldInv, Holding
  <2> QED
    BY <2>1, <2>2, BystanderInv
<1>2. CASE Acquire(r)
  <2>1. /\ UNCHANGED <<setup, config, outcome, running, limit, installed, record>>
        /\ UNCHANGED <<pc[Late], job>>
        /\ \A q \in Requests \ {r} : pc'[q] = pc[q]
        /\ record[job[r].domain] # None
    BY <1>0, <1>2 DEF Inv, TypeOK, Acquire, Goto
  <2>2. OtlpHeldInv'
    BY <2>1 DEF AttachInv, OtlpHeldInv, Holding
  <2> QED
    BY <2>1, <2>2, BystanderInv
<1>3. CASE ReloadFirst(r) \/ ReloadSecond(r)
  <2>1. /\ UNCHANGED <<setup, config, outcome, running, limit, record>>
        /\ UNCHANGED <<pc[Late], job>>
        /\ \A q \in Requests \ {r} : pc'[q] = pc[q]
        /\ Holding(r)
    <3>1. CASE ReloadFirst(r)
      BY <1>0, <3>1 DEF Inv, TypeOK, ReloadFirst, FailReload, Goto, Respond,
         Holding, Actors
    <3>2. CASE ReloadSecond(r)
      BY <1>0, <3>2 DEF Inv, TypeOK, ReloadSecond, FailReload, Goto, Respond,
         Holding, Actors
    <3> QED
      BY <1>3, <3>1, <3>2
  <2>2. job[r].domain = "stdout" => UNCHANGED <<installed.trace, installed.log>>
    BY <1>0, <1>3 DEF Inv, TypeOK, ReloadFirst, ReloadSecond, Swap, FailReload,
       FirstLayer, LastLayer, Layers
  <2>3. job[r].domain \in Domains
    BY <1>0, <2>1 DEF Inv, ControlInv, Writing, Holding
  <2>4. OtlpHeldInv'
    BY <2>1 DEF AttachInv, OtlpHeldInv, Holding
  <2> QED
    BY <2>1, <2>2, <2>3, <2>4, BystanderInv DEF AttachInv, OtlpHeldInv, Domains
<1>4. CASE Record(r)
  <2>1. /\ UNCHANGED <<setup, config, outcome, running, limit, installed>>
        /\ UNCHANGED <<pc[Late], job>>
        /\ \A q \in Requests \ {r} : pc'[q] = pc[q]
        /\ pc'[r] \in {"readStdout", "readOtlp"}
        /\ Holding(r)
    BY <1>0, <1>4 DEF Inv, TypeOK, Record, Goto, Holding, Actors
  <2>2. job[r] \in [domain : Domains, filter : Filters]
    BY <1>0, <2>1 DEF Inv, ControlInv, Writing, Holding
  <2>3. /\ job[r].domain = "stdout" => record'.otlp = record.otlp
        /\ job[r].domain = "otlp" => record.otlp # None /\ record'.otlp # None
    BY <1>4, <2>1, <2>2 DEF Inv, TypeOK, AttachInv, OtlpHeldInv, Record
  <2>4. OtlpHeldInv'
    BY <2>1, <2>2, <2>3 DEF AttachInv, OtlpHeldInv, Holding, Domains
  <2> QED
    BY <2>1, <2>2, <2>3, <2>4, BystanderInv DEF Domains
<1> QED
  BY <1>1, <1>2, <1>3, <1>4 DEF Handle, Change

\* A step of the late configuration gives no request the OTLP domain.
LEMMA LateHoldsNothingForOthers ==
  ASSUME Inv, AttachInv,
         \A r \in Requests : UNCHANGED <<pc[r], job[r]>>,
         record.otlp # None => record'.otlp # None
  PROVE  OtlpHeldInv'
BY DEF AttachInv, OtlpHeldInv, Holding

\* A configuration is refused as a whole, or its first part is under way.
LEMMA ApplyAttachInv ==
  ASSUME Inv, AttachInv, NEW c \in LateConfigs, Apply(c)
  PROVE  AttachInv'
<1> USE DEF Apply, Goto, Return, AppliesStdout
<1>0. /\ c \in Configs
      /\ pc \in [Actors -> Locations] /\ job \in [Actors -> Jobs \cup {None}]
      /\ Late \in Actors /\ \A r \in Requests : r \in Actors /\ r # Late
  BY DEF Inv, TypeOK, Actors
<1>1. ApplyingInv'
  BY <1>0 DEF AttachInv, ApplyingInv, Writing, Deferred, Configs
<1>2. OtlpHeldInv'
  BY <1>0, LateHoldsNothingForOthers
<1>3. StageInv'
  BY <1>0 DEF AttachInv, StageInv, Untouched, Connected, Writing, Deferred
<1>4. FailedApplyStartsNothing'
  BY <1>0 DEF AttachInv, StageInv, Untouched, FailedApplyStartsNothing, Deferred
<1>5. ValidatedIsApplied'
  BY <1>0 DEF AttachInv, ApplyingInv, ValidatedIsApplied, Deferred
<1> QED
  BY <1>1, <1>2, <1>3, <1>4, <1>5 DEF AttachInv

\* Nothing is connected while the exporters are built.
LEMMA BuildExportersAttachInv ==
  ASSUME Inv, AttachInv, BuildExporters
  PROVE  AttachInv'
<1> USE DEF BuildExporters, ExportersRejected, Goto, Return
<1>0. /\ pc \in [Actors -> Locations]
      /\ Late \in Actors /\ \A r \in Requests : r \in Actors /\ r # Late
      /\ config.otlp \in Filters
  BY DEF Inv, TypeOK, ControlInv, Actors
<1>1. ApplyingInv'
  BY <1>0 DEF AttachInv, ApplyingInv, Writing, Deferred, Filters
<1>2. OtlpHeldInv'
  BY <1>0, LateHoldsNothingForOthers
<1>3. StageInv'
  BY <1>0 DEF AttachInv, StageInv, Untouched, Connected, Writing, Deferred
<1>4. FailedApplyStartsNothing'
  BY <1>0 DEF AttachInv, StageInv, Untouched, FailedApplyStartsNothing, Deferred
<1>5. ValidatedIsApplied'
  BY <1>0 DEF AttachInv, ApplyingInv, ValidatedIsApplied, Validates, Deferred
<1> QED
  BY <1>1, <1>2, <1>3, <1>4, <1>5 DEF AttachInv

\* The meter provider starts one of the three pipelines, the layers still off.
LEMMA BuildMeterAttachInv ==
  ASSUME Inv, AttachInv, BuildMeter
  PROVE  AttachInv'
<1> USE DEF BuildMeter, Goto, Return
<1>0. /\ pc \in [Actors -> Locations]
      /\ Late \in Actors /\ \A r \in Requests : r \in Actors /\ r # Late
      /\ config.otlp \in Filters
  BY DEF Inv, TypeOK, ControlInv, Actors
<1>1. ApplyingInv'
  BY <1>0 DEF AttachInv, ApplyingInv, Writing, Deferred
<1>2. OtlpHeldInv'
  BY <1>0, LateHoldsNothingForOthers
<1>3. StageInv'
  BY <1>0 DEF AttachInv, StageInv, Untouched, Connected, Writing, Deferred
<1>4. FailedApplyStartsNothing'
  BY <1>0 DEF AttachInv, ApplyingInv, StageInv, Untouched,
     FailedApplyStartsNothing,
     Deferred
<1>5. ValidatedIsApplied'
  BY <1>0 DEF AttachInv, ApplyingInv, ValidatedIsApplied, Validates, Deferred
<1> QED
  BY <1>1, <1>2, <1>3, <1>4, <1>5 DEF AttachInv

\* The slots are empty when attach() comes to fill them, so it fills them all
\* and limits the layer before it goes on to the filters.
LEMMA ConnectAttachInv ==
  ASSUME Inv, AttachInv, Connect
  PROVE  AttachInv'
<1>0. /\ pc \in [Actors -> Locations] /\ job \in [Actors -> Jobs \cup {None}]
      /\ Late \in Actors /\ \A r \in Requests : r \in Actors /\ r # Late
      /\ config.otlp \in Filters /\ config.otlp # None
  BY DEF Inv, TypeOK, ControlInv, Actors, Connect
<1>1. /\ Deferred /\ Untouched
      /\ running = {"metrics"}
      /\ config.otlp \in WellFormed /\ config.broken \notin {"trace", "log"}
  BY <1>0 DEF AttachInv, ApplyingInv, StageInv, Connect
<1>2. /\ running' = Signals
      /\ limit' = config.limit
      /\ pc' = [pc EXCEPT ![Late] = "acquire"]
      /\ job' = [job EXCEPT ![Late] = [domain |-> "otlp", filter |-> config.otlp]]
      /\ UNCHANGED <<setup, installed, record, config, outcome>>
  BY <1>1 DEF Connect, FillSlots, Goto, Signals
<1>3. pc'[Late] = "acquire" /\ job'[Late] = [domain |-> "otlp", filter |-> config.otlp]
  BY <1>0, <1>2
<1>4. ApplyingInv'
  BY <1>1, <1>2, <1>3 DEF AttachInv, ApplyingInv, Writing, Deferred, Connect
<1>5. OtlpHeldInv'
  BY <1>0, <1>2, LateHoldsNothingForOthers
<1>6. StageInv'
  BY <1>1, <1>2, <1>3 DEF StageInv, Untouched, Connected, Writing, Deferred
<1>7. FailedApplyStartsNothing' /\ ValidatedIsApplied'
  BY <1>2, <1>3, <1>4 DEF ApplyingInv, FailedApplyStartsNothing,
     ValidatedIsApplied
<1> QED
  BY <1>4, <1>5, <1>6, <1>7 DEF AttachInv

\* The late configuration takes the lock of the domain it is to change.
LEMMA LateAcquireAttachInv ==
  ASSUME Inv, AttachInv, Acquire(Late)
  PROVE  AttachInv'
<1> USE DEF Acquire, Goto
<1>0. /\ pc \in [Actors -> Locations]
      /\ Late \in Actors /\ \A r \in Requests : r \in Actors /\ r # Late
  BY DEF Inv, TypeOK, Actors
<1>1. ApplyingInv'
  BY <1>0 DEF AttachInv, ApplyingInv, Writing, Deferred
<1>2. OtlpHeldInv'
  BY <1>0, LateHoldsNothingForOthers
<1>3. StageInv'
  BY <1>0 DEF AttachInv, StageInv, Untouched, Connected, Writing, Deferred
<1>4. FailedApplyStartsNothing' /\ ValidatedIsApplied'
  BY <1>0, <1>1 DEF ApplyingInv, FailedApplyStartsNothing, ValidatedIsApplied
<1> QED
  BY <1>1, <1>2, <1>3, <1>4 DEF AttachInv

\* A reload that fails ends the late configuration.  It was that of an invalid
\* expression or of a layer that may fail.
LEMMA LateFailAttachInv ==
  ASSUME Inv, AttachInv, NEW l,
         \/ pc[Late] = "first" /\ l = FirstLayer(job[Late].domain)
         \/ pc[Late] = "second" /\ l = LastLayer(job[Late].domain),
         FailReload(Late, l)
  PROVE  AttachInv'
<1> USE DEF FailReload, Goto, Return
<1>0. /\ pc \in [Actors -> Locations]
      /\ Late \in Actors /\ \A r \in Requests : r \in Actors /\ r # Late
      /\ job[Late] \in [domain : {"stdout", "otlp"}, filter : Filters]
      /\ Writing(Late) /\ config \in Configs
  BY DEF Inv, TypeOK, ControlInv, Actors, Writing, Domains
<1>1. ApplyingInv'
  BY <1>0 DEF AttachInv, ApplyingInv, Writing, Deferred
<1>2. OtlpHeldInv'
  BY <1>0, LateHoldsNothingForOthers
<1>3. StageInv'
  BY <1>0 DEF AttachInv, StageInv, Untouched, Connected, Writing, Deferred
<1>4. FailedApplyStartsNothing'
  <2>1. CASE job[Late].domain = "stdout"
    BY <1>0, <2>1 DEF AttachInv, StageInv, Untouched, FailedApplyStartsNothing,
       Deferred
  <2>2. CASE job[Late].domain = "otlp"
    <3>1. l \in {"trace", "log"} /\ job[Late].filter \in WellFormed
      BY <1>0, <2>2 DEF AttachInv, ApplyingInv, FirstLayer, LastLayer
    <3> QED
      BY <3>1 DEF FailedApplyStartsNothing
  <2> QED
    BY <1>0, <2>1, <2>2
<1>5. ValidatedIsApplied'
  <2> SUFFICES ASSUME Breakable = {}, Validates(config)
               PROVE  FALSE
    BY DEF ValidatedIsApplied, Validates
  <2>1. job[Late].filter = config.stdout \/ job[Late].filter = config.otlp
    BY <1>0 DEF AttachInv, ApplyingInv
  <2> QED
    BY <2>1 DEF Validates
<1> QED
  BY <1>1, <1>2, <1>3, <1>4, <1>5 DEF AttachInv

\* The OTLP layers are reloaded only once they are connected.
LEMMA LateReloadAttachInv ==
  ASSUME Inv, AttachInv, ReloadFirst(Late) \/ ReloadSecond(Late)
  PROVE  AttachInv'
<1> DEFINE d == job[Late].domain
           Reload(l) == /\ Swap(Late, l)
                        /\ pc'[Late] \in {"second", "record"}
                        /\ \A r \in Requests : pc'[r] = pc[r]
                        /\ UNCHANGED <<setup, record, lock, job, reply, config,
                                       outcome, running, limit>>
<1>0. /\ pc \in [Actors -> Locations]
      /\ Late \in Actors /\ \A r \in Requests : r \in Actors /\ r # Late
      /\ d \in {"stdout", "otlp"} /\ Writing(Late) /\ Holding(Late)
  BY DEF Inv, TypeOK, ControlInv, ReloadFirst, ReloadSecond, Actors, Writing,
     Holding, Domains
<1>1. CASE \E l \in {FirstLayer(d), LastLayer(d)} : Reload(l)
  <2>1. /\ Writing(Late)' /\ d' = d
        /\ pc'[Late] \notin {"new", "build", "meter", "connect", "done"}
        /\ UNCHANGED <<setup, record, job, config, outcome, running, limit>>
    BY <1>1 DEF Writing
  <2>2. d = "stdout" => UNCHANGED <<installed.trace, installed.log>>
    BY <1>1 DEF Inv, TypeOK, Swap, FirstLayer, LastLayer, Layers
  <2>3. ApplyingInv'
    BY <1>0, <2>1 DEF AttachInv, ApplyingInv, Writing, Deferred
  <2>4. OtlpHeldInv'
    BY <1>1, <2>1, LateHoldsNothingForOthers
  <2>5. StageInv'
    BY <1>0, <2>1, <2>2 DEF AttachInv, StageInv, Untouched, Connected, Deferred
  <2>6. FailedApplyStartsNothing' /\ ValidatedIsApplied'
    BY <2>1, <2>3 DEF ApplyingInv, FailedApplyStartsNothing, ValidatedIsApplied
  <2> QED
    BY <2>3, <2>4, <2>5, <2>6 DEF AttachInv
<1>2. CASE \E l : /\ \/ pc[Late] = "first" /\ l = FirstLayer(d)
                     \/ pc[Late] = "second" /\ l = LastLayer(d)
                  /\ FailReload(Late, l)
  BY <1>2, LateFailAttachInv
<1> QED
  BY <1>0, <1>1, <1>2 DEF ReloadFirst, ReloadSecond, Goto

\* The record of the OTLP domain appears once the layers are connected.
LEMMA LateRecordAttachInv ==
  ASSUME Inv, AttachInv, Record(Late)
  PROVE  AttachInv'
<1> USE DEF Record, Goto, Return
<1>0. /\ pc \in [Actors -> Locations]
      /\ Late \in Actors /\ \A r \in Requests : r \in Actors /\ r # Late
      /\ job[Late] \in [domain : {"stdout", "otlp"}, filter : WellFormed]
      /\ Writing(Late)
      /\ record \in [stdout : WellFormed, otlp : WellFormed \cup {None}]
  BY DEF Inv, TypeOK, ControlInv, Actors, Writing, Domains
<1>1. ApplyingInv'
  BY <1>0 DEF AttachInv, ApplyingInv, Writing, Deferred
<1>2. OtlpHeldInv'
  <2>1. \A r \in Requests : UNCHANGED <<pc[r], job[r]>>
    BY <1>0
  <2>2. record'.otlp = IF job[Late].domain = "otlp" THEN job[Late].filter
                       ELSE record.otlp
    BY <1>0
  <2>3. job[Late].filter # None
    BY <1>0 DEF Filters
  <2> QED
    BY <2>1, <2>2, <2>3, LateHoldsNothingForOthers
<1>3. StageInv'
  BY <1>0 DEF AttachInv, StageInv, Untouched, Connected, Writing, Deferred
<1>4. FailedApplyStartsNothing'
  BY <1>0 DEF AttachInv, ApplyingInv, FailedApplyStartsNothing, Deferred
<1>5. ValidatedIsApplied'
  BY <1>0 DEF AttachInv, ApplyingInv, ValidatedIsApplied
<1> QED
  BY <1>1, <1>2, <1>3, <1>4, <1>5 DEF AttachInv

\* Every step keeps to the stages of attach().
LEMMA AttachNext ==
  ASSUME Inv, AttachInv, [Next]_vars
  PROVE  AttachInv'
<1>1. ASSUME NEW r \in Requests, Send(r) \/ Handle(r) PROVE AttachInv'
  BY <1>1, RequestAttachInv
<1>2. ASSUME NEW c \in LateConfigs, Apply(c) PROVE AttachInv'
  BY <1>2, ApplyAttachInv
<1>3. CASE Attach
  BY <1>3, BuildExportersAttachInv, BuildMeterAttachInv, ConnectAttachInv,
     LateAcquireAttachInv, LateReloadAttachInv, LateRecordAttachInv
  DEF Attach, Change
<1>4. CASE UNCHANGED vars
  BY <1>4 DEF vars, AttachInv, ApplyingInv, OtlpHeldInv, StageInv, Untouched,
     Connected,
     FailedApplyStartsNothing, ValidatedIsApplied, Validates, Deferred, Writing, Holding
<1> QED
  BY <1>1, <1>2, <1>3, <1>4 DEF Next, Quiescent

\* Every step of apply_late_configuration, and of the requests around it, keeps
\* to the stages of attach().
THEOREM AttachInvariance == Spec => [](Inv /\ AttachInv)
<1>1. Init => Inv /\ AttachInv
  BY InitInv, AttachInit
<1>2. Inv /\ AttachInv /\ [Next]_vars => (Inv /\ AttachInv)'
  BY NextInv, AttachNext
<1> QED
  BY <1>1, <1>2, PTL DEF Spec

\* A deferred OTLP layer lets events through only with a destination for every
\* signal and the configured rate limit in force.
THEOREM OpenLayersAreReady == Spec => []OpenMeansReady
<1>1. Inv /\ AttachInv => OpenMeansReady
  <2> SUFFICES ASSUME Inv, AttachInv, Deferred,
                      installed.trace # Off \/ installed.log # Off
               PROVE  Connected
    BY DEF OpenMeansReady, Connected
  <2>1. pc[Late] \in Locations \ {"readStdout", "readOtlp"}
    BY DEF Inv, TypeOK, ControlInv, Actors
  <2>2. Writing(Late) => job[Late].domain \in {"stdout", "otlp"}
    BY DEF Inv, ControlInv, Actors, Domains
  <2> QED
    BY <2>1, <2>2 DEF AttachInv, StageInv, Untouched, Writing, Locations
<1> QED
  BY <1>1, AttachInvariance, PTL

\* A late configuration that fails leaves the layers off and unlimited, no
\* pipeline running and the OTLP domain absent.
THEOREM FailureStartsNothing == Spec => []FailedApplyStartsNothing
<1>1. AttachInv => FailedApplyStartsNothing
  BY DEF AttachInv
<1> QED
  BY <1>1, AttachInvariance, PTL

\* What validate() accepts can be applied.
THEOREM ValidationSuffices == Spec => []ValidatedIsApplied
<1>1. AttachInv => ValidatedIsApplied
  BY DEF AttachInv
<1> QED
  BY <1>1, AttachInvariance, PTL

-----------------------------------------------------------------------------
(* Requests and their responses *)

\* A response is blank until its request has changed or read a domain, and open
\* until it has both expressions.
ReplyFits(r) ==
  /\ pc[r] = "new" => job[r] = None
  /\ pc[r] # "new" => job[r] \in Jobs
  /\ pc[r] = "new" \/ Writing(r) => reply[r] = Blank
  /\ pc[r] \in {"readStdout", "readOtlp"} => reply[r].status = "open"
  /\ pc[r] = "readStdout" =>
       /\ reply[r].stdout = Unread
       /\ (reply[r].otlp = Unread) <=> (job[r] = Reading)
  /\ pc[r] = "readOtlp" => reply[r].otlp = Unread /\ reply[r].stdout # Unread

ReplyInv == \A r \in Requests : ReplyFits(r)

\* No request has been sent.
LEMMA ReplyInit == Init => ReplyInv
BY DEF Init, ReplyInv, ReplyFits, Writing, Actors

\* A step that is not one of request r.
LEMMA ReplyKept ==
  ASSUME ReplyInv, NEW r \in Requests, UNCHANGED <<pc[r], job[r], reply[r]>>
  PROVE  ReplyFits(r)'
BY DEF ReplyInv, ReplyFits, Writing

\* A step of a request leaves the other requests and the late configuration
\* alone.
LEMMA OneRequest ==
  ASSUME Inv, NEW r \in Requests, Send(r) \/ Handle(r)
  PROVE  /\ \A q \in Requests \ {r} : UNCHANGED <<pc[q], job[q], reply[q]>>
         /\ UNCHANGED <<setup, pc[Late], job[Late]>>
<1> USE DEF Inv, TypeOK, Actors, Goto, Respond
<1>1. CASE Send(r)
  BY <1>1 DEF Send
<1>2. CASE NotFound(r)
  BY <1>2 DEF NotFound
<1>3. CASE ReadStdout(r)
  BY <1>3 DEF ReadStdout
<1>4. CASE ReadOtlp(r)
  BY <1>4 DEF ReadOtlp
<1>5. CASE Acquire(r)
  BY <1>5 DEF Acquire
<1>6. CASE ReloadFirst(r)
  BY <1>6 DEF ReloadFirst, FailReload
<1>7. CASE ReloadSecond(r)
  BY <1>7 DEF ReloadSecond, FailReload
<1>8. CASE Record(r)
  BY <1>8 DEF Record
<1> QED
  BY <1>1, <1>2, <1>3, <1>4, <1>5, <1>6, <1>7, <1>8 DEF Handle, Change

\* The late configuration leaves every request alone.
LEMMA NoRequest ==
  ASSUME Inv, (\E c \in LateConfigs : Apply(c)) \/ Attach
  PROVE  \A q \in Requests : UNCHANGED <<pc[q], job[q], reply[q]>>
<1> USE DEF Inv, TypeOK, Actors, Goto, Return
<1>1. CASE \E c \in LateConfigs : Apply(c)
  BY <1>1 DEF Apply
<1>2. CASE BuildExporters \/ BuildMeter \/ Connect
  BY <1>2 DEF BuildExporters, BuildMeter, Connect
<1>3. CASE Acquire(Late)
  BY <1>3 DEF Acquire
<1>4. CASE ReloadFirst(Late)
  BY <1>4 DEF ReloadFirst, FailReload
<1>5. CASE ReloadSecond(Late)
  BY <1>5 DEF ReloadSecond, FailReload
<1>6. CASE Record(Late)
  BY <1>6 DEF Record
<1> QED
  BY <1>1, <1>2, <1>3, <1>4, <1>5, <1>6 DEF Attach, Change

\* The next response of a request that takes a step.
LEMMA ReplyStep ==
  ASSUME Inv, ReplyInv, NEW r \in Requests, Send(r) \/ Handle(r)
  PROVE  ReplyFits(r)'
<1> USE DEF ReplyFits, Goto, Respond, Writing, Blank, Reading
<1>0. /\ pc \in [Actors -> Locations] /\ job \in [Actors -> Jobs \cup {None}]
      /\ reply \in [Requests -> Replies]
      /\ r \in Actors
      /\ Writing(r) => job[r] \in [domain : Domains, filter : Filters]
  BY DEF Inv, TypeOK, ControlInv, Actors
<1>1. CASE Send(r)
  BY <1>0, <1>1 DEF ReplyInv, Send
<1>2. CASE NotFound(r)
  BY <1>0, <1>2 DEF ReplyInv, NotFound
<1>3. CASE ReadStdout(r)
  <2>1. record.stdout # Unread
    BY DEF Inv, TypeOK, Filters
  <2>2. CASE job[r] = Reading
    <3>1. /\ pc'[r] = "readOtlp" /\ job' = job
          /\ reply'[r].status = reply[r].status
          /\ reply'[r].otlp = reply[r].otlp
          /\ reply'[r].stdout = record.stdout
      BY <1>0, <1>3, <2>2 DEF ReadStdout, Replies
    <3> QED
      BY <1>3, <2>1, <2>2, <3>1 DEF ReplyInv, ReadStdout
  <2>3. CASE job[r] # Reading
    <3>1. pc'[r] = "done" /\ job' = job
      BY <1>0, <1>3, <2>3 DEF ReadStdout
    <3> QED
      BY <1>3, <3>1 DEF ReplyInv, ReadStdout
  <2> QED
    BY <2>2, <2>3
<1>4. CASE ReadOtlp(r)
  BY <1>0, <1>4 DEF ReplyInv, ReadOtlp
<1>5. CASE Acquire(r)
  BY <1>0, <1>5 DEF ReplyInv, Acquire
<1>6. CASE ReloadFirst(r)
  BY <1>0, <1>6 DEF ReplyInv, ReloadFirst, FailReload
<1>7. CASE ReloadSecond(r)
  BY <1>0, <1>7 DEF ReplyInv, ReloadSecond, FailReload
<1>8. CASE Record(r)
  BY <1>0, <1>8 DEF ReplyInv, Record, Domains, Filters
<1> QED
  BY <1>1, <1>2, <1>3, <1>4, <1>5, <1>6, <1>7, <1>8 DEF Handle, Change

\* Every step keeps each response as far as its request has come.
LEMMA ReplyNext ==
  ASSUME Inv, ReplyInv, [Next]_vars
  PROVE  ReplyInv'
<1>1. ASSUME NEW r \in Requests, Send(r) \/ Handle(r) PROVE ReplyInv'
  BY <1>1, OneRequest, ReplyKept, ReplyStep DEF ReplyInv
<1>2. CASE (\E c \in LateConfigs : Apply(c)) \/ Attach
  BY <1>2, NoRequest, ReplyKept DEF ReplyInv
<1>3. CASE UNCHANGED vars
  BY <1>3, ReplyKept DEF vars, ReplyInv
<1> QED
  BY <1>1, <1>2, <1>3 DEF Next, Quiescent

-----------------------------------------------------------------------------
(* FilterControl implements FilterDomains *)

\* A domain nobody is changing is active with the expression it records, so
\* reading the record under its lock is reading the domain.
LEMMA ActiveIsRecorded ==
  ASSUME Inv, AttachInv, NEW d \in Domains, Free(d)
  PROVE  activeBar[d] = record[d]
<1>1. \A a \in Actors : ~Committed(a, d)
  BY DEF Inv, LockInv, Free, Committed, Holding
<1>2. record[d] # None => record[d] = installed[LastLayer(d)]
  BY <1>1 DEF Inv, RecordIsInstalled
<1>3. CASE d = "stdout"
  <2>1. record[d] # None
    BY <1>3 DEF Inv, TypeOK, Filters
  <2> QED
    BY <1>2, <1>3, <2>1 DEF activeBar
<1>4. CASE d = "otlp"
  BY <1>1, <1>2, <1>4 DEF activeBar, LastLayer, Actors
<1> QED
  BY <1>3, <1>4 DEF Domains

\* What a step must change for a domain to change.
LEMMA ActiveKept ==
  ASSUME UNCHANGED <<setup, installed, record.otlp>>,
         Committed(Late, "otlp")' <=> Committed(Late, "otlp")
  PROVE  activeBar' = activeBar
BY DEF activeBar, LastLayer

\* A step of a request changes no other response than its own.
LEMMA AnswerOfOne ==
  ASSUME Inv, NEW r \in Requests, Send(r) \/ Handle(r)
  PROVE  answerBar' = [answerBar EXCEPT ![r] = answerBar'[r]]
BY OneRequest DEF answerBar

\* Sending a request is asking.
LEMMA SendAsks ==
  ASSUME Inv, ReplyInv, NEW r \in Requests, Send(r)
  PROVE  Promise!Ask(r)
<1>1. PICK j \in Jobs : /\ job' = [job EXCEPT ![r] = j]
                       /\ Goto(r, IF j = Reading THEN "readStdout" ELSE "acquire")
  BY DEF Send
<1>2. j \in Promise!Asks
  BY <1>1 DEF Jobs, Reading, Filters, Domains, Promise!Asks, Promise!Domains
<1>3. askedBar[r] = None /\ askedBar' = [askedBar EXCEPT ![r] = j]
  BY <1>1 DEF Inv, TypeOK, ReplyInv, ReplyFits, Send, askedBar, Actors
<1>4. activeBar' = activeBar
  BY OneRequest, ActiveKept DEF Send, Committed
<1>5. answerBar'[r] = answerBar[r]
  BY <1>1 DEF Inv, TypeOK, Send, Goto, answerBar, Actors
<1>6. answerBar' = answerBar
  BY <1>5, AnswerOfOne DEF answerBar
<1> QED
  BY <1>2, <1>3, <1>4, <1>6 DEF Send, Promise!Ask

\* A request that is being handled keeps what it asks for.
LEMMA AskedKept ==
  ASSUME NEW r \in Requests, Handle(r)
  PROVE  askedBar' = askedBar
BY DEF Handle, Change, NotFound, ReadStdout, ReadOtlp, Acquire, ReloadFirst,
   ReloadSecond, Record, FailReload, askedBar

\* 404 is answered while the OTLP domain is not active.
LEMMA NotFoundImplements ==
  ASSUME Inv, AttachInv, ReplyInv, NEW r \in Requests, NotFound(r)
  PROVE  Promise!NotFound(r)
<1>1. /\ pc[r] = "acquire" /\ pc'[r] = "done"
      /\ reply'[r] = [reply[r] EXCEPT !.status = "notFound"]
      /\ reply[r] = Blank /\ job[r] # None
  BY DEF Inv, TypeOK, ReplyInv, ReplyFits, Writing, NotFound, Respond, Goto,
     Actors
<1>2. activeBar.otlp = None
  BY ActiveIsRecorded DEF NotFound, Domains
<1>3. activeBar' = activeBar /\ askedBar' = askedBar
  BY OneRequest, ActiveKept, AskedKept DEF NotFound, Committed, Handle
<1>4. answerBar' = [answerBar EXCEPT ![r].status = "notFound"]
  BY <1>1, AnswerOfOne DEF answerBar, Handle
<1>5. askedBar[r] # None /\ askedBar[r].domain = "otlp" /\ answerBar[r] = Blank
  BY <1>1 DEF NotFound, askedBar, answerBar
<1> QED
  BY <1>2, <1>3, <1>4, <1>5 DEF NotFound, Promise!NotFound, Promise!Blank, Blank

\* Taking a lock, swapping the first of two layers and writing the record are
\* steps nobody sees.
LEMMA AcquireIsSilent ==
  ASSUME Inv, NEW a \in Actors, Acquire(a)
  PROVE  UNCHANGED Promise!vars
<1>1. pc[a] # "record" /\ pc'[a] # "record" /\ \A b \in Actors \ {a} : pc'[b] = pc[b]
  BY DEF Inv, TypeOK, Acquire, Goto
<1>2. activeBar' = activeBar
  BY <1>1, ActiveKept DEF Acquire, Committed, Actors
<1>3. answerBar' = answerBar
  BY <1>1 DEF Acquire, answerBar, Actors
<1> QED
  BY <1>2, <1>3 DEF Acquire, askedBar, Promise!vars

\* Where a writer that swaps the last layer of its domain stands.
LEMMA SwapLast ==
  ASSUME Inv, NEW a \in Actors, NEW d, NEW f,
         d = job[a].domain, f = job[a].filter,
         Swap(a, LastLayer(d)), Goto(a, "record"), Holding(a),
         UNCHANGED <<setup, record, job, reply>>,
         record.otlp = None /\ d = "otlp" => a = Late
  PROVE  activeBar' = [activeBar EXCEPT ![d] = f]
<1>1. d \in {"stdout", "otlp"}
  BY DEF Inv, ControlInv, Holding, Writing, Domains
<1>2. \A b \in Actors \ {a} : pc'[b] = pc[b]
  BY DEF Inv, TypeOK, Goto
<1>3. pc'[a] = "record" /\ Late \in Actors
  BY DEF Inv, TypeOK, Goto, Actors
<1>4. CASE d = "stdout"
  <2>1. installed'[LastLayer("stdout")] = f /\ installed'["log"] = installed["log"]
    BY <1>4 DEF Inv, TypeOK, Swap, LastLayer, Layers
  <2>2. Committed(Late, "otlp")' <=> Committed(Late, "otlp")
    BY <1>2, <1>3, <1>4 DEF Committed, Holding, Inv, LockInv
  <2> QED
    BY <1>4, <2>1, <2>2 DEF activeBar, LastLayer
<1>5. CASE d = "otlp"
  <2>1. /\ installed'["log"] = f
        /\ installed'[LastLayer("stdout")] = installed[LastLayer("stdout")]
    BY <1>5 DEF Inv, TypeOK, Swap, LastLayer, Layers
  <2>2. record.otlp = None => Committed(Late, "otlp")'
    BY <1>3, <1>5 DEF Committed
  <2> QED
    BY <1>5, <2>1, <2>2 DEF activeBar, LastLayer
<1> QED
  BY <1>1, <1>4, <1>5

\* A domain being changed by a request is active.
LEMMA HeldIsActive ==
  ASSUME Inv, AttachInv, NEW r \in Requests, pc[r] \in {"first", "second"}
  PROVE  activeBar[job[r].domain] # None
<1> DEFINE d == job[r].domain
<1>0. r \in Actors /\ Holding(r) /\ d \in Domains
  BY DEF Inv, ControlInv, Holding, Writing, Actors
<1>1. \A a \in Actors : ~Committed(a, d)
  BY <1>0, Exclusion DEF Committed, Holding
<1>2. record[d] # None
  BY <1>0 DEF Inv, TypeOK, AttachInv, OtlpHeldInv, Domains, Filters
<1>3. record[d] = installed[LastLayer(d)]
  BY <1>0, <1>1, <1>2 DEF Inv, RecordIsInstalled
<1> QED
  BY <1>0, <1>2, <1>3 DEF activeBar, LastLayer, Domains

\* Swapping the last layer is the instant at which an update takes effect, and
\* commits the response to it.
LEMMA SwapPuts ==
  ASSUME Inv, AttachInv, ReplyInv, NEW r \in Requests,
         ReloadFirst(r) \/ ReloadSecond(r), pc[r] \in {"first", "second"},
         Swap(r, LastLayer(job[r].domain)), Goto(r, "record"),
         UNCHANGED <<setup, record, job, reply>>
  PROVE  Promise!Put(r)
<1> DEFINE d == job[r].domain
           f == job[r].filter
<1>0. /\ r \in Actors /\ Holding(r) /\ Writing(r) /\ r # Late
      /\ job[r] \in [domain : Domains, filter : Filters]
      /\ reply[r] = Blank /\ job[r] # None
  BY DEF Inv, ControlInv, ReplyInv, ReplyFits, Holding, Writing, Actors
<1>1. f \in WellFormed
  BY DEF Swap
<1>2. activeBar' = [activeBar EXCEPT ![d] = f]
  BY <1>0, SwapLast DEF AttachInv, OtlpHeldInv
<1>3. pc'[r] = "record" /\ reply' = reply /\ job' = job
  BY <1>0 DEF Inv, TypeOK, Goto
<1>4. answerBar' = [answerBar EXCEPT ![r] = [reply[r] EXCEPT ![d] = f]]
  BY <1>0, <1>3, AnswerOfOne DEF answerBar, Handle, Change
<1>5. answerBar[r] = reply[r]
  BY DEF answerBar
<1>6. activeBar[d] # None
  BY HeldIsActive
<1> QED
  BY <1>0, <1>1, <1>2, <1>3, <1>4, <1>5, <1>6
  DEF Promise!Put, Promise!Blank, Blank, askedBar

\* A failed callback refuses a malformed expression, or any expression of a
\* domain with a layer that may fail, and changes nothing.
LEMMA FailRefuses ==
  ASSUME Inv, ReplyInv, NEW r \in Requests,
         ReloadFirst(r) \/ ReloadSecond(r), pc[r] \in {"first", "second"},
         NEW l \in {FirstLayer(job[r].domain), LastLayer(job[r].domain)},
         FailReload(r, l)
  PROVE  Promise!Refuse(r)
<1>0. /\ r \in Actors /\ r # Late /\ Writing(r)
      /\ job[r] \in [domain : Domains, filter : Filters]
      /\ reply[r] = Blank /\ job[r] # None
  BY DEF Inv, ControlInv, ReplyInv, ReplyFits, Writing, Actors
<1>1. /\ pc'[r] = "done"
      /\ reply'[r] = [reply[r] EXCEPT !.status = "refused"]
  BY <1>0 DEF Inv, TypeOK, FailReload, Respond, Goto
<1>2. job[r].filter \in Malformed \/ job[r].domain \in Unreliable
  BY <1>0 DEF FailReload, Unreliable, FirstLayer, LastLayer, Domains
<1>3. activeBar' = activeBar
  BY OneRequest, ActiveKept DEF FailReload, Committed, Handle, Change
<1>4. answerBar' = [answerBar EXCEPT ![r].status = "refused"]
  BY <1>1, AnswerOfOne DEF answerBar, Handle, Change
<1>5. askedBar' = askedBar /\ setup' = setup
  BY DEF FailReload, askedBar
<1>6. job[r].filter # None /\ answerBar[r] = Blank
  BY <1>0 DEF answerBar
<1> QED
  BY <1>0, <1>2, <1>3, <1>4, <1>5, <1>6
  DEF Promise!Refuse, Promise!Blank, Blank, askedBar

\* A reload by a request: silent, an update taking effect, or a refusal.
LEMMA RequestReloadImplements ==
  ASSUME Inv, AttachInv, ReplyInv, NEW r \in Requests,
         ReloadFirst(r) \/ ReloadSecond(r)
  PROVE  \/ UNCHANGED Promise!vars
         \/ Promise!Put(r) \/ Promise!Refuse(r)
<1> DEFINE d == job[r].domain
<1>0. /\ r \in Actors /\ r # Late
      /\ pc[r] \in {"first", "second"}
      /\ d \in {"stdout", "otlp"}
  BY DEF Inv, ControlInv, Writing, ReloadFirst, ReloadSecond, Actors, Domains
<1>1. ASSUME NEW l \in {FirstLayer(d), LastLayer(d)}, FailReload(r, l)
      PROVE  Promise!Refuse(r)
  BY <1>0, <1>1, FailRefuses
<1>2. CASE /\ Swap(r, LastLayer(d))
           /\ Goto(r, "record")
           /\ UNCHANGED <<setup, record, job, reply>>
  BY <1>0, <1>2, SwapPuts DEF Holding
<1>3. CASE /\ Swap(r, FirstLayer(d)) /\ FirstLayer(d) # LastLayer(d)
           /\ pc[r] = "first" /\ Goto(r, "second")
           /\ UNCHANGED <<setup, record, job, reply>>
  <2>1. pc'[r] = "second" /\ \A q \in Actors \ {r} : pc'[q] = pc[q]
    BY <1>0, <1>3 DEF Inv, TypeOK, Goto
  <2>2. UNCHANGED <<installed[LastLayer("stdout")], installed["log"]>>
    BY <1>0, <1>3 DEF Inv, TypeOK, Swap, FirstLayer, LastLayer, Layers
  <2>3. activeBar' = activeBar
    BY <1>0, <1>3, <2>1, <2>2 DEF activeBar, Committed, LastLayer, Actors
  <2>4. answerBar' = answerBar
    BY <1>3, <2>1 DEF answerBar, Actors
  <2> QED
    BY <1>3, <2>3, <2>4 DEF askedBar, Promise!vars
<1> QED
  BY <1>1, <1>2, <1>3 DEF ReloadFirst, ReloadSecond

\* The late configuration changes no request and no response.
LEMMA LateAnswersNobody ==
  ASSUME Inv, (\E c \in LateConfigs : Apply(c)) \/ Attach
  PROVE  answerBar' = answerBar /\ askedBar' = askedBar /\ setup' = setup
<1>1. setup' = setup
  BY DEF Attach, Change, Apply, BuildExporters, BuildMeter, Connect, Acquire,
     ReloadFirst, ReloadSecond, FailReload, Record
<1> QED
  BY <1>1, NoRequest DEF answerBar, askedBar

\* A reload by the late configuration: silent, or a domain set.
LEMMA LateReloadImplements ==
  ASSUME Inv, AttachInv, ReloadFirst(Late) \/ ReloadSecond(Late)
  PROVE  \/ UNCHANGED Promise!vars
         \/ \E d \in Domains, f \in WellFormed : Promise!LateSet(d, f)
<1> DEFINE d == job[Late].domain
           f == job[Late].filter
<1>0. /\ Late \in Actors /\ Writing(Late) /\ Holding(Late)
      /\ pc[Late] \in {"first", "second"}
      /\ d \in {"stdout", "otlp"}
  BY DEF Inv, ControlInv, Writing, Holding, ReloadFirst, ReloadSecond, Actors,
     Domains
<1>a. answerBar' = answerBar /\ askedBar' = askedBar /\ setup' = setup
  BY LateAnswersNobody DEF Attach, Change
<1>1. CASE \E l : FailReload(Late, l)
  <2>1. pc'[Late] = "done"
    BY <1>0, <1>1 DEF Inv, TypeOK, FailReload, Return, Goto
  <2>2. activeBar' = activeBar
    BY <1>0, <1>1, <2>1, ActiveKept DEF FailReload, Committed
  <2> QED
    BY <1>a, <2>2 DEF Promise!vars
<1>2. CASE /\ Swap(Late, LastLayer(d))
           /\ Goto(Late, "record")
           /\ UNCHANGED <<setup, record, job, reply>>
  <2>1. activeBar' = [activeBar EXCEPT ![d] = f]
    BY <1>0, <1>2, SwapLast
  <2>2. d = "stdout" => ~setup.fromEnv
    BY <1>0 DEF AttachInv, ApplyingInv
  <2>3. d = "otlp" => activeBar.otlp = None
    <3> SUFFICES ASSUME d = "otlp" PROVE activeBar.otlp = None
      OBVIOUS
    <3>1. config.otlp \in WellFormed
      BY <1>0 DEF AttachInv, ApplyingInv
    <3>2. Deferred
      BY <1>0, <3>1 DEF AttachInv, ApplyingInv, Filters
    <3> QED
      BY <1>0, <3>2 DEF AttachInv, StageInv, activeBar, Committed
  <2>4. f \in WellFormed
    BY <1>2 DEF Swap
  <2>5. Promise!LateSet(d, f)
    BY <1>0, <1>a, <2>1, <2>2, <2>3 DEF Promise!LateSet
  <2> QED
    BY <1>0, <2>4, <2>5 DEF Domains
<1>3. CASE /\ Swap(Late, FirstLayer(d)) /\ FirstLayer(d) # LastLayer(d)
           /\ pc[Late] = "first" /\ Goto(Late, "second")
           /\ UNCHANGED <<setup, record, job, reply>>
  <2>1. pc'[Late] = "second"
    BY <1>0, <1>3 DEF Inv, TypeOK, Goto
  <2>2. UNCHANGED <<installed[LastLayer("stdout")], installed["log"]>>
    BY <1>0, <1>3 DEF Inv, TypeOK, Swap, FirstLayer, LastLayer, Layers
  <2>3. activeBar' = activeBar
    BY <1>3, <2>1, <2>2 DEF activeBar, Committed, LastLayer
  <2> QED
    BY <1>a, <2>3 DEF Promise!vars
<1> QED
  BY <1>1, <1>2, <1>3 DEF ReloadFirst, ReloadSecond

\* The record is written after the fact: the response was committed when the
\* last layer was swapped.
LEMMA RecordIsSilent ==
  ASSUME Inv, AttachInv, ReplyInv, NEW a \in Actors, Record(a)
  PROVE  UNCHANGED Promise!vars
<1> DEFINE d == job[a].domain
           f == job[a].filter
<1>0. /\ pc[a] = "record" /\ Holding(a) /\ Writing(a) /\ Late \in Actors
      /\ job[a] \in [domain : {"stdout", "otlp"}, filter : WellFormed]
      /\ job' = job /\ setup' = setup /\ installed' = installed
  BY DEF Inv, ControlInv, Record, Holding, Writing, Actors, Domains
<1>1. /\ pc'[a] # "record"
      /\ \A b \in Actors \ {a} : pc'[b] = pc[b]
  BY <1>0 DEF Inv, TypeOK, Record, Goto, Return
<1>2. record' = [record EXCEPT ![d] = f]
  BY DEF Record
<1>3. activeBar' = activeBar
  <2>1. CASE d = "stdout"
    <3>1. record'.otlp = record.otlp
      BY <1>2, <2>1 DEF Inv, TypeOK
    <3>2. Committed(Late, "otlp")' <=> Committed(Late, "otlp")
      BY <1>0, <1>1, <2>1 DEF Committed
    <3> QED
      BY <1>0, <3>1, <3>2, ActiveKept
  <2>2. CASE d = "otlp"
    <3>1. record'.otlp # None
      BY <1>0, <1>2, <2>2 DEF Inv, TypeOK, Filters
    <3>2. record.otlp # None \/ Committed(Late, "otlp")
      BY <1>0, <2>2 DEF AttachInv, OtlpHeldInv, Committed, Actors
    <3> QED
      BY <1>0, <3>1, <3>2 DEF activeBar, LastLayer
  <2> QED
    BY <1>0, <2>1, <2>2
<1>4. answerBar' = answerBar
  <2>1. CASE a = Late
    BY <1>0, <2>1, LateAnswersNobody DEF Attach, Change
  <2>2. CASE a # Late
    <3>1. a \in Requests
      BY <2>2 DEF Actors
    <3>2. reply' = [reply EXCEPT ![a][d] = f]
      BY <2>2 DEF Record
    <3>3. answerBar'[a] = answerBar[a]
      BY <1>0, <1>1, <3>1, <3>2 DEF Inv, TypeOK, answerBar
    <3> QED
      BY <3>1, <3>3, AnswerOfOne DEF answerBar, Handle, Change
  <2> QED
    BY <2>1, <2>2
<1> QED
  BY <1>0, <1>3, <1>4 DEF askedBar, Promise!vars

\* Two fields of one response, changed together.
LEMMA TwoFields ==
  ASSUME NEW S, NEW T, NEW f \in [S -> T], NEW r \in S, NEW d, NEW x, NEW y
  PROVE  [f EXCEPT ![r][d] = x, ![r].status = y]
           = [f EXCEPT ![r] = [f[r] EXCEPT ![d] = x, !.status = y]]
OBVIOUS

\* Reading the record of a domain under its lock is looking at the domain.
LEMMA ReadStdoutObserves ==
  ASSUME Inv, AttachInv, ReplyInv, NEW r \in Requests, ReadStdout(r)
  PROVE  Promise!Observe(r, "stdout")
<1> DEFINE status == IF reply[r].otlp = Unread THEN "open" ELSE "ok"
<1>0. /\ pc[r] = "readStdout" /\ job[r] # None /\ pc'[r] # "record"
      /\ reply[r] \in Replies /\ reply[r].status = "open"
      /\ reply[r].stdout = Unread
      /\ (reply[r].otlp = Unread) <=> (job[r] = Reading)
  BY DEF Inv, TypeOK, ReplyInv, ReplyFits, ReadStdout, Goto, Actors
<1>1. activeBar.stdout = record.stdout
  BY ActiveIsRecorded DEF ReadStdout, Domains
<1>2. activeBar' = activeBar /\ askedBar' = askedBar /\ setup' = setup
  BY OneRequest, ActiveKept, AskedKept DEF ReadStdout, Committed, Handle
<1>3. reply'[r] = [reply[r] EXCEPT
         !.stdout = record.stdout, !.status = status]
  <2>1. CASE job[r] = Reading
    <3> DEFINE seen == [reply[r] EXCEPT !.stdout = record.stdout]
    <3>1. reply'[r] = seen /\ reply[r].otlp = Unread
      BY <1>0, <2>1 DEF Inv, TypeOK, ReadStdout
    <3>2. seen \in Replies /\ seen.status = "open"
      BY <1>0 DEF Inv, TypeOK, Replies
    <3>3. seen = [seen EXCEPT !.status = "open"]
      BY <3>2 DEF Replies
    <3> QED
      BY <3>1, <3>3
  <2>2. CASE job[r] # Reading
    BY <1>0, <2>2 DEF Inv, TypeOK, ReadStdout, Replies
  <2> QED
    BY <2>1, <2>2
<1>4. answerBar[r] = reply[r] /\ answerBar'[r] = reply'[r]
  BY <1>0 DEF answerBar
<1>5. answerBar' = [answerBar EXCEPT
         ![r].stdout = record.stdout, ![r].status = status]
  <2> HIDE DEF status
  <2>1. answerBar' = [answerBar EXCEPT ![r] = answerBar'[r]]
    BY AnswerOfOne DEF Handle
  <2>2. answerBar \in [Requests -> {answerBar[q] : q \in Requests}]
    BY DEF answerBar
  <2> QED
    BY <1>3, <1>4, <2>1, <2>2, TwoFields
<1>6. (\E e \in Domains \ {"stdout"} : answerBar[r][e] = Unread)
        <=> reply[r].otlp = Unread
  BY <1>4 DEF Domains
<1>7. job[r].domain = None \/ reply[r] # Blank
  BY <1>0 DEF Reading, Blank
<1> QED
  BY <1>0, <1>1, <1>2, <1>4, <1>5, <1>6, <1>7
  DEF Promise!Observe, Promise!Domains, Domains, Promise!Blank, Blank, askedBar

\* The OTLP expression is the last field of every response that has it.
LEMMA ReadOtlpObserves ==
  ASSUME Inv, AttachInv, ReplyInv, NEW r \in Requests, ReadOtlp(r)
  PROVE  Promise!Observe(r, "otlp")
<1>0. /\ pc[r] = "readOtlp" /\ job[r] # None /\ pc'[r] # "record"
      /\ reply[r] \in Replies /\ reply[r].status = "open"
      /\ reply[r].otlp = Unread /\ reply[r].stdout # Unread
  BY DEF Inv, TypeOK, ReplyInv, ReplyFits, ReadOtlp, Goto, Actors
<1>1. activeBar.otlp = record.otlp
  BY ActiveIsRecorded DEF ReadOtlp, Domains
<1>2. activeBar' = activeBar /\ askedBar' = askedBar /\ setup' = setup
  BY OneRequest, ActiveKept, AskedKept DEF ReadOtlp, Committed, Handle
<1>3. answerBar[r] = reply[r] /\ answerBar'[r] = reply'[r]
  BY <1>0 DEF answerBar
<1>4. answerBar' = [answerBar EXCEPT ![r].otlp = record.otlp, ![r].status = "ok"]
  <2>1. answerBar' = [answerBar EXCEPT ![r] = answerBar'[r]]
    BY AnswerOfOne DEF Handle
  <2>2. answerBar \in [Requests -> {answerBar[q] : q \in Requests}]
    BY DEF answerBar
  <2>3. reply'[r] = [reply[r] EXCEPT !.otlp = record.otlp, !.status = "ok"]
    BY DEF Inv, TypeOK, ReadOtlp
  <2> QED
    BY <1>3, <2>1, <2>2, <2>3, TwoFields
<1>5. ~ \E e \in Domains \ {"otlp"} : answerBar[r][e] = Unread
  BY <1>0, <1>3 DEF Domains
<1>6. reply[r] # Blank
  BY <1>0 DEF Blank
<1> QED
  BY <1>0, <1>1, <1>2, <1>3, <1>4, <1>5, <1>6
  DEF Promise!Observe, Promise!Domains, Domains, Promise!Blank, Blank, askedBar

\* Up to its reloads the late configuration changes nothing a user can see.
LEMMA LateIsSilent ==
  ASSUME Inv, (\E c \in LateConfigs : Apply(c))
                \/ BuildExporters \/ BuildMeter \/ Connect
  PROVE  UNCHANGED Promise!vars
<1>1. answerBar' = answerBar /\ askedBar' = askedBar /\ setup' = setup
  BY LateAnswersNobody DEF Attach
<1>2. UNCHANGED <<installed, record>>
  BY DEF Apply, BuildExporters, BuildMeter, Connect
<1>3. pc[Late] # "record" /\ pc'[Late] # "record"
  BY DEF Inv, TypeOK, Apply, BuildExporters, BuildMeter, Connect, Goto, Return,
     Actors
<1>4. activeBar' = activeBar
  BY <1>1, <1>2, <1>3, ActiveKept DEF Committed
<1> QED
  BY <1>1, <1>4 DEF Promise!vars

\* An installation starts with the filters of its layers active, and no request.
LEMMA InitImplements == Init => Promise!Init
<1> SUFFICES ASSUME Init PROVE Promise!Init
  OBVIOUS
<1>1. PICK f \in WellFormed, g \in WellFormed :
       /\ installed = [l \in Layers |->
            IF l = "fmt" THEN f
            ELSE IF l = "journald" THEN IF setup.journald THEN f ELSE None
            ELSE IF setup.otlp THEN g
            ELSE IF setup.late THEN Off ELSE None]
       /\ record = [stdout |-> f, otlp |-> IF setup.otlp THEN g ELSE None]
  BY DEF Init
<1>2. installed[LastLayer("stdout")] = f
  BY <1>1 DEF LastLayer, Layers
<1>3. record.otlp = None \/ installed.log = g
  BY <1>1 DEF Layers
<1>4. activeBar \in [stdout : WellFormed, otlp : WellFormed \cup {None}]
  <2>1. activeBar.otlp \in WellFormed \cup {None}
    BY <1>3 DEF Init, activeBar, Committed, Actors
  <2>2. activeBar.stdout \in WellFormed
    BY <1>2 DEF activeBar
  <2> QED
    BY <2>1, <2>2 DEF activeBar
<1>5. setup.fromEnv \in BOOLEAN
  BY DEF Init, AllSetups
<1>6. askedBar = [r \in Requests |-> None]
  BY DEF Init, askedBar, Actors
<1>7. answerBar = [r \in Requests |-> Blank]
  BY DEF Init, answerBar, Actors
<1> QED
  BY <1>4, <1>5, <1>6, <1>7 DEF Promise!Init, Promise!Blank, Blank

\* Every step of the locks, layers and callbacks is a step of the promise or a
\* step nobody sees.
LEMMA StepImplements ==
  ASSUME Inv, AttachInv, ReplyInv, [Next]_vars
  PROVE  [Promise!Next]_(Promise!vars)
<1>1. ASSUME NEW r \in Requests, Send(r) \/ Handle(r)
      PROVE  [Promise!Next]_(Promise!vars)
  <2>0. r \in Actors
    BY DEF Actors
  <2>1. CASE Send(r)
    BY <2>1, SendAsks DEF Promise!Next
  <2>2. CASE NotFound(r)
    BY <2>2, NotFoundImplements DEF Promise!Next
  <2>3. CASE ReadStdout(r) \/ ReadOtlp(r)
    BY <2>3, ReadStdoutObserves, ReadOtlpObserves
    DEF Promise!Next, Promise!Domains
  <2>4. CASE ReloadFirst(r) \/ ReloadSecond(r)
    BY <2>4, RequestReloadImplements DEF Promise!Next
  <2>5. CASE Acquire(r) \/ Record(r)
    BY <2>0, <2>5, AcquireIsSilent, RecordIsSilent
  <2> QED
    BY <1>1, <2>1, <2>2, <2>3, <2>4, <2>5 DEF Handle, Change
<1>2. CASE (\E c \in LateConfigs : Apply(c))
             \/ BuildExporters \/ BuildMeter \/ Connect
  BY <1>2, LateIsSilent
<1>3. CASE Change(Late)
  <2>1. CASE ReloadFirst(Late) \/ ReloadSecond(Late)
    BY <2>1, LateReloadImplements DEF Promise!Next, Promise!Domains, Domains
  <2>2. CASE Acquire(Late) \/ Record(Late)
    BY <2>2, AcquireIsSilent, RecordIsSilent DEF Actors
  <2> QED
    BY <1>3, <2>1, <2>2 DEF Change
<1>4. CASE UNCHANGED vars
  BY <1>4 DEF vars, activeBar, answerBar, askedBar, LastLayer, Committed,
     Promise!vars
<1> QED
  BY <1>1, <1>2, <1>3, <1>4 DEF Next, Attach, Quiescent

\* Runtime filter control keeps its promise: updates take effect atomically, a
\* response reports what was active, a refused update changes nothing, the late
\* configuration never overrides the environment, and the OTLP domain appears
\* once.
THEOREM DomainsImplemented == Spec => ImplementsDomains
<1>1. Init => Inv /\ AttachInv /\ ReplyInv /\ Promise!Init
  BY InitInv, AttachInit, ReplyInit, InitImplements
<1>2. Inv /\ AttachInv /\ ReplyInv /\ [Next]_vars
        => /\ (Inv /\ AttachInv /\ ReplyInv)'
           /\ [Promise!Next]_(Promise!vars)
  BY NextInv, AttachNext, ReplyNext, StepImplements
<1> QED
  BY <1>1, <1>2, PTL DEF Spec, ImplementsDomains, Promise!Spec
==============================================================================
