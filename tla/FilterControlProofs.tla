------------------------- MODULE FilterControlProofs -------------------------
(***************************************************************************)
(* The invariants of FilterControl hold for any number of requests, any    *)
(* expressions, any late configuration and any layers that may fail.       *)
(*                                                                         *)
(* Inv is the inductive invariant of FilterControl.  One lemma per action  *)
(* shows that the action preserves it, conjunct by conjunct.               *)
(***************************************************************************)
EXTENDS FilterControl, TLAPS

USE ValueAssumption, ActorAssumption, ChoiceAssumption

\* The installation starts with equal layers, matching records, free locks.
LEMMA InitInv == Init => Inv
<1> SUFFICES ASSUME Init PROVE Inv
  OBVIOUS
<1> USE DEF Init
<1>0. PICK f \in WellFormed, g \in WellFormed :
       /\ installed = [l \in Layers |->
            IF l = "fmt" THEN f
            ELSE IF l = "journald" THEN IF setup.journald THEN f ELSE None
            ELSE IF setup.otlp THEN g
            ELSE IF setup.late THEN Off ELSE None]
       /\ record = [stdout |-> f, otlp |-> IF setup.otlp THEN g ELSE None]
  OBVIOUS
<1>1. TypeOK
  <2>1. installed \in [Layers -> WellFormed \cup {None}]
    BY <1>0 DEF Layers
  <2>2. record \in [stdout : WellFormed, otlp : WellFormed \cup {None}]
    BY <1>0
  <2> QED
    BY <2>1, <2>2 DEF TypeOK, Layers, Domains, Actors, Replies, Blank, Outcomes,
      Locations, Signals
<1>2. ControlInv
  BY DEF ControlInv, Actors, Writing
<1>3. LockInv
  BY DEF LockInv, Actors, Domains, Holding
<1>4. SwapInv
  BY DEF SwapInv, Actors
<1>5. AgreeInv
  BY <1>0 DEF AgreeInv, Domains, Layers, FirstLayer, LastLayer
<1>6. RecordIsInstalled
  BY <1>0 DEF RecordIsInstalled, Domains, Layers, LastLayer
<1> QED
  BY <1>1, <1>2, <1>3, <1>4, <1>5, <1>6 DEF Inv

\* Sending a request only gives it a job.
LEMMA SendInv ==
  ASSUME Inv, NEW r \in Requests, Send(r)
  PROVE  Inv'
<1> USE DEF Inv, Send, Goto, Actors, Domains
<1>1. TypeOK'
  BY DEF TypeOK, Locations
<1>2. ControlInv'
  BY DEF TypeOK, ControlInv, Writing, Jobs, Reading
<1>3. LockInv'
  BY DEF TypeOK, LockInv, Holding
<1>4. SwapInv'
  BY DEF TypeOK, SwapInv, FirstLayer, LastLayer
<1>5. AgreeInv'
  BY DEF TypeOK, AgreeInv, FirstLayer, LastLayer
<1>6. RecordIsInstalled'
  BY DEF TypeOK, RecordIsInstalled, LastLayer, Committed
<1> QED
  BY <1>1, <1>2, <1>3, <1>4, <1>5, <1>6

\* A request that finds no OTLP domain holds no lock when it answers.
LEMMA NotFoundInv ==
  ASSUME Inv, NEW r \in Requests, NotFound(r)
  PROVE  Inv'
<1> USE DEF Inv, NotFound, Respond, Goto, Actors, Domains
<1>1. TypeOK'
  BY DEF TypeOK, Locations, Replies
<1>2. ControlInv'
  BY DEF TypeOK, ControlInv, Writing
<1>3. LockInv'
  BY DEF TypeOK, LockInv, Holding
<1>4. SwapInv'
  BY DEF TypeOK, SwapInv, FirstLayer, LastLayer
<1>5. AgreeInv'
  BY DEF TypeOK, AgreeInv, FirstLayer, LastLayer
<1>6. RecordIsInstalled'
  BY DEF TypeOK, RecordIsInstalled, LastLayer, Committed
<1> QED
  BY <1>1, <1>2, <1>3, <1>4, <1>5, <1>6

\* Taking the lock of a domain.
LEMMA AcquireInv ==
  ASSUME Inv, NEW a \in Actors, Acquire(a)
  PROVE  Inv'
<1> USE DEF Inv, Acquire, Goto, Free, Domains
<1>0. job[a] \in [domain : Domains, filter : Filters]
  BY DEF ControlInv, Writing
<1>1. TypeOK'
  BY <1>0 DEF TypeOK, Locations
<1>2. ControlInv'
  BY <1>0 DEF TypeOK, ControlInv, Writing, Actors
<1>3. LockInv'
  BY <1>0 DEF TypeOK, LockInv, Holding
<1>4. SwapInv'
  BY DEF TypeOK, SwapInv, FirstLayer, LastLayer
<1>5. AgreeInv'
  BY DEF TypeOK, AgreeInv, FirstLayer, LastLayer
<1>6. RecordIsInstalled'
  BY DEF TypeOK, RecordIsInstalled, LastLayer, Committed
<1> QED
  BY <1>1, <1>2, <1>3, <1>4, <1>5, <1>6

\* Only one actor works on a domain at a time.
LEMMA Exclusion ==
  ASSUME Inv, NEW a \in Actors, NEW b \in Actors, Holding(a), Holding(b),
         job[a].domain = job[b].domain
  PROVE  a = b
<1>1. job[a].domain \in Domains
  BY DEF Inv, ControlInv, Holding, Writing
<1> QED
  BY <1>1 DEF Inv, LockInv

\* A failed reload releases the lock and has separated the two layers only if
\* the callback of the second one is breakable.
LEMMA FailReloadInv ==
  ASSUME Inv, NEW a \in Actors, NEW l,
         \/ pc[a] = "first"
         \/ pc[a] = "second" /\ l = LastLayer(job[a].domain),
         FailReload(a, l)
  PROVE  Inv'
<1> USE DEF Inv, FailReload, Unlock, Return, Respond, Goto, Domains
<1>0. /\ job[a] \in [domain : Domains, filter : Filters]
      /\ Holding(a)
  BY DEF ControlInv, Writing, Holding
<1>1. TypeOK'
  BY <1>0 DEF TypeOK, Locations, Replies, Outcomes, Actors
<1>2. ControlInv'
  BY <1>0 DEF TypeOK, ControlInv, Writing, Actors
<1>3. LockInv'
  BY <1>0, Exclusion DEF TypeOK, LockInv, Holding
<1>4. SwapInv'
  BY DEF TypeOK, SwapInv, FirstLayer, LastLayer
<1>5. AgreeInv'
  BY <1>0 DEF TypeOK, AgreeInv, FirstLayer, LastLayer, ControlInv
<1>6. RecordIsInstalled'
  BY <1>0 DEF TypeOK, RecordIsInstalled, LastLayer, Committed
<1> QED
  BY <1>1, <1>2, <1>3, <1>4, <1>5, <1>6

\* The two layers of a domain belong to no other domain.
LEMMA LayersOfDomains ==
  /\ \A d \in Domains : FirstLayer(d) \in Layers /\ LastLayer(d) \in Layers
  /\ \A d, e \in Domains :
       d # e => {FirstLayer(d), LastLayer(d)} \cap {FirstLayer(e), LastLayer(e)} = {}
BY DEF Domains, Layers, FirstLayer, LastLayer

\* The first layer is swapped under the lock of its domain.
LEMMA ReloadFirstInv ==
  ASSUME Inv, NEW a \in Actors, ReloadFirst(a)
  PROVE  Inv'
<1> DEFINE d == job[a].domain
           f == job[a].filter
<1>0. pc[a] = "first" /\ Holding(a) /\ d \in Domains
  BY DEF Inv, ReloadFirst, ControlInv, Writing, Holding
<1>1. CASE FailReload(a, FirstLayer(d))
  BY <1>0, <1>1, FailReloadInv
<1>2. CASE /\ Swap(a, FirstLayer(d))
           /\ Goto(a, IF FirstLayer(d) = LastLayer(d) THEN "record" ELSE "second")
           /\ UNCHANGED <<setup, record, lock, job, reply, config, outcome,
                          running, limit>>
  <2> USE <1>0, <1>2 DEF Inv, Swap, Goto
  <2>0. \A b \in Actors \ {a} : Holding(b) => job[b].domain \in Domains \ {d}
    BY Exclusion DEF ControlInv, Writing, Holding
  <2>a. \A e : LastLayer(e)' = LastLayer(e)
    BY DEF LastLayer
  <2>b. \A e \in Domains \ {d} :
          /\ installed'[FirstLayer(e)] = installed[FirstLayer(e)]
          /\ installed'[LastLayer(e)] = installed[LastLayer(e)]
    BY LayersOfDomains DEF TypeOK
  <2>c. /\ installed'[FirstLayer(d)] = job[a].filter
        /\ LastLayer(d) # FirstLayer(d) => installed'[LastLayer(d)] = installed[LastLayer(d)]
    BY LayersOfDomains DEF TypeOK
  <2>d. /\ pc'[a] = IF FirstLayer(d) = LastLayer(d) THEN "record" ELSE "second"
        /\ \A b \in Actors \ {a} : pc'[b] = pc[b]
    BY DEF TypeOK
  <2>1. TypeOK'
    BY DEF TypeOK, Locations
  <2>2. ControlInv'
    BY DEF TypeOK, ControlInv, Writing, Actors
  <2>3. LockInv'
    BY DEF TypeOK, LockInv, Holding
  <2>4. SwapInv'
    <3> SUFFICES ASSUME NEW b \in Actors, pc'[b] \in {"second", "record"}
        PROVE /\ installed'[FirstLayer(job[b].domain)] = job[b].filter
              /\ pc'[b] = "record"
                   => installed'[LastLayer(job[b].domain)] = job[b].filter
      BY <2>a DEF SwapInv
    <3>1. CASE b = a
      BY <3>1, <2>c, <2>d DEF SwapInv
    <3>2. CASE b # a
      BY <3>2, <2>0, <2>b, <2>d DEF SwapInv, Holding
    <3> QED
      BY <3>1, <3>2
  <2>5. AgreeInv'
    <3> SUFFICES ASSUME NEW e \in Domains, LastLayer(e) \notin Breakable
        PROVE \/ installed'[FirstLayer(e)] = installed'[LastLayer(e)]
              \/ \E b \in Actors : pc'[b] = "second" /\ job[b].domain = e
      BY <2>a DEF AgreeInv
    <3>1. CASE e = d
      BY <3>1, <2>c, <2>d DEF SwapInv
    <3>2. CASE e # d
      BY <3>2, <2>b, <2>d DEF AgreeInv
    <3> QED
      BY <3>1, <3>2
  <2>6. RecordIsInstalled'
    <3> SUFFICES ASSUME NEW e \in Domains, record[e] # None,
                        \A b \in Actors : ~(pc'[b] = "record" /\ job[b].domain = e)
        PROVE record[e] = installed'[LastLayer(e)]
      BY <2>a DEF RecordIsInstalled, Committed
    <3>1. CASE e = d
      BY <3>1, <2>0, <2>c, <2>d DEF RecordIsInstalled, Committed, Holding
    <3>2. CASE e # d
      BY <3>2, <2>b, <2>d DEF RecordIsInstalled, Committed
    <3> QED
      BY <3>1, <3>2
  <2> QED
    BY <2>1, <2>2, <2>3, <2>4, <2>5, <2>6
<1> QED
  BY <1>1, <1>2 DEF ReloadFirst

\* The second layer is swapped under the same lock, to the same expression.
LEMMA ReloadSecondInv ==
  ASSUME Inv, NEW a \in Actors, ReloadSecond(a)
  PROVE  Inv'
<1> DEFINE d == job[a].domain
<1>0. pc[a] = "second" /\ Holding(a) /\ d \in Domains
  BY DEF Inv, ReloadSecond, ControlInv, Writing, Holding
<1>1. CASE FailReload(a, LastLayer(d))
  BY <1>0, <1>1, FailReloadInv
<1>2. CASE /\ Swap(a, LastLayer(d))
           /\ Goto(a, "record")
           /\ UNCHANGED <<setup, record, lock, job, reply, config, outcome,
                          running, limit>>
  <2> USE <1>0, <1>2 DEF Inv, Swap, Goto
  <2>0. \A b \in Actors \ {a} : Holding(b) => job[b].domain \in Domains \ {d}
    BY Exclusion DEF ControlInv, Writing, Holding
  <2>a. \A e : LastLayer(e)' = LastLayer(e)
    BY DEF LastLayer
  <2>b. \A e \in Domains \ {d} :
          /\ installed'[FirstLayer(e)] = installed[FirstLayer(e)]
          /\ installed'[LastLayer(e)] = installed[LastLayer(e)]
    BY LayersOfDomains DEF TypeOK
  <2>c. /\ installed'[LastLayer(d)] = job[a].filter
        /\ FirstLayer(d) # LastLayer(d) => installed'[FirstLayer(d)] = installed[FirstLayer(d)]
    BY LayersOfDomains DEF TypeOK
  <2>d. /\ pc'[a] = "record"
        /\ \A b \in Actors \ {a} : pc'[b] = pc[b]
    BY DEF TypeOK
  <2>1. TypeOK'
    BY DEF TypeOK, Locations
  <2>2. ControlInv'
    BY DEF TypeOK, ControlInv, Writing, Actors
  <2>3. LockInv'
    BY DEF TypeOK, LockInv, Holding
  <2>4. SwapInv'
    <3> SUFFICES ASSUME NEW b \in Actors, pc'[b] \in {"second", "record"}
        PROVE /\ installed'[FirstLayer(job[b].domain)] = job[b].filter
              /\ pc'[b] = "record"
                   => installed'[LastLayer(job[b].domain)] = job[b].filter
      BY <2>a DEF SwapInv
    <3>1. CASE b = a
      BY <3>1, <2>c, <2>d DEF SwapInv
    <3>2. CASE b # a
      BY <3>2, <2>0, <2>b, <2>d DEF SwapInv, Holding
    <3> QED
      BY <3>1, <3>2
  <2>5. AgreeInv'
    <3> SUFFICES ASSUME NEW e \in Domains, LastLayer(e) \notin Breakable
        PROVE \/ installed'[FirstLayer(e)] = installed'[LastLayer(e)]
              \/ \E b \in Actors : pc'[b] = "second" /\ job[b].domain = e
      BY <2>a DEF AgreeInv
    <3>1. CASE e = d
      BY <3>1, <2>c, <2>d DEF SwapInv
    <3>2. CASE e # d
      BY <3>2, <2>b, <2>d DEF AgreeInv
    <3> QED
      BY <3>1, <3>2
  <2>6. RecordIsInstalled'
    <3> SUFFICES ASSUME NEW e \in Domains, record[e] # None,
                        \A b \in Actors : ~(pc'[b] = "record" /\ job[b].domain = e)
        PROVE record[e] = installed'[LastLayer(e)]
      BY <2>a DEF RecordIsInstalled, Committed
    <3>1. CASE e = d
      BY <3>1, <2>0, <2>c, <2>d DEF RecordIsInstalled, Committed, Holding
    <3>2. CASE e # d
      BY <3>2, <2>b, <2>d DEF RecordIsInstalled, Committed
    <3> QED
      BY <3>1, <3>2
  <2> QED
    BY <2>1, <2>2, <2>3, <2>4, <2>5, <2>6
<1> QED
  BY <1>1, <1>2 DEF ReloadSecond

\* The record takes the expression of the layers as the lock is released.
LEMMA RecordInv ==
  ASSUME Inv, NEW a \in Actors, Record(a)
  PROVE  Inv'
<1> DEFINE d == job[a].domain
<1> USE DEF Inv, Record, Unlock, Return, Goto, Domains
<1>0. /\ job[a] \in [domain : Domains, filter : Filters]
      /\ job[a].filter \in WellFormed
      /\ pc[a] = "record" /\ Holding(a)
  BY DEF ControlInv, Writing, Holding
<1>a. \A b \in Actors \ {a} : Holding(b) => job[b].domain # d
  BY <1>0, Exclusion
<1>1. TypeOK'
  BY <1>0 DEF TypeOK, Locations, Replies, Outcomes, Actors
<1>2. ControlInv'
  BY <1>0 DEF TypeOK, ControlInv, Writing, Actors, Configs
<1>3. LockInv'
  BY <1>0, <1>a DEF TypeOK, LockInv, Holding
<1>4. SwapInv'
  BY DEF TypeOK, SwapInv, FirstLayer, LastLayer
<1>5. AgreeInv'
  BY <1>0 DEF TypeOK, AgreeInv, FirstLayer, LastLayer
<1>6. RecordIsInstalled'
  BY <1>0 DEF TypeOK, RecordIsInstalled, SwapInv, LastLayer, Committed
<1> QED
  BY <1>1, <1>2, <1>3, <1>4, <1>5, <1>6
\* Reading a record changes only the response.
LEMMA ReadStdoutInv ==
  ASSUME Inv, NEW r \in Requests, ReadStdout(r)
  PROVE  Inv'
<1> USE DEF Inv, ReadStdout, Goto, Actors, Domains
<1>1. TypeOK'
  BY DEF TypeOK, Locations, Replies
<1>2. ControlInv'
  BY DEF TypeOK, ControlInv, Writing
<1>3. LockInv'
  BY DEF TypeOK, LockInv, Holding
<1>4. SwapInv'
  BY DEF TypeOK, SwapInv, FirstLayer, LastLayer
<1>5. AgreeInv'
  BY DEF TypeOK, AgreeInv, FirstLayer, LastLayer
<1>6. RecordIsInstalled'
  BY DEF TypeOK, RecordIsInstalled, LastLayer, Committed
<1> QED
  BY <1>1, <1>2, <1>3, <1>4, <1>5, <1>6

\* The OTLP record is read last.
LEMMA ReadOtlpInv ==
  ASSUME Inv, NEW r \in Requests, ReadOtlp(r)
  PROVE  Inv'
<1> USE DEF Inv, ReadOtlp, Goto, Actors, Domains
<1>1. TypeOK'
  <2>1. [reply[r] EXCEPT !.otlp = record.otlp, !.status = "ok"] \in Replies
    <3>1. reply[r] \in Replies /\ record.otlp \in WellFormed \cup {None}
      BY DEF TypeOK
    <3> HIDE DEF Inv, ReadOtlp
    <3> QED
      BY <3>1 DEF Replies
  <2>2. reply' = [reply EXCEPT ![r] =
                   [reply[r] EXCEPT !.otlp = record.otlp, !.status = "ok"]]
    BY DEF TypeOK
  <2> QED
    BY <2>1, <2>2 DEF TypeOK, Locations
<1>2. ControlInv'
  BY DEF TypeOK, ControlInv, Writing
<1>3. LockInv'
  BY DEF TypeOK, LockInv, Holding
<1>4. SwapInv'
  BY DEF TypeOK, SwapInv, FirstLayer, LastLayer
<1>5. AgreeInv'
  BY DEF TypeOK, AgreeInv, FirstLayer, LastLayer
<1>6. RecordIsInstalled'
  BY DEF TypeOK, RecordIsInstalled, LastLayer, Committed
<1> QED
  BY <1>1, <1>2, <1>3, <1>4, <1>5, <1>6

\* The late configuration enters with a valid job or none.
LEMMA ApplyInv ==
  ASSUME Inv, NEW c \in LateConfigs, Apply(c)
  PROVE  Inv'
<1> USE DEF Inv, Apply, AppliesStdout, Return, Goto, Actors, Domains
<1>1. TypeOK'
  BY DEF TypeOK, Locations, Outcomes, Jobs, Configs
<1>2. ControlInv'
  BY DEF TypeOK, ControlInv, Writing, Configs
<1>3. LockInv'
  BY DEF TypeOK, LockInv, Holding
<1>4. SwapInv'
  BY DEF TypeOK, SwapInv, FirstLayer, LastLayer
<1>5. AgreeInv'
  BY DEF TypeOK, AgreeInv, FirstLayer, LastLayer
<1>6. RecordIsInstalled'
  BY DEF TypeOK, RecordIsInstalled, LastLayer, Committed
<1> QED
  BY <1>1, <1>2, <1>3, <1>4, <1>5, <1>6

\* Building exporters touches nothing shared.
LEMMA BuildExportersInv ==
  ASSUME Inv, BuildExporters
  PROVE  Inv'
<1> USE DEF Inv, BuildExporters, Return, Goto, Actors, Domains
<1>1. TypeOK'
  BY DEF TypeOK, Locations, Outcomes
<1>2. ControlInv'
  BY DEF TypeOK, ControlInv, Writing
<1>3. LockInv'
  BY DEF TypeOK, LockInv, Holding
<1>4. SwapInv'
  BY DEF TypeOK, SwapInv, FirstLayer, LastLayer
<1>5. AgreeInv'
  BY DEF TypeOK, AgreeInv, FirstLayer, LastLayer
<1>6. RecordIsInstalled'
  BY DEF TypeOK, RecordIsInstalled, LastLayer, Committed
<1> QED
  BY <1>1, <1>2, <1>3, <1>4, <1>5, <1>6

\* Building the meter provider changes no filter.
LEMMA BuildMeterInv ==
  ASSUME Inv, BuildMeter
  PROVE  Inv'
<1> USE DEF Inv, BuildMeter, Return, Goto, Actors, Domains
<1>1. TypeOK'
  <2>1. running' \in SUBSET Signals
    BY DEF TypeOK, Signals
  <2> QED
    BY <2>1 DEF TypeOK, Locations, Outcomes
<1>2. ControlInv'
  BY DEF TypeOK, ControlInv, Writing
<1>3. LockInv'
  BY DEF TypeOK, LockInv, Holding
<1>4. SwapInv'
  BY DEF TypeOK, SwapInv, FirstLayer, LastLayer
<1>5. AgreeInv'
  BY DEF TypeOK, AgreeInv, FirstLayer, LastLayer
<1>6. RecordIsInstalled'
  BY DEF TypeOK, RecordIsInstalled, LastLayer, Committed
<1> QED
  BY <1>1, <1>2, <1>3, <1>4, <1>5, <1>6

\* Filling the slots changes no filter.
LEMMA ConnectInv ==
  ASSUME Inv, Connect
  PROVE  Inv'
<1> USE DEF Inv, Connect, FillSlots, Return, Goto, Actors, Domains
<1>1. TypeOK'
  BY DEF TypeOK, Locations, Outcomes, Signals, Jobs, ControlInv, Configs
<1>2. ControlInv'
  BY DEF TypeOK, ControlInv, Writing, Configs
<1>3. LockInv'
  BY DEF TypeOK, LockInv, Holding
<1>4. SwapInv'
  BY DEF TypeOK, SwapInv, FirstLayer, LastLayer
<1>5. AgreeInv'
  BY DEF TypeOK, AgreeInv, FirstLayer, LastLayer
<1>6. RecordIsInstalled'
  BY DEF TypeOK, RecordIsInstalled, LastLayer, Committed
<1> QED
  BY <1>1, <1>2, <1>3, <1>4, <1>5, <1>6

\* Every step, stuttering included, preserves the invariant.
LEMMA NextInv ==
  ASSUME Inv, [Next]_vars
  PROVE  Inv'
<1>1. ASSUME NEW r \in Requests, Send(r) PROVE Inv'
  BY <1>1, SendInv
<1>2. ASSUME NEW r \in Requests, Handle(r) PROVE Inv'
  BY <1>2, NotFoundInv, ReadStdoutInv, ReadOtlpInv, AcquireInv, ReloadFirstInv,
     ReloadSecondInv, RecordInv
  DEF Handle, Change, Actors
<1>3. ASSUME NEW c \in LateConfigs, Apply(c) PROVE Inv'
  BY <1>3, ApplyInv
<1>4. CASE Attach
  BY <1>4, BuildExportersInv, BuildMeterInv, ConnectInv, AcquireInv,
     ReloadFirstInv, ReloadSecondInv, RecordInv
  DEF Attach, Change, Actors
<1>5. CASE UNCHANGED vars
  BY <1>5 DEF vars, Inv, TypeOK, ControlInv, LockInv, SwapInv, AgreeInv,
    RecordIsInstalled, Writing, Holding, Committed, FirstLayer, LastLayer
<1> QED
  BY <1>1, <1>2, <1>3, <1>4, <1>5 DEF Next, Quiescent

\* The inductive invariant of FilterControl.
THEOREM Invariance == Spec => []Inv
<1>1. Init => Inv
  BY InitInv
<1>2. Inv /\ [Next]_vars => Inv'
  BY NextInv
<1> QED
  BY <1>1, <1>2, PTL DEF Spec

\* Every variable keeps its type: no expression that does not parse is ever
\* installed or recorded, and no field of a response is invented.
THEOREM TypeCorrect == Spec => []TypeOK
BY Invariance, PTL DEF Inv

\* The recorded expression of a domain is never stale, for any number of
\* concurrent requests and with layers that refuse an expression half way.
THEOREM RecordNeverStale == Spec => []RecordIsInstalled
BY Invariance, PTL DEF Inv

\* The layers of a domain agree whenever its lock is free.
THEOREM LayersNeverDiverge == Spec => []LayersAgree
<1>1. Inv => LayersAgree
  <2> SUFFICES ASSUME Inv PROVE LayersAgree
    OBVIOUS
  <2>1. \A a \in Actors, d \in Domains :
          Free(d) => ~(pc[a] = "second" /\ job[a].domain = d)
    BY DEF Inv, LockInv, Free, Holding
  <2> QED
    BY <2>1 DEF Inv, AgreeInv, LayersAgree, Domains, FirstLayer, LastLayer
<1> QED
  BY <1>1, Invariance, PTL
=============================================================================
