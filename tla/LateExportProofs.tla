--------------------------- MODULE LateExportProofs ---------------------------
(***************************************************************************)
(* Attaching to a deferred log layer loses no event, lets none past the    *)
(* configured limit and leaves the accounting of the limit exact, for any  *)
(* number of threads, any limit, any number of events and any clock.       *)
(*                                                                         *)
(* The steps of this composition are those RateLimit allows, so its limit  *)
(* is argued from the steps of RateLimit alone (BudgetInv); what attach()  *)
(* has done by the time an event gets somewhere is AttachInv.              *)
(***************************************************************************)
EXTENDS LateExport, TLAPS

USE LimitAssumption

-----------------------------------------------------------------------------
(* The layer limits as RateLimit does *)

\* attach(), log control and the threads leave the state of the rate limit
\* alone or change it as RateLimit does.
LEMMA StepIsRateStep ==
  ASSUME [Next]_vars
  PROVE  [Rate!Next]_(Rate!vars)
<1>1. rateVars' = rateVars => Rate!vars' = Rate!vars
  BY DEF rateVars, Rate!vars, Rate!shared, Rate!local, Rate!history
<1>2. CASE FillSlots \/ ReloadFilter \/ Publish \/ Retune \/ UNCHANGED vars
  BY <1>1, <1>2 DEF FillSlots, ReloadFilter, Publish, Retune, vars
<1>3. CASE SetLimit
  BY <1>1, <1>3 DEF SetLimit, Rate!Next
<1>4. ASSUME NEW t \in Threads, Emit(t) \/ AskLimit(t) \/ Allow(t) \/ Process(t)
      PROVE  [Rate!Next]_(Rate!vars)
  BY <1>1, <1>4 DEF Emit, AskLimit, Allow, Process, Rate!Next
<1>5. CASE Tick \/ Helper
  <2>1. Helper => (\E heard \in BOOLEAN : Rate!HelperLogs(heard)) \/ Rate!HelperEnds
    <3> DEFINE heard == "warning" \in open
    <3>1. heard \in BOOLEAN
      BY SMT
    <3>2. Helper => Rate!HelperLogs(heard) \/ Rate!HelperEnds
      BY Zenon DEF Helper
    <3> HIDE DEF heard
    <3> QED
      BY <3>1, <3>2
  <2> QED
    BY <1>5, <2>1 DEF Tick, Rate!Next
<1> QED
  BY <1>2, <1>3, <1>4, <1>5 DEF Next

\* The log layer under attach() implements the rate limit as it stands alone.
THEOREM LimitsLikeRateLimit == Spec => Rate!Spec
<1>1. Init => Rate!Init
  BY DEF Init
<1> QED
  BY <1>1, StepIsRateStep, PTL DEF Spec, Rate!Spec

\* A thread inside allow() works with the configured limit, and the grants
\* since the last reset follow the counter up to that limit.
BudgetInv ==
  /\ limit \in {Limit, Unlimited}
  /\ pc \in [Threads -> Rate!Locations]
  /\ lim \in [Threads -> {Limit, Unlimited}]
  /\ \A t \in Threads : pc[t] # "idle" => lim[t] = Limit
  /\ seen \in Nat
  /\ Rate!BudgetExact

\* Nothing is counted and nothing is granted.
LEMMA BudgetInit == Init => BudgetInv
BY DEF Init, Rate!Init, BudgetInv, Rate!BudgetExact, Rate!Lesser, Rate!Locations

\* The budget is exact whatever the interleaving of the threads that count and
\* reset.
LEMMA BudgetNext ==
  ASSUME BudgetInv, [Rate!Next]_(Rate!vars)
  PROVE  BudgetInv'
<1> USE DEF BudgetInv, Rate!BudgetExact, Rate!Lesser
<1>1. ASSUME NEW t \in Threads, Rate!Enter(t)
      PROVE  BudgetInv'
  BY <1>1 DEF Rate!Enter, Rate!Goto, Rate!Locations, Rate!shared, Rate!history
<1>2. ASSUME NEW t \in Threads, Rate!Allow(t)
      PROVE  BudgetInv'
  <2> USE DEF Rate!Goto
  <2>0. pc[t] # "idle" /\ lim[t] = Limit
    BY <1>2 DEF Rate!Allow, Rate!ReadClock, Rate!ReadWindow, Rate!MoveWindow,
       Rate!ResetSeen, Rate!ResetWarned, Rate!Count, Rate!Warn, Rate!Claim,
       Rate!Spawn
  <2>1. CASE Rate!Count(t)
    BY <2>0, <2>1 DEF Rate!Count, Rate!Fits, Rate!Locations, Rate!local
  <2>2. CASE Rate!ResetSeen(t)
    BY <2>0, <2>2 DEF Rate!ResetSeen, Rate!ClearSeen, Rate!Locations, Rate!local
  <2>3. CASE ~Rate!Count(t) /\ ~Rate!ResetSeen(t)
    <3>1. UNCHANGED <<limit, lim, seen, spent>>
      BY <1>2, <2>3 DEF Rate!Allow, Rate!ReadClock, Rate!ReadWindow,
         Rate!MoveWindow, Rate!ResetWarned, Rate!Warn, Rate!Claim, Rate!Spawn,
         Rate!shared, Rate!local, Rate!history
    <3>2. \E l \in Rate!Locations : pc' = [pc EXCEPT ![t] = l]
      BY <1>2, <2>3, Zenon DEF Rate!Allow, Rate!ReadClock, Rate!ReadWindow,
         Rate!MoveWindow, Rate!ResetWarned, Rate!Warn, Rate!Claim, Rate!Spawn,
         Rate!Locations
    <3> QED
      BY <2>0, <3>1, <3>2
  <2> QED
    BY <2>1, <2>2, <2>3
<1>3. CASE Rate!SetLimit
  BY <1>3 DEF Rate!SetLimit, Rate!local, Rate!history
<1>4. CASE \/ Rate!Tick \/ (\E heard \in BOOLEAN : Rate!HelperLogs(heard))
           \/ Rate!HelperEnds \/ UNCHANGED Rate!vars
  BY <1>4 DEF Rate!Tick, Rate!HelperLogs, Rate!HelperEnds, Rate!ClearActive,
     Rate!vars, Rate!shared, Rate!local, Rate!history
<1> QED
  BY <1>1, <1>2, <1>3, <1>4 DEF Rate!Next, Rate!Quiescent

-----------------------------------------------------------------------------
(* The order of attach() *)

\* An event is on its way only once the slot is filled and the limit is in
\* force: the filter was opened last.  A thread is inside allow() exactly while
\* its event is being limited.
AttachInv ==
  /\ attached \in 0..4
  /\ {limited, lost} \subseteq BOOLEAN
  /\ event \in [Threads -> {"none", "filtered", "limiting", "passed"}]
  /\ attached > 0 => filled = TRUE
  /\ attached > 1 /\ limited => limit = Limit
  /\ ~limited => limit = Unlimited
  /\ attached < 3 => open = {} /\ seen = 0
  /\ \A t \in Threads :
       /\ event[t] # "none" => attached > 2
       /\ event[t] = "limiting" <=> pc[t] # "idle"
       /\ limited /\ event[t] \in {"limiting", "passed"} => lim[t] = Limit
  /\ lost = FALSE

\* Nothing is attached and no thread has logged.
LEMMA AttachInit == Init => AttachInv
<1>1. Init => {limited, lost} \subseteq BOOLEAN
  BY Zenon DEF Init
<1> QED
  BY <1>1 DEF Init, Rate!Init, AttachInv

\* attach() opens the filter only after the slot and the limit are in place.
LEMMA AttachStep ==
  ASSUME AttachInv, FillSlots \/ SetLimit \/ ReloadFilter \/ Publish \/ Retune
  PROVE  AttachInv'
<1> USE DEF AttachInv, Comes, Order, rateVars, layer
<1>1. CASE FillSlots
  BY <1>1 DEF FillSlots
<1>2. CASE SetLimit
  <2>1. attached = 1 /\ attached' = 2 /\ UNCHANGED <<limited, layer, event, lost>>
    BY <1>2 DEF SetLimit
  <2>2. UNCHANGED <<seen, pc, lim>> /\ limit' = IF limited THEN Limit ELSE limit
    BY <1>2 DEF SetLimit, Rate!SetLimit, Rate!local
  <2> QED
    BY <2>1, <2>2
<1>3. CASE ReloadFilter
  BY <1>3 DEF ReloadFilter
<1>4. CASE Publish
  BY <1>4 DEF Publish
<1>5. CASE Retune
  BY <1>5 DEF Retune
<1> QED
  BY <1>1, <1>2, <1>3, <1>4, <1>5

\* An event is let through by an open filter, and counted against the limit.
LEMMA AttachEvent ==
  ASSUME BudgetInv, AttachInv, NEW t \in Threads,
         Emit(t) \/ AskLimit(t) \/ Allow(t) \/ Process(t)
  PROVE  AttachInv'
<1>1. CASE Emit(t)
  BY <1>1 DEF AttachInv, Emit, TestFilter, At, rateVars, layer
<1>2. CASE AskLimit(t)
  <2>1. /\ event[t] = "filtered" /\ pc[t] = "idle"
        /\ lim' = [lim EXCEPT ![t] = limit]
        /\ pc' = [pc EXCEPT ![t] = IF limit = Unlimited THEN "idle" ELSE "clock"]
        /\ UNCHANGED <<limit, seen, limited, attached, filled, open, lost>>
    BY <1>2 DEF AskLimit, Rate!Enter, Rate!Goto, Rate!shared, layer
  <2>2. pc'[t] = IF limit = Unlimited THEN "idle" ELSE "clock"
    BY <2>1 DEF BudgetInv
  <2>3. event' = [event EXCEPT ![t] =
                    IF limit = Unlimited THEN "passed" ELSE "limiting"]
    BY <1>2, <2>2 DEF AskLimit, Decide, At
  <2>4. \A u \in Threads \ {t} : UNCHANGED <<pc[u], lim[u], event[u]>>
    BY <2>1, <2>3 DEF BudgetInv, AttachInv
  <2>5. lim'[t] = limit
    BY <2>1 DEF BudgetInv
  <2>6. event'[t] = IF limit = Unlimited THEN "passed" ELSE "limiting"
    BY <2>3 DEF AttachInv
  <2> QED
    BY <2>1, <2>2, <2>3, <2>4, <2>5, <2>6 DEF AttachInv
<1>3. CASE Allow(t)
  <2>1. /\ event[t] = "limiting"
        /\ UNCHANGED <<limit, lim, limited, attached, filled, open, lost>>
    BY <1>3 DEF Allow, Rate!Allow, Rate!ReadClock, Rate!ReadWindow,
       Rate!MoveWindow, Rate!ResetSeen, Rate!ResetWarned, Rate!Count, Rate!Warn,
       Rate!Claim, Rate!Spawn, Rate!shared, Rate!local, Rate!history, layer
  <2>2. \E l \in Rate!Locations : pc' = [pc EXCEPT ![t] = l]
    BY <1>3, Zenon DEF Allow, Rate!Allow, Rate!ReadClock, Rate!ReadWindow,
       Rate!MoveWindow, Rate!ResetSeen, Rate!ResetWarned, Rate!Count, Rate!Warn,
       Rate!Claim, Rate!Spawn, Rate!Goto, Rate!Locations
  <2>3. \E l \in {"none", "limiting", "passed"} :
          /\ event' = [event EXCEPT ![t] = l]
          /\ l = "limiting" <=> pc'[t] # "idle"
    BY <1>3 DEF Allow, Decide, At
  <2>4. \A u \in Threads \ {t} : UNCHANGED <<pc[u], event[u]>>
    BY <2>2, <2>3 DEF BudgetInv, AttachInv
  <2>5. attached > 2
    BY <2>1 DEF AttachInv
  <2>6. /\ event'[t] \in {"none", "limiting", "passed"}
        /\ event'[t] = "limiting" <=> pc'[t] # "idle"
        /\ event' \in [Threads -> {"none", "filtered", "limiting", "passed"}]
    BY <2>3 DEF AttachInv
  <2> QED
    BY <2>1, <2>4, <2>5, <2>6 DEF AttachInv
<1>4. CASE Process(t)
  <2>1. filled = TRUE
    BY <1>4 DEF AttachInv, Process
  <2>2. lost' = FALSE
    BY <1>4, <2>1 DEF AttachInv, Process
  <2> QED
    BY <1>4, <2>2 DEF AttachInv, Process, At, rateVars, layer
<1> QED
  BY <1>1, <1>2, <1>3, <1>4

\* No step of the composition upsets the order of attach().
LEMMA AttachNext ==
  ASSUME BudgetInv, AttachInv, [Next]_vars
  PROVE  AttachInv'
<1>1. CASE Tick \/ Helper \/ UNCHANGED vars
  <2>1. UNCHANGED <<limit, seen, pc, lim, limited, attached, filled, open, event,
                    lost>>
    BY <1>1 DEF Tick, Helper, Rate!Tick, Rate!HelperLogs, Rate!HelperEnds,
       Rate!shared, Rate!local, vars, rateVars, layer
  <2> QED
    BY <2>1 DEF AttachInv
<1> QED
  BY <1>1, AttachStep, AttachEvent DEF Next

\* The two invariants are kept together: the second rests on the first.
LEMMA InvNext ==
  ASSUME BudgetInv, AttachInv, [Next]_vars
  PROVE  (BudgetInv /\ AttachInv)'
BY StepIsRateStep, BudgetNext, AttachNext

\* Whatever the interleaving of attach(), log control and the threads.
THEOREM AttachInvariance == Spec => [](BudgetInv /\ AttachInv)
BY BudgetInit, AttachInit, InvNext, PTL DEF Spec

\* No event that passes the filter and the rate limit is without a processor.
THEOREM NoEventLost == Spec => []NoneLost
<1>1. AttachInv => NoneLost
  BY DEF AttachInv, NoneLost
<1> QED
  BY <1>1, AttachInvariance, PTL

\* No event passes the layer that was not counted against a configured limit.
THEOREM NoEventUnlimited == Spec => []NoneUnlimited
<1>1. AttachInv => NoneUnlimited
  BY DEF AttachInv, NoneUnlimited
<1> QED
  BY <1>1, AttachInvariance, PTL

\* Attaching keeps the accounting exact, and a closed filter costs no budget.
THEOREM BudgetUndisturbed == Spec => []BudgetIsUndisturbed
<1>1. BudgetInv /\ AttachInv => BudgetIsUndisturbed
  BY DEF BudgetInv, AttachInv, BudgetIsUndisturbed
<1> QED
  BY <1>1, AttachInvariance, PTL
==============================================================================
