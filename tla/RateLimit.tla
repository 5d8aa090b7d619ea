------------------------------- MODULE RateLimit -------------------------------
(***************************************************************************)
(* RateLimitFilter::allow under contention, one atomic operation per step. *)
(*                                                                         *)
(* Any number of threads ask whether their event may reach the OTLP log    *)
(* layer.  They share the limit, the second of the current window, the     *)
(* number of events counted in it, whether it has been warned about, and   *)
(* a flag that admits one warning thread at a time.  None of the steps is  *)
(* guarded by a lock, so the window may be moved and the counter reset     *)
(* between any two steps of another thread.  The memory is taken to be     *)
(* sequentially consistent.                                                *)
(***************************************************************************)
EXTENDS Naturals, FiniteSets

CONSTANTS
  Threads,     \* threads that log
  Unlimited,   \* the stored limit that means "no limit"
  Limit,       \* the limit a configuration sets
  MaxSecond,   \* bound: the last second of the clock
  MaxCalls,    \* bound: events per thread
  SpawnFails   \* TRUE iff spawning the warning thread may fail

ASSUME LimitAssumption   == Limit \in Nat /\ Unlimited \notin Nat
ASSUME BoundAssumption   == MaxSecond \in Nat /\ MaxCalls \in Nat
ASSUME SpawnAssumption   == SpawnFails \in BOOLEAN
ASSUME ThreadsAssumption == IsFiniteSet(Threads)

VARIABLES
  clock,    \* the Unix second
  limit,    \* limit_per_sec
  window,   \* current_second
  seen,     \* seen_this_second
  warned,   \* warning_emitted
  active,   \* warning_thread_active
  pc,       \* where each thread is in allow()
  lim,      \* the limit each thread loaded
  now,      \* the second each thread read from the clock
  prev,     \* the window each thread loaded
  helper,   \* the warning threads alive, by what they do next
  calls,    \* events each thread has logged so far
  granted,  \* events granted, by the second their thread read (history)
  spent,    \* events granted since the counter was last reset (history)
  warnings, \* whether a warning has been exported (history)
  rolls     \* how often the window moved in this second (history)

shared  == <<limit, window, seen, warned, active>>
local   == <<lim, now, prev, calls>>
history == <<granted, spent, warnings>>
vars    == <<clock, shared, pc, local, helper, history, rolls>>

Seconds   == 0..MaxSecond
Locations == {"idle", "clock", "window", "move", "resetSeen", "resetWarned",
              "count", "warn", "claim", "spawn"}

TypeOK ==
  /\ clock \in Seconds
  /\ limit \in {Limit, Unlimited}
  /\ window \in Seconds
  /\ seen \in Nat
  /\ warned \in BOOLEAN /\ active \in BOOLEAN
  /\ pc \in [Threads -> Locations]
  /\ lim \in [Threads -> {Limit, Unlimited}]
  /\ now \in [Threads -> Seconds]
  /\ prev \in [Threads -> Seconds]
  /\ helper \in [log : 0..Cardinality(Threads), clear : 0..Cardinality(Threads)]
  /\ calls \in [Threads -> Nat]
  /\ granted \in [Seconds -> Nat]
  /\ spent \in Nat
  /\ warnings \in BOOLEAN
  /\ rolls \in Nat

\* A filter is built with the limit of the configuration given to init(), or
\* without one for a later set_limit.
Init ==
  /\ clock = 0
  /\ limit \in {Limit, Unlimited}
  /\ window = 0
  /\ seen = 0
  /\ warned = FALSE /\ active = FALSE
  /\ pc = [t \in Threads |-> "idle"]
  /\ lim = [t \in Threads |-> Unlimited]
  /\ now = [t \in Threads |-> 0]
  /\ prev = [t \in Threads |-> 0]
  /\ helper = [log |-> 0, clear |-> 0]
  /\ calls = [t \in Threads |-> 0]
  /\ granted = [s \in Seconds |-> 0]
  /\ spent = 0
  /\ warnings = FALSE
  /\ rolls = 0

Goto(t, l) == pc' = [pc EXCEPT ![t] = l]

Tick ==
  /\ clock < MaxSecond
  /\ clock' = clock + 1
  /\ rolls' = 0
  /\ UNCHANGED <<shared, pc, local, helper, history>>

SetLimit ==
  /\ limit = Unlimited
  /\ limit' = Limit
  /\ UNCHANGED <<clock, rolls, window, seen, warned, active, pc, local, helper, history>>

-----------------------------------------------------------------------------
(* allow() *)

\* Every operator whose name ends in a suffix after "_" is the operator of
\* that name with a plausible bug; it is used only to confirm that a property
\* would notice.

\* Without a limit the event passes uncounted.
Enter(t) ==
  /\ pc[t] = "idle"
  /\ calls[t] < MaxCalls
  /\ calls' = [calls EXCEPT ![t] = @ + 1]
  /\ lim' = [lim EXCEPT ![t] = limit]
  /\ Goto(t, IF limit = Unlimited THEN "idle" ELSE "clock")
  /\ UNCHANGED <<clock, rolls, shared, now, prev, helper, history>>

ReadClock(t) ==
  /\ pc[t] = "clock"
  /\ now' = [now EXCEPT ![t] = clock]
  /\ Goto(t, "window")
  /\ UNCHANGED <<clock, rolls, shared, lim, prev, calls, helper, history>>

Current_Never(t) == FALSE
Current(t) == window = now[t]

ReadWindow(t) ==
  /\ pc[t] = "window"
  /\ prev' = [prev EXCEPT ![t] = window]
  /\ Goto(t, IF Current(t) THEN "count" ELSE "move")
  /\ UNCHANGED <<clock, rolls, shared, lim, now, calls, helper, history>>

\* compare_exchange: of the threads that loaded the same window, one moves it,
\* to the second it has read itself, which need not be the latest.
Wins(t) == window = prev[t]

MoveWindow(t) ==
  /\ pc[t] = "move"
  /\ IF Wins(t)
     THEN window' = now[t] /\ rolls' = rolls + 1 /\ Goto(t, "resetSeen")
     ELSE Goto(t, "count") /\ UNCHANGED <<window, rolls>>
  /\ UNCHANGED <<clock, limit, seen, warned, active, local, helper, history>>

ClearSeen_Missing == UNCHANGED seen
ClearSeen == seen' = 0

ResetSeen(t) ==
  /\ pc[t] = "resetSeen"
  /\ ClearSeen
  /\ spent' = 0
  /\ Goto(t, "resetWarned")
  /\ UNCHANGED <<clock, rolls, limit, window, warned, active, local, helper, granted,
                 warnings>>

ResetWarned(t) ==
  /\ pc[t] = "resetWarned"
  /\ warned' = FALSE
  /\ Goto(t, "count")
  /\ UNCHANGED <<clock, rolls, limit, window, seen, active, local, helper, history>>

Fits_OffByOne(t) == seen <= lim[t]
Fits(t) == seen < lim[t]

Count(t) ==
  /\ pc[t] = "count"
  /\ seen' = seen + 1
  /\ IF Fits(t)
     THEN /\ granted' = [granted EXCEPT ![now[t]] = @ + 1]
          /\ spent' = spent + 1
          /\ Goto(t, "idle")
     ELSE Goto(t, "warn") /\ UNCHANGED <<granted, spent>>
  /\ UNCHANGED <<clock, rolls, limit, window, warned, active, local, helper, warnings>>

\* The first dropped event of a window goes on to emit_rate_limit_warning.
Warn(t) ==
  /\ pc[t] = "warn"
  /\ warned' = TRUE
  /\ Goto(t, IF warned THEN "idle" ELSE "claim")
  /\ UNCHANGED <<clock, rolls, limit, window, seen, active, local, helper, history>>

\* A warning thread still active suppresses this warning.
MayClaim_Always == TRUE
MayClaim == ~active

ClaimFlag == active' = TRUE

Claim(t) ==
  /\ pc[t] = "claim"
  /\ ClaimFlag
  /\ Goto(t, IF MayClaim THEN "spawn" ELSE "idle")
  /\ UNCHANGED <<clock, rolls, limit, window, seen, warned, local, helper, history>>

Spawn(t) ==
  /\ pc[t] = "spawn"
  /\ Goto(t, "idle")
  /\ \/ helper' = [helper EXCEPT !.log = @ + 1] /\ UNCHANGED active
     \/ SpawnFails /\ active' = FALSE /\ UNCHANGED helper
  /\ UNCHANGED <<clock, rolls, limit, window, seen, warned, local, history>>

\* The warning itself has the internal target, which allow() lets through
\* without counting it, whatever the limit.  It is asked only about what the
\* filter of the layer has let through: a warning which that rejects is not
\* heard.
InternalPasses_Limited == limit = Unlimited \/ seen < limit
InternalPasses == TRUE

HelperLogs(heard) ==
  /\ helper.log > 0
  /\ helper' = [log |-> helper.log - 1, clear |-> helper.clear + 1]
  /\ warnings' = (warnings \/ (heard /\ InternalPasses))
  /\ UNCHANGED <<clock, rolls, shared, pc, local, granted, spent>>

ClearActive_Never == UNCHANGED active
ClearActive == active' = FALSE

HelperEnds ==
  /\ helper.clear > 0
  /\ ClearActive
  /\ helper' = [helper EXCEPT !.clear = @ - 1]
  /\ UNCHANGED <<clock, rolls, limit, window, seen, warned, pc, local, history>>

Allow(t) == \/ ReadClock(t) \/ ReadWindow(t) \/ MoveWindow(t) \/ ResetSeen(t)
            \/ ResetWarned(t) \/ Count(t) \/ Warn(t) \/ Claim(t) \/ Spawn(t)

Quiescent ==
  /\ clock = MaxSecond
  /\ \A t \in Threads : pc[t] = "idle" /\ calls[t] = MaxCalls
  /\ helper = [log |-> 0, clear |-> 0]
  /\ UNCHANGED vars

Next ==
  \/ Tick
  \/ SetLimit
  \/ \E t \in Threads : Enter(t) \/ Allow(t)
  \/ \E heard \in BOOLEAN : HelperLogs(heard)
  \/ HelperEnds
  \/ Quiescent

Spec == Init /\ [][Next]_vars

\* Threads in allow() and warning threads are scheduled.
FairSpec ==
  /\ Spec
  /\ \A t \in Threads : WF_vars(Allow(t))
  /\ WF_vars(\E heard \in BOOLEAN : HelperLogs(heard))
  /\ WF_vars(HelperEnds)

-----------------------------------------------------------------------------
\* "At most one helper thread is active at a time".
OneHelper == helper.log + helper.clear <= 1

\* Whatever the interleaving, the events granted since the counter was last
\* reset are exactly those the counter says fit: no grant is lost to a race,
\* none is given twice, and events are dropped only once the limit is spent.
Lesser(a, b) == IF a < b THEN a ELSE b
BudgetExact == spent = Lesser(seen, Limit)

\* How approximate "intentionally approximate under contention" is.  Only a
\* call that read the clock before a second began can move the window back in
\* that second, and each does so once at most, so the counter is reset a number
\* of times that does not depend on how many events there are.
RollsBounded == rolls <= 2 * Cardinality(Threads)

\* Without contention the limit is exact: as long as a single thread has
\* logged, no second has more events than the limit, whatever the window went
\* through.
ExactAlone ==
  (\E t \in Threads : \A u \in Threads \ {t} : calls[u] = 0)
    => \A s \in Seconds : granted[s] <= Limit

\* The next window can warn again: a warning thread clears its flag.
HelperIsReleased == active ~> ~active
=============================================================================
