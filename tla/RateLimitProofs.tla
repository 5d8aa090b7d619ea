---------------------------- MODULE RateLimitProofs ----------------------------
(***************************************************************************)
(* The invariants of RateLimit for any number of threads, any limit, any   *)
(* number of events and any clock: at most one warning thread, exact       *)
(* accounting between two resets of the counter, a bound on the resets in  *)
(* one second, and an exact limit for a thread that logs alone.            *)
(***************************************************************************)
EXTENDS RateLimit, FiniteSetTheorems, TLAPS

USE LimitAssumption, BoundAssumption, SpawnAssumption, ThreadsAssumption

-----------------------------------------------------------------------------
(* The warning thread *)

FlagType == active \in BOOLEAN

\* The flag is up exactly as long as one thread is about to spawn a warning
\* thread or one warning thread is alive.
FlagInv ==
  /\ FlagType
  /\ helper \in [log : Nat, clear : Nat]
  /\ pc \in [Threads -> Locations]
  /\ \A t, u \in Threads : pc[t] = "spawn" /\ pc[u] = "spawn" => t = u
  /\ (\E t \in Threads : pc[t] = "spawn")
       => active = TRUE /\ helper.log + helper.clear = 0
  /\ helper.log + helper.clear <= 1
  /\ helper.log + helper.clear = 1 => active = TRUE

\* The flag is down and nobody is about to spawn.
LEMMA FlagInit == Init => FlagInv
<1> SUFFICES ASSUME Init PROVE FlagInv
  OBVIOUS
<1>1. /\ active = FALSE
      /\ helper = [log |-> 0, clear |-> 0]
      /\ pc = [t \in Threads |-> "idle"]
  BY DEF Init
<1>2. pc \in [Threads -> Locations] /\ \A t \in Threads : pc[t] # "spawn"
  BY <1>1 DEF Locations
<1>3. /\ helper \in [log : Nat, clear : Nat]
      /\ helper.log + helper.clear = 0
  BY <1>1
<1>4. FlagType
  BY <1>1 DEF FlagType
<1> QED
  BY <1>1, <1>2, <1>3, <1>4 DEF FlagInv

\* A step that neither takes the flag nor concerns a warning thread.
LEMMA FlagKept ==
  ASSUME FlagInv, NEW t \in Threads, NEW l \in Locations \ {"spawn"},
         Goto(t, l), UNCHANGED <<active, helper>>
  PROVE  FlagInv'
<1>1. FlagType'
  BY DEF FlagInv, FlagType
<1> QED
  BY <1>1 DEF FlagInv, Goto

\* The flag is swapped: only the thread that found it down goes on to spawn.
LEMMA FlagClaimed ==
  ASSUME FlagInv, NEW t \in Threads, Claim(t)
  PROVE  FlagInv'
<1>1. CASE active
  <2>1. active' = active
    BY <1>1 DEF Claim, ClaimFlag, FlagInv, FlagType
  <2> QED
    BY <1>1, <2>1, FlagKept DEF Claim, MayClaim, Locations
<1>2. CASE ~active
  <2>1. /\ pc' = [pc EXCEPT ![t] = "spawn"]
        /\ active' = TRUE
        /\ helper' = helper
    BY <1>2 DEF Claim, ClaimFlag, MayClaim, Goto
  <2>2. /\ \A u \in Threads : pc[u] # "spawn"
        /\ helper.log + helper.clear = 0
    BY <1>2 DEF FlagInv
  <2>3. FlagType'
    BY <2>1 DEF FlagType
  <2> QED
    BY <2>1, <2>2, <2>3 DEF FlagInv, Locations
<1> QED
  BY <1>1, <1>2

\* The claim becomes a warning thread, or is given back.
LEMMA FlagSpawned ==
  ASSUME FlagInv, NEW t \in Threads, Spawn(t)
  PROVE  FlagInv'
<1>1. /\ pc[t] = "spawn"
      /\ pc' = [pc EXCEPT ![t] = "idle"]
  BY DEF Spawn, Goto
<1>2. \A u \in Threads : pc'[u] # "spawn"
  BY <1>1 DEF FlagInv
<1>3. pc' \in [Threads -> Locations]
  BY <1>1 DEF FlagInv, Locations
<1>4. CASE helper' = [helper EXCEPT !.log = @ + 1] /\ UNCHANGED active
  <2>1. FlagType'
    BY <1>4 DEF FlagInv, FlagType
  <2>2. active = TRUE /\ helper.log + helper.clear = 0
    BY <1>1 DEF FlagInv
  <2>3. /\ helper' \in [log : Nat, clear : Nat]
        /\ helper'.log + helper'.clear = 1
    BY <1>4, <2>2 DEF FlagInv
  <2> QED
    BY <1>2, <1>3, <1>4, <2>1, <2>2, <2>3 DEF FlagInv
<1>5. CASE active' = FALSE /\ UNCHANGED helper
  <2>1. FlagType'
    BY <1>5 DEF FlagType
  <2>2. helper.log + helper.clear = 0
    BY <1>1 DEF FlagInv
  <2> QED
    BY <1>2, <1>3, <1>5, <2>1, <2>2 DEF FlagInv
<1> QED
  BY <1>4, <1>5 DEF Spawn

\* The warning thread logs and then lowers the flag.
LEMMA FlagHelper ==
  ASSUME FlagInv, (\E heard \in BOOLEAN : HelperLogs(heard)) \/ HelperEnds
  PROVE  FlagInv'
<1>1. pc' = pc
  BY DEF HelperLogs, HelperEnds
<1>2. CASE \E heard \in BOOLEAN : HelperLogs(heard)
  <2>1. active' = active /\ FlagType'
    BY <1>2 DEF FlagInv, FlagType, HelperLogs, shared
  <2>2. /\ helper' \in [log : Nat, clear : Nat]
        /\ helper'.log + helper'.clear = helper.log + helper.clear
    BY <1>2 DEF FlagInv, HelperLogs
  <2> QED
    BY <1>1, <2>1, <2>2 DEF FlagInv
<1>3. CASE HelperEnds
  <2>1. FlagType'
    BY <1>3 DEF FlagType, HelperEnds, ClearActive
  <2>2. helper.log + helper.clear = 1 /\ \A t \in Threads : pc[t] # "spawn"
    BY <1>3 DEF FlagInv, HelperEnds
  <2>3. /\ helper' \in [log : Nat, clear : Nat]
        /\ helper'.log + helper'.clear = 0
    BY <1>3, <2>2 DEF FlagInv, HelperEnds
  <2> QED
    BY <1>1, <2>1, <2>2, <2>3 DEF FlagInv
<1> QED
  BY <1>2, <1>3

\* Every step.
LEMMA FlagNext ==
  ASSUME FlagInv, [Next]_vars
  PROVE  FlagInv'
<1>1. ASSUME NEW t \in Threads, Enter(t) \/ Allow(t)
      PROVE  FlagInv'
  <2>1. CASE Claim(t) \/ Spawn(t)
    BY <2>1, FlagClaimed, FlagSpawned
  <2>2. CASE ~(Claim(t) \/ Spawn(t))
    <3>1. UNCHANGED <<active, helper>>
      BY <1>1, <2>2 DEF Enter, Allow, ReadClock, ReadWindow, MoveWindow,
        ResetSeen, ResetWarned, Count, Warn, shared, history
    <3>2. \E l \in Locations \ {"spawn"} : Goto(t, l)
      BY <1>1, <2>2, Zenon DEF Enter, Allow, ReadClock, ReadWindow, MoveWindow,
        ResetSeen, ResetWarned, Count, Warn, Locations
    <3> QED
      BY <3>1, <3>2, FlagKept
  <2> QED
    BY <2>1, <2>2
<1>2. CASE (\E heard \in BOOLEAN : HelperLogs(heard)) \/ HelperEnds
  BY <1>2, FlagHelper
<1>3. CASE Tick \/ SetLimit \/ UNCHANGED vars
  <2>1. UNCHANGED <<active, helper, pc>> /\ FlagType'
    BY <1>3 DEF FlagInv, FlagType, Tick, SetLimit, vars, shared
  <2> QED
    BY <2>1 DEF FlagInv
<1> QED
  BY <1>1, <1>2, <1>3 DEF Next, Quiescent

\* "At most one helper thread is active at a time", however many threads drop
\* events at once, across windows, and when spawning fails.
THEOREM AtMostOneHelper == Spec => []OneHelper
<1>1. FlagInv => OneHelper
  BY DEF FlagInv, OneHelper
<1> QED
  BY <1>1, FlagInit, FlagNext, PTL DEF Spec

-----------------------------------------------------------------------------
(* The budget *)

\* A thread inside allow() works with the configured limit, and the grants
\* since the last reset follow the counter up to that limit.
BudgetInv ==
  /\ limit \in {Limit, Unlimited}
  /\ pc \in [Threads -> Locations]
  /\ lim \in [Threads -> {Limit, Unlimited}]
  /\ \A t \in Threads : pc[t] # "idle" => lim[t] = Limit
  /\ seen \in Nat
  /\ BudgetExact

\* Nothing is counted, and nothing granted.
LEMMA BudgetInit == Init => BudgetInv
BY DEF Init, BudgetInv, BudgetExact, Lesser, Locations

\* Every step.
LEMMA BudgetNext ==
  ASSUME BudgetInv, [Next]_vars
  PROVE  BudgetInv'
<1> USE DEF BudgetInv, BudgetExact, Lesser
<1>1. ASSUME NEW t \in Threads, Enter(t)
      PROVE  BudgetInv'
  BY <1>1 DEF Enter, Goto, Locations, shared, history
<1>2. ASSUME NEW t \in Threads, Allow(t)
      PROVE  BudgetInv'
  <2>0. pc[t] # "idle" /\ lim[t] = Limit
    BY <1>2 DEF Allow, ReadClock, ReadWindow, MoveWindow, ResetSeen, ResetWarned,
      Count, Warn, Claim, Spawn
  <2>1. CASE Count(t)
    BY <2>0, <2>1 DEF Count, Fits, Goto, Locations, local
  <2>2. CASE ResetSeen(t)
    BY <2>0, <2>2 DEF ResetSeen, ClearSeen, Goto, Locations, local
  <2>3. CASE ~Count(t) /\ ~ResetSeen(t)
    <3>1. UNCHANGED <<limit, lim, seen, spent>>
      BY <1>2, <2>3 DEF Allow, ReadClock, ReadWindow, MoveWindow, ResetWarned,
        Warn, Claim, Spawn, shared, local, history
    <3>2. \E l \in Locations : Goto(t, l)
      BY <1>2, <2>3, Zenon DEF Allow, ReadClock, ReadWindow, MoveWindow, ResetWarned,
        Warn, Claim, Spawn, Locations
    <3> QED
      BY <2>0, <3>1, <3>2 DEF Goto
  <2> QED
    BY <2>1, <2>2, <2>3
<1>3. CASE SetLimit
  BY <1>3 DEF SetLimit, local, history
<1>4. CASE \/ Tick \/ HelperEnds \/ UNCHANGED vars
           \/ \E heard \in BOOLEAN : HelperLogs(heard)
  BY <1>4 DEF Tick, HelperLogs, HelperEnds, ClearActive, vars, shared, local, history
<1> QED
  BY <1>1, <1>2, <1>3, <1>4 DEF Next, Quiescent

\* Between two resets exactly the first Limit events counted are granted,
\* whatever the interleaving of the threads that count and reset.
THEOREM BudgetIsExact == Spec => []BudgetExact
<1>1. BudgetInv => BudgetExact
  BY DEF BudgetInv
<1> QED
  BY <1>1, BudgetInit, BudgetNext, PTL DEF Spec
-----------------------------------------------------------------------------
(* How often the window moves in one second *)

\* The calls that read the clock before this second began and have still to
\* try to move the window.
Stale == {t \in Threads : pc[t] \in {"window", "move"} /\ now[t] # clock}

\* A call that has read the clock in this second can move the window: it is
\* elsewhere, and not every thread is in a stale call.
Catchup == IF window # clock /\ Stale # Threads THEN 1 ELSE 0

\* Each stale call may move the window back once, and each time one fresh call
\* may move it forward again.
RollsInv ==
  /\ rolls \in Nat /\ clock \in Seconds /\ window \in Seconds
  /\ pc \in [Threads -> Locations]
  /\ now \in [Threads -> Seconds] /\ prev \in [Threads -> Seconds]
  /\ \A t \in Threads : pc[t] = "move" => prev[t] # now[t]
  /\ rolls + 2 * Cardinality(Stale) + Catchup <= 2 * Cardinality(Threads)

\* How many calls are stale.
LEMMA StaleNumber ==
  ASSUME NEW S, S \subseteq Threads
  PROVE  /\ Cardinality(S) \in Nat /\ Cardinality(Threads) \in Nat
         /\ Cardinality(S) <= Cardinality(Threads)
         /\ S # Threads => Cardinality(S) <= Cardinality(Threads) - 1
         /\ \A t \in S : Cardinality(S \ {t}) = Cardinality(S) - 1
<1>1. IsFiniteSet(S)
  BY FS_Subset
<1>2. Cardinality(S) \in Nat /\ Cardinality(Threads) \in Nat
  BY <1>1, FS_CardinalityType
<1>3. /\ Cardinality(S) <= Cardinality(Threads)
      /\ Cardinality(S) = Cardinality(Threads) => S = Threads
  BY FS_Subset
<1>4. \A t \in S : Cardinality(S \ {t}) = Cardinality(S) - 1
  BY <1>1, FS_RemoveElement
<1> QED
  BY <1>2, <1>3, <1>4

\* No second begins with more than two moves of the window per thread to come.
LEMMA RollsFresh ==
  ASSUME rolls' = 0
  PROVE  rolls' + 2 * Cardinality(Stale') + Catchup' <= 2 * Cardinality(Threads)
<1> DEFINE k == Cardinality(Stale')
           n == Cardinality(Threads)
<1>1. Stale' \subseteq Threads
  BY DEF Stale
<1>2. k \in Nat /\ n \in Nat /\ k <= n /\ (Stale' # Threads => k <= n - 1)
  BY <1>1, StaleNumber
<1>3. Catchup' = 0 \/ (Catchup' = 1 /\ Stale' # Threads)
  BY DEF Catchup
<1> HIDE DEF k, n
<1>4. rolls' + 2 * k + Catchup' <= 2 * n
  BY <1>2, <1>3
<1> QED
  BY <1>4 DEF k, n

\* No second has begun.
LEMMA RollsInit == Init => RollsInv
<1> SUFFICES ASSUME Init PROVE RollsInv
  OBVIOUS
<1>1. /\ pc = [t \in Threads |-> "idle"] /\ rolls = 0 /\ clock = 0 /\ window = 0
  BY DEF Init
<1>2. 0 \in Seconds
  BY DEF Seconds
<1>3. now \in [Threads -> Seconds] /\ prev \in [Threads -> Seconds]
  BY <1>2 DEF Init
<1>4. Stale = {} /\ Catchup = 0
  BY <1>1 DEF Stale, Catchup
<1>5. Cardinality(Stale) = 0 /\ Cardinality(Threads) \in Nat
  BY <1>4, FS_EmptySet, FS_CardinalityType
<1> QED
  BY <1>1, <1>2, <1>3, <1>4, <1>5 DEF RollsInv, Locations

\* A step that leaves the window, and makes no call stale.
LEMMA RollsKept ==
  ASSUME RollsInv, UNCHANGED <<clock, window, rolls>>,
         Stale' = Stale \/ \E t \in Stale : Stale' = Stale \ {t}
  PROVE  rolls' + 2 * Cardinality(Stale') + Catchup' <= 2 * Cardinality(Threads)
<1> DEFINE k == Cardinality(Stale)
           l == Cardinality(Stale')
           n == Cardinality(Threads)
<1>1. Stale \subseteq Threads
  BY DEF Stale
<1>2. k \in Nat /\ n \in Nat /\ (l = k \/ l = k - 1)
  BY <1>1, StaleNumber
<1>3. Catchup \in {0, 1} /\ Catchup' \in {0, 1}
  BY DEF Catchup
<1>4. l = k => Stale' = Stale
  BY <1>1, StaleNumber
<1>5. Stale' = Stale => Catchup' = Catchup
  BY DEF Catchup
<1>6. rolls \in Nat /\ rolls' = rolls /\ rolls + 2 * k + Catchup <= 2 * n
  BY DEF RollsInv
<1> HIDE DEF k, l, n
<1>7. rolls' + 2 * l + Catchup' <= 2 * n
  BY <1>2, <1>3, <1>4, <1>5, <1>6
<1> QED
  BY <1>7 DEF k, l, n

\* A stale call is worth two moves, its own and the one that undoes it.
LEMMA MovePaid ==
  ASSUME NEW r \in Nat, NEW k \in Nat, NEW n \in Nat,
         NEW c \in {0, 1}, NEW d \in {0, 1}, r + 2 * k + c <= 2 * n
  PROVE  (r + 1) + 2 * (k - 1) + d <= 2 * n
OBVIOUS

\* A call moves the window: a stale one spends its move, a fresh one was owed it.
LEMMA RollsSpent ==
  ASSUME RollsInv, NEW t \in Threads, pc[t] = "move", Wins(t),
         window' = now[t], rolls' = rolls + 1, clock' = clock,
         Stale' = Stale \ {t}
  PROVE  rolls' + 2 * Cardinality(Stale') + Catchup' <= 2 * Cardinality(Threads)
<1> DEFINE k == Cardinality(Stale)
           l == Cardinality(Stale')
           n == Cardinality(Threads)
<1>1. Stale \subseteq Threads
  BY DEF Stale
<1>2. k \in Nat /\ n \in Nat
  BY <1>1, StaleNumber
<1>3. Catchup \in {0, 1} /\ Catchup' \in {0, 1}
  BY DEF Catchup
<1>4. rolls \in Nat /\ rolls + 2 * k + Catchup <= 2 * n
  BY DEF RollsInv
<1>5. CASE t \in Stale
  <2>1. l = k - 1
    BY <1>1, <1>5, StaleNumber
  <2> QED
    BY <1>2, <1>3, <1>4, <2>1, MovePaid
<1>6. CASE t \notin Stale
  <2>1. Stale' = Stale /\ Stale # Threads
    BY <1>6
  <2>2. now[t] = clock
    BY <1>6 DEF Stale
  <2>3. window # clock
    BY <2>2 DEF RollsInv, Wins
  <2>4. Catchup = 1 /\ Catchup' = 0
    BY <2>1, <2>2, <2>3 DEF Catchup
  <2>5. l = k
    BY <2>1
  <2> HIDE DEF k, l, n
  <2>6. rolls' + 2 * l + Catchup' <= 2 * n
    BY <1>2, <1>4, <2>4, <2>5
  <2> QED
    BY <2>6 DEF k, l, n
<1> QED
  BY <1>5, <1>6

\* A call becomes stale only when the second ends.
LEMMA StaleSteps ==
  ASSUME RollsInv, NEW t \in Threads, Enter(t) \/ Allow(t)
  PROVE  /\ pc' \in [Threads -> Locations] /\ clock' = clock
         /\ now' \in [Threads -> Seconds] /\ prev' \in [Threads -> Seconds]
         /\ \A u \in Threads : pc'[u] = "move" => prev'[u] # now'[u]
         /\ IF MoveWindow(t) THEN Stale' = Stale \ {t}
            ELSE /\ UNCHANGED <<window, rolls>>
                 /\ Stale' = Stale \/ \E u \in Stale : Stale' = Stale \ {u}
<1>0. /\ pc \in [Threads -> Locations]
      /\ now \in [Threads -> Seconds] /\ prev \in [Threads -> Seconds]
      /\ \A u \in Threads : pc[u] = "move" => prev[u] # now[u]
  BY DEF RollsInv
<1>1. CASE ReadClock(t)
  <2>1. pc[t] = "clock" /\ pc' = [pc EXCEPT ![t] = "window"] /\ ~MoveWindow(t)
    BY <1>1 DEF ReadClock, Goto, MoveWindow
  <2>2. now' = [now EXCEPT ![t] = clock] /\ UNCHANGED <<clock, window, rolls, prev>>
    BY <1>1 DEF ReadClock, shared
  <2>3. Stale' = Stale
    BY <1>0, <2>1, <2>2 DEF Stale
  <2>4. clock \in Seconds
    BY DEF RollsInv
  <2> QED
    BY <1>0, <2>1, <2>2, <2>3, <2>4 DEF Locations
<1>2. CASE ReadWindow(t)
  <2>1. /\ pc[t] = "window" /\ ~MoveWindow(t)
        /\ \/ pc' = [pc EXCEPT ![t] = "count"]
           \/ pc' = [pc EXCEPT ![t] = "move"] /\ window # now[t]
    BY <1>2 DEF ReadWindow, Goto, Current, MoveWindow
  <2>2. prev' = [prev EXCEPT ![t] = window] /\ UNCHANGED <<clock, window, rolls, now>>
    BY <1>2 DEF ReadWindow, shared
  <2>3. Stale' = Stale \/ \E u \in Stale : Stale' = Stale \ {u}
    <3>1. Stale' = Stale \/ Stale' = Stale \ {t}
      BY <1>0, <2>1, <2>2 DEF Stale
    <3> QED
      BY <3>1
  <2>4. window \in Seconds
    BY DEF RollsInv
  <2> QED
    BY <1>0, <2>1, <2>2, <2>3, <2>4 DEF Locations
<1>3. CASE MoveWindow(t)
  <2>1. /\ pc[t] = "move"
        /\ \E l \in {"resetSeen", "count"} : pc' = [pc EXCEPT ![t] = l]
        /\ UNCHANGED <<clock, now, prev>>
    BY <1>3 DEF MoveWindow, Goto, local
  <2>2. Stale' = Stale \ {t}
    BY <1>0, <2>1 DEF Stale
  <2> QED
    BY <1>0, <1>3, <2>1, <2>2 DEF Locations
<1>4. CASE \/ Enter(t) \/ ResetSeen(t) \/ ResetWarned(t) \/ Count(t)
           \/ Warn(t) \/ Claim(t) \/ Spawn(t)
  <2>1. /\ pc[t] \notin {"window", "move"}
        /\ \E l \in Locations \ {"window", "move"} : pc' = [pc EXCEPT ![t] = l]
    BY <1>4 DEF Enter, ResetSeen, ResetWarned, Count, Warn, Claim, Spawn, Goto,
       Locations
  <2>2. UNCHANGED <<clock, now, prev, window, rolls>> /\ ~MoveWindow(t)
    BY <1>4 DEF Enter, ResetSeen, ResetWarned, Count, Warn, Claim, Spawn, shared,
       local, MoveWindow
  <2>3. Stale' = Stale
    BY <1>0, <2>1, <2>2 DEF Stale
  <2> QED
    BY <1>0, <2>1, <2>2, <2>3
<1> QED
  BY <1>1, <1>2, <1>3, <1>4 DEF Allow

\* Every step.
LEMMA RollsNext ==
  ASSUME RollsInv, [Next]_vars
  PROVE  RollsInv'
<1> USE DEF RollsInv
<1>1. ASSUME NEW t \in Threads, Enter(t) \/ Allow(t)
      PROVE  RollsInv'
  <2>1. CASE MoveWindow(t) /\ Wins(t)
    <3>1. /\ pc[t] = "move" /\ window' = now[t] /\ rolls' = rolls + 1
          /\ clock' = clock
      BY <2>1 DEF MoveWindow
    <3> QED
      BY <1>1, <2>1, <3>1, StaleSteps, RollsSpent
  <2>2. CASE ~(MoveWindow(t) /\ Wins(t))
    <3>1. UNCHANGED <<clock, window, rolls>>
      BY <1>1, <2>2, StaleSteps DEF MoveWindow
    <3>2. Stale' = Stale \/ \E u \in Stale : Stale' = Stale \ {u}
      BY <1>1, StaleSteps
    <3> QED
      BY <1>1, <3>1, <3>2, StaleSteps, RollsKept
  <2> QED
    BY <2>1, <2>2
<1>2. CASE Tick
  <2>1. rolls' = 0 /\ clock' \in Seconds /\ UNCHANGED <<window, pc, now, prev>>
    BY <1>2 DEF Tick, shared, local, Seconds
  <2> QED
    BY <2>1, RollsFresh
<1>3. CASE \/ SetLimit \/ HelperEnds \/ UNCHANGED vars
           \/ \E heard \in BOOLEAN : HelperLogs(heard)
  <2>1. UNCHANGED <<clock, window, rolls, pc, now, prev>>
    BY <1>3 DEF SetLimit, HelperLogs, HelperEnds, vars, shared, local
  <2>2. Stale' = Stale
    BY <2>1 DEF Stale
  <2> QED
    BY <2>1, <2>2, RollsKept
<1> QED
  BY <1>1, <1>2, <1>3 DEF Next, Quiescent

\* Within one second the window moves at most twice for each thread, so the
\* counter is reset a number of times that does not depend on the events.
THEOREM ResetsAreBounded == Spec => []RollsBounded
<1>1. RollsInv => RollsBounded
  <2> SUFFICES ASSUME RollsInv PROVE RollsBounded
    OBVIOUS
  <2> DEFINE k == Cardinality(Stale)
             n == Cardinality(Threads)
  <2>1. Stale \subseteq Threads
    BY DEF Stale
  <2>2. k \in Nat /\ n \in Nat
    BY <2>1, StaleNumber
  <2>3. Catchup \in {0, 1}
    BY DEF Catchup
  <2>4. rolls \in Nat /\ rolls + 2 * k + Catchup <= 2 * n
    BY DEF RollsInv
  <2> HIDE DEF k, n
  <2>5. rolls <= 2 * n
    BY <2>2, <2>3, <2>4
  <2> QED
    BY <2>5 DEF n, RollsBounded
<1> QED
  BY <1>1, RollsInit, RollsNext, PTL DEF Spec

\* A single thread's window only moves forward, and nothing has been granted
\* beyond it; what has been granted in it has been counted.
Alone(t) == \A u \in Threads \ {t} : calls[u] = 0

WindowFits(t) ==
  /\ pc[t] = "window" => window <= now[t]
  /\ pc[t] = "move" => window < now[t] /\ prev[t] = window
  /\ pc[t] \in {"resetSeen", "resetWarned", "count"} => window = now[t]

GrantsFit(t) ==
  /\ \A s \in Seconds : s > window => granted[s] = 0
  /\ pc[t] \in {"resetSeen", "resetWarned"} => granted[window] = 0
  /\ pc[t] # "resetSeen" => granted[window] <= seen
  /\ \A s \in Seconds : granted[s] <= Limit

AloneInv ==
  /\ BudgetInv
  /\ clock \in Seconds /\ window \in Seconds /\ window <= clock
  /\ now \in [Threads -> Seconds] /\ prev \in [Threads -> Seconds]
  /\ \A t \in Threads : now[t] <= clock
  /\ calls \in [Threads -> Nat] /\ granted \in [Seconds -> Nat]
  /\ \A t \in Threads : calls[t] = 0 => pc[t] = "idle"
  /\ \A t \in Threads : Alone(t) => WindowFits(t) /\ GrantsFit(t)

\* No thread has logged.
LEMMA AloneInit == Init => AloneInv
<1> SUFFICES ASSUME Init PROVE AloneInv
  OBVIOUS
<1>1. /\ pc = [t \in Threads |-> "idle"] /\ calls = [t \in Threads |-> 0]
      /\ granted = [s \in Seconds |-> 0] /\ clock = 0 /\ window = 0 /\ seen = 0
  BY DEF Init
<1>2. 0 \in Seconds /\ Seconds \subseteq Nat
  BY DEF Seconds
<1>3. now = [t \in Threads |-> 0] /\ prev = [t \in Threads |-> 0]
  BY DEF Init
<1>4. BudgetInv
  BY BudgetInit
<1>5. ASSUME NEW t \in Threads PROVE WindowFits(t) /\ GrantsFit(t)
  BY <1>1, <1>2 DEF WindowFits, GrantsFit
<1> QED
  BY <1>1, <1>2, <1>3, <1>4, <1>5 DEF AloneInv

\* A step of the only thread that has logged.
LEMMA AloneStep ==
  ASSUME AloneInv, NEW t \in Threads, Alone(t), Allow(t)
  PROVE  WindowFits(t)' /\ GrantsFit(t)'
<1>0. /\ Seconds \subseteq Nat /\ clock \in Seconds /\ window \in Seconds
      /\ window <= clock /\ now[t] \in Seconds /\ now[t] <= clock
      /\ pc \in [Threads -> Locations] /\ now \in [Threads -> Seconds]
      /\ prev \in [Threads -> Seconds] /\ granted \in [Seconds -> Nat]
      /\ seen \in Nat /\ WindowFits(t) /\ GrantsFit(t)
      /\ pc[t] # "idle" => lim[t] = Limit
  BY DEF AloneInv, BudgetInv, Seconds
<1> USE DEF WindowFits, GrantsFit, Goto
<1>1. CASE ReadClock(t)
  BY <1>0, <1>1 DEF ReadClock, shared, history
<1>2. CASE ReadWindow(t)
  <2>1. /\ pc[t] = "window" /\ prev'[t] = window
        /\ pc'[t] = IF window = now[t] THEN "count" ELSE "move"
        /\ UNCHANGED <<window, seen, now, granted>>
    BY <1>0, <1>2 DEF ReadWindow, Current, shared, history
  <2>2. GrantsFit(t)'
    BY <1>0, <2>1
  <2>3. window \in Nat /\ now[t] \in Nat /\ window <= now[t]
    BY <1>0, <2>1
  <2>4. WindowFits(t)'
    BY <2>1, <2>3
  <2> QED
    BY <2>2, <2>4
<1>3. CASE MoveWindow(t)
  <2>1. /\ pc[t] = "move" /\ window < now[t] /\ prev[t] = window
        /\ UNCHANGED <<seen, now, prev, granted>>
        /\ window' = now[t] /\ pc'[t] = "resetSeen"
    BY <1>0, <1>3 DEF MoveWindow, Wins, local, history
  <2>2. window \in Nat /\ now[t] \in Nat
    BY <1>0
  <2>3. WindowFits(t)'
    BY <2>1
  <2>4. \A s \in Seconds : s > window' => s > window
    BY <1>0, <2>1, <2>2
  <2> QED
    BY <1>0, <2>1, <2>2, <2>3, <2>4
<1>4. CASE ResetSeen(t)
  BY <1>0, <1>4 DEF ResetSeen, ClearSeen, local
<1>5. CASE ResetWarned(t)
  BY <1>0, <1>5 DEF ResetWarned, local, history
<1>6. CASE Count(t)
  BY <1>0, <1>6 DEF Count, Fits, local
<1>7. CASE Warn(t) \/ Claim(t) \/ Spawn(t)
  BY <1>0, <1>7 DEF Warn, Claim, Spawn, local, history
<1> QED
  BY <1>1, <1>2, <1>3, <1>4, <1>5, <1>6, <1>7 DEF Allow
\* What a step of any thread leaves within its bounds.
LEMMA AloneTypes ==
  ASSUME AloneInv, NEW u \in Threads, Enter(u) \/ Allow(u)
  PROVE  /\ BudgetInv'
         /\ clock' \in Seconds /\ window' \in Seconds /\ window' <= clock'
         /\ now' \in [Threads -> Seconds] /\ prev' \in [Threads -> Seconds]
         /\ \A t \in Threads : now'[t] <= clock'
         /\ granted' \in [Seconds -> Nat]
<1>0. /\ BudgetInv /\ Seconds \subseteq Nat /\ clock \in Seconds
      /\ window \in Seconds /\ window <= clock
      /\ now \in [Threads -> Seconds] /\ prev \in [Threads -> Seconds]
      /\ granted \in [Seconds -> Nat] /\ \A t \in Threads : now[t] <= clock
  BY DEF AloneInv, Seconds
<1>1. BudgetInv'
  BY <1>0, BudgetNext DEF Next
<1>2. clock' = clock
  BY DEF Enter, Allow, ReadClock, ReadWindow, MoveWindow, ResetSeen, ResetWarned,
     Count, Warn, Claim, Spawn
<1>3. window' = window \/ window' = now[u]
  BY DEF Enter, Allow, ReadClock, ReadWindow, MoveWindow, ResetSeen, ResetWarned,
     Count, Warn, Claim, Spawn, shared
<1>4. now' = now \/ now' = [now EXCEPT ![u] = clock]
  BY DEF Enter, Allow, ReadClock, ReadWindow, MoveWindow, ResetSeen, ResetWarned,
     Count, Warn, Claim, Spawn, local
<1>5. prev' = prev \/ prev' = [prev EXCEPT ![u] = window]
  BY DEF Enter, Allow, ReadClock, ReadWindow, MoveWindow, ResetSeen, ResetWarned,
     Count, Warn, Claim, Spawn, local
<1>6. granted' = granted \/ granted' = [granted EXCEPT ![now[u]] = @ + 1]
  BY DEF Enter, Allow, ReadClock, ReadWindow, MoveWindow, ResetSeen, ResetWarned,
     Count, Warn, Claim, Spawn, history
<1>7. window' \in Seconds /\ window' <= clock'
  BY <1>0, <1>2, <1>3
<1>8. now' \in [Threads -> Seconds] /\ prev' \in [Threads -> Seconds]
  BY <1>0, <1>4, <1>5
<1>9. \A t \in Threads : now'[t] <= clock'
  BY <1>0, <1>2, <1>4
<1>10. granted' \in [Seconds -> Nat]
  BY <1>0, <1>6
<1> QED
  BY <1>0, <1>1, <1>2, <1>7, <1>8, <1>9, <1>10

\* Every step: a second thread that logs ends the claim, and a thread in
\* allow() has logged.
LEMMA AloneNext ==
  ASSUME AloneInv, [Next]_vars
  PROVE  AloneInv'
<1>0. /\ calls \in [Threads -> Nat] /\ pc \in [Threads -> Locations]
      /\ \A t \in Threads : calls[t] = 0 => pc[t] = "idle"
      /\ \A t \in Threads : Alone(t) => WindowFits(t) /\ GrantsFit(t)
  BY DEF AloneInv, BudgetInv
<1>1. ASSUME NEW u \in Threads, Enter(u)
      PROVE  AloneInv'
  <2>1. /\ calls' = [calls EXCEPT ![u] = calls[u] + 1]
        /\ pc[u] = "idle" /\ pc' = [pc EXCEPT ![u] = pc'[u]]
        /\ pc'[u] \in {"idle", "clock"}
        /\ UNCHANGED <<window, seen, granted, now, prev>>
    BY <1>0, <1>1 DEF Enter, Goto, shared, history
  <2>2. calls' \in [Threads -> Nat] /\ calls'[u] # 0
    BY <1>0, <2>1
  <2>3. \A t \in Threads : calls'[t] = 0 => pc'[t] = "idle"
    BY <1>0, <2>1, <2>2
  <2>4. ASSUME NEW t \in Threads, Alone(t)' PROVE WindowFits(t)' /\ GrantsFit(t)'
    <3>1. t = u /\ Alone(u)
      BY <1>0, <2>1, <2>2, <2>4 DEF Alone
    <3>2. WindowFits(u) /\ GrantsFit(u)
      BY <1>0, <3>1
    <3> QED
      BY <2>1, <3>1, <3>2 DEF WindowFits, GrantsFit
  <2> QED
    BY <1>1, <2>2, <2>3, <2>4, AloneTypes DEF AloneInv
<1>2. ASSUME NEW u \in Threads, Allow(u)
      PROVE  AloneInv'
  <2>1. calls' = calls /\ pc[u] # "idle"
    BY <1>2 DEF Allow, ReadClock, ReadWindow, MoveWindow, ResetSeen, ResetWarned,
       Count, Warn, Claim, Spawn, local
  <2>2. pc' = [pc EXCEPT ![u] = pc'[u]]
    BY <1>0, <1>2 DEF Allow, ReadClock, ReadWindow, MoveWindow, ResetSeen,
       ResetWarned, Count, Warn, Claim, Spawn, Goto
  <2>3. calls[u] # 0
    BY <1>0, <2>1
  <2>4. \A t \in Threads : calls'[t] = 0 => pc'[t] = "idle"
    BY <1>0, <2>1, <2>2, <2>3
  <2>5. ASSUME NEW t \in Threads, Alone(t)' PROVE WindowFits(t)' /\ GrantsFit(t)'
    <3>1. t = u /\ Alone(u)
      BY <2>1, <2>3, <2>5 DEF Alone
    <3> QED
      BY <1>2, <3>1, AloneStep
  <2> QED
    BY <1>0, <1>2, <2>1, <2>4, <2>5, AloneTypes DEF AloneInv
<1>3. CASE Tick
  <2>1. /\ clock' = clock + 1 /\ clock' \in Seconds
        /\ UNCHANGED <<shared, pc, local, history>>
    BY <1>3 DEF Tick, Seconds, AloneInv
  <2>2. BudgetInv'
    BY <1>3, BudgetNext DEF Next, AloneInv
  <2>3. window <= clock' /\ \A t \in Threads : now[t] <= clock'
    BY <2>1 DEF AloneInv, Seconds
  <2>4. ASSUME NEW t \in Threads, Alone(t)' PROVE WindowFits(t)' /\ GrantsFit(t)'
    <3>1. WindowFits(t) /\ GrantsFit(t)
      BY <2>1, <2>4 DEF AloneInv, Alone, local
    <3> QED
      BY <2>1, <3>1 DEF WindowFits, GrantsFit, shared, local, history
  <2> QED
    BY <2>1, <2>2, <2>3, <2>4 DEF AloneInv, shared, local, history
<1>4. CASE \/ SetLimit \/ HelperEnds \/ UNCHANGED vars
           \/ \E heard \in BOOLEAN : HelperLogs(heard)
  <2>1. UNCHANGED <<clock, window, seen, pc, local, granted>>
    BY <1>4 DEF SetLimit, HelperLogs, HelperEnds, vars, shared, local, history
  <2>2. BudgetInv'
    BY BudgetNext DEF AloneInv
  <2> QED
    BY <2>1, <2>2 DEF AloneInv, Alone, WindowFits, GrantsFit, local
<1> QED
  BY <1>1, <1>2, <1>3, <1>4 DEF Next, Quiescent

\* As long as a single thread has logged, no second has more events than the
\* limit, whatever the window went through.
THEOREM LimitIsExactAlone == Spec => []ExactAlone
<1>1. AloneInv => ExactAlone
  BY DEF AloneInv, Alone, GrantsFit, ExactAlone
<1> QED
  BY <1>1, AloneInit, AloneNext, PTL DEF Spec
=============================================================================
