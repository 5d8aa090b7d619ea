------------------------- MODULE GuardLifecycleProofs -------------------------
(***************************************************************************)
(* The safety properties of GuardLifecycle hold for every builder, for any *)
(* tasks that panic, with or without shutdown() futures that are dropped,  *)
(* and for any number of connections.                                      *)
(*                                                                         *)
(* Inv is the inductive invariant: where the guard can be with its flags   *)
(* (PhaseInv), which tasks it still tracks (TaskInv), which pipelines it   *)
(* still holds (PipelineInv), what a teardown has left behind (EndInv) and *)
(* where the samples of the metrics task go (MeterInv).  One lemma per     *)
(* action shows that the action preserves it, conjunct by conjunct.        *)
(***************************************************************************)
EXTENDS GuardLifecycle, TLAPS

USE SetupAssumption, FallibleAssumption, CancelAssumption, OpenAssumption

\* The tasks in a list of handles.  The metrics task is spawned first.
TaskLists    == {<<>>, <<"metrics">>, <<"server">>, <<"metrics", "server">>}
Listed(list) == {t \in Tasks : \E i \in DOMAIN list : list[i] = t}

Initialising == {"install", "spawnMetrics", "spawnServer"}
InShutdown   == {"polling", "parked", "flushing"}

\* Where the guard can be, and what its flags say about it.
PhaseInv ==
  /\ completed => owner \in InShutdown \cup {"owned", "dropped"}
  /\ owner \in InShutdown => completed /\ result = "none" /\ ~again /\ ~abandoned
  /\ owner = "parked" => waiting # <<>>
  /\ owner = "flushing" => waiting = <<>>
  /\ result # "none" \/ again \/ abandoned \/ failed => completed
  /\ result # "none" => ~abandoned

\* The guard tracks every task until it is torn down; a shutdown() in progress
\* has met an error exactly when a task it no longer waits for panicked.
TaskInv ==
  /\ handles \in TaskLists /\ waiting \in TaskLists
  /\ owner \in {"install", "spawnMetrics", "initFailed"}
       => handles = <<>> /\ \A t \in Tasks : task[t] = "absent"
  /\ owner = "spawnServer"
       => handles \in {<<>>, <<"metrics">>} /\ task["server"] = "absent"
  /\ owner \in Initialising \cup {"owned"} /\ ~completed
       => \A t \in Tasks : task[t] # "absent" => t \in Listed(handles)
  /\ \A t \in Listed(handles) \cup Listed(waiting) : task[t] # "absent"
  /\ completed => handles = <<>>
  /\ owner \in InShutdown =>
       /\ \A t \in Tasks : Active(t) => t \in Listed(waiting)
       /\ failed <=> \E t \in Tasks \ Listed(waiting) : task[t] = "panicked"
  /\ \A t \in Tasks : task[t] = "aborted" => t \in aborted
  /\ aborted # {} => owner \in {"dropFlushing", "dropped"}

\* The guard holds every pipeline that exports, and with a late slot also the
\* two providers of the deferred layers.
PipelineInv ==
  /\ owner = "install" => live = {} /\ meter = "noop"
  /\ owner \in InShutdown \cup {"spawnMetrics", "spawnServer", "owned", "dropFlushing"}
       => live \subseteq held
  /\ slot => /\ owner \in {"spawnMetrics", "spawnServer", "owned"}
             /\ ~completed
             /\ {"logs", "spans"} \subseteq held

\* A shutdown() that ran to its end has left nothing running.
EndInv ==
  /\ completed /\ ~abandoned /\ owner \in {"owned", "dropped"}
       => Ended /\ live = {}
  /\ result # "none" =>
       (result = "error" <=> \E t \in Tasks : task[t] = "panicked")
  /\ DropFlushes

\* A meter provider exports until a teardown has got to it.
MeterInv ==
  /\ meterOf \in {"init", "late"} => meter # "noop"
  /\ task["metrics"] = "running" => meterOf # "none"
  /\ /\ meter # "noop"
     /\ \/ owner \in {"spawnMetrics", "spawnServer", "polling", "parked"}
        \/ owner = "owned" /\ (~completed \/ abandoned)
        \/ owner = "dropped" /\ abandoned
     => "metrics" \in live
  /\ lost => owner \in {"dropFlushing", "dropped"} /\ ~completed

Inv == TypeOK /\ PhaseInv /\ TaskInv /\ PipelineInv /\ EndInv /\ MeterInv

-----------------------------------------------------------------------------
(* Lists of handles *)

\* What the lists hold, and what is left of one when its head is taken.
LEMMA ListFacts ==
  /\ TaskLists \subseteq Seq(Tasks)
  /\ Listed(<<>>) = {}
  /\ Listed(<<"metrics">>) = {"metrics"}
  /\ Listed(<<"server">>) = {"server"}
  /\ Listed(<<"metrics", "server">>) = Tasks
  /\ \A list \in TaskLists : list # <<>> =>
       /\ Head(list) \in Listed(list)
       /\ Tail(list) \in TaskLists
       /\ Listed(Tail(list)) = Listed(list) \ {Head(list)}
  /\ Append(<<>>, "server") = <<"server">>
  /\ Append(<<"metrics">>, "server") = <<"metrics", "server">>
<1> USE DEF Listed, Tasks
<1>1. TaskLists \subseteq Seq(Tasks)
  BY DEF TaskLists
<1>2. /\ Listed(<<>>) = {}
      /\ Listed(<<"metrics">>) = {"metrics"}
      /\ Listed(<<"server">>) = {"server"}
      /\ Listed(<<"metrics", "server">>) = Tasks
  <2>1. Listed(<<>>) = {}
    OBVIOUS
  <2>2. Listed(<<"metrics">>) = {"metrics"}
    OBVIOUS
  <2>3. Listed(<<"server">>) = {"server"}
    OBVIOUS
  <2>4. Listed(<<"metrics", "server">>) = Tasks
    OBVIOUS
  <2> QED
    BY <2>1, <2>2, <2>3, <2>4
<1>3. /\ Head(<<"metrics">>) = "metrics" /\ Tail(<<"metrics">>) = <<>>
      /\ Head(<<"server">>) = "server" /\ Tail(<<"server">>) = <<>>
      /\ Head(<<"metrics", "server">>) = "metrics"
      /\ Tail(<<"metrics", "server">>) = <<"server">>
  OBVIOUS
<1>5. Append(<<"metrics">>, "server") = <<"metrics", "server">>
  <2> DEFINE list == Append(<<"metrics">>, "server")
  <2>1. /\ list \in Seq(Tasks) /\ Len(list) = 2
        /\ list[1] = "metrics" /\ list[2] = "server"
    OBVIOUS
  <2> HIDE DEF list
  <2>2. list = <<list[1], list[2]>>
    BY <2>1
  <2> QED
    BY <2>1, <2>2 DEF list
<1>6. Append(<<>>, "server") = <<"server">>
  OBVIOUS
<1> HIDE DEF Listed
<1>4. ASSUME NEW list \in TaskLists, list # <<>>
      PROVE  /\ Head(list) \in Listed(list)
             /\ Tail(list) \in TaskLists
             /\ Listed(Tail(list)) = Listed(list) \ {Head(list)}
  BY <1>2, <1>3, <1>4 DEF TaskLists
<1> QED
  BY <1>1, <1>2, <1>4, <1>5, <1>6

-----------------------------------------------------------------------------
(* One lemma per action *)

\* Installing fills the guard; nothing is spawned yet.
LEMMA InstallInv ==
  ASSUME Inv, Install
  PROVE  Inv'
<1> USE DEF Inv, Install, call, tasks
<1>1. TypeOK'
  BY DEF TypeOK, Owners, Signals, Tasks, AllSetups
<1>2. PhaseInv'
  BY DEF TypeOK, PhaseInv, InShutdown
<1>3. TaskInv'
  BY DEF TypeOK, PhaseInv, TaskInv, Tasks, Active, Initialising, InShutdown
<1>4. PipelineInv'
  BY DEF TypeOK, PhaseInv, PipelineInv, InShutdown, Signals
<1>5. EndInv'
  BY DEF TypeOK, PhaseInv, TaskInv, PipelineInv, EndInv, Ended, Active,
     DropFlushes, InShutdown
<1>6. MeterInv'
  BY DEF TypeOK, PhaseInv, TaskInv, PipelineInv, MeterInv, InShutdown, Signals,
     Tasks
<1> QED
  BY <1>1, <1>2, <1>3, <1>4, <1>5, <1>6

\* A failed installation leaves no guard.
LEMMA InstallFailsInv ==
  ASSUME Inv, InstallFails
  PROVE  Inv'
<1> USE DEF Inv, InstallFails, guard, call, tasks
<1>1. TypeOK'
  BY DEF TypeOK, Owners, Signals
<1>2. PhaseInv'
  BY DEF TypeOK, PhaseInv, InShutdown
<1>3. TaskInv'
  BY DEF TypeOK, PhaseInv, TaskInv, Tasks, Active, Initialising, InShutdown
<1>4. PipelineInv'
  BY DEF TypeOK, PhaseInv, PipelineInv, InShutdown, Signals
<1>5. EndInv'
  BY DEF TypeOK, PhaseInv, TaskInv, PipelineInv, EndInv, Ended, Active,
     DropFlushes, InShutdown
<1>6. MeterInv'
  BY DEF TypeOK, PhaseInv, TaskInv, MeterInv, InShutdown
<1> QED
  BY <1>1, <1>2, <1>3, <1>4, <1>5, <1>6

\* The metrics task is tracked as it is spawned.
LEMMA SpawnMetricsInv ==
  ASSUME Inv, SpawnMetrics
  PROVE  Inv'
<1> USE DEF Inv, SpawnMetrics, Spawn, Wanted, call
<1>0. /\ handles' \in {<<>>, <<"metrics">>}
      /\ setup.metrics => handles' = <<"metrics">>
      /\ ~setup.metrics => handles' = <<>> /\ UNCHANGED task
  BY DEF TaskInv
<1>1. TypeOK'
  <2>1. /\ task' \in [Tasks -> TaskStates]
        /\ \A t \in Tasks : task'[t] # "absent" => setup[t]
    BY DEF TypeOK, TaskStates, Wanted
  <2>2. handles' \in Seq(Tasks)
    BY <1>0, ListFacts DEF TaskLists
  <2> QED
    BY <2>1, <2>2 DEF TypeOK, Owners
<1>2. PhaseInv'
  BY DEF TypeOK, PhaseInv, InShutdown
<1>3. TaskInv'
  BY <1>0, ListFacts DEF TypeOK, PhaseInv, TaskInv, TaskLists, Tasks, Active,
     Initialising, InShutdown
<1>4. PipelineInv'
  BY DEF TypeOK, PhaseInv, PipelineInv, InShutdown, Signals
<1>5. EndInv'
  BY DEF TypeOK, PhaseInv, TaskInv, PipelineInv, EndInv, Ended, Active,
     DropFlushes, InShutdown
<1>6. MeterInv'
  BY DEF TypeOK, PhaseInv, TaskInv, MeterInv, InShutdown
<1> QED
  BY <1>1, <1>2, <1>3, <1>4, <1>5, <1>6

\* The server task is tracked as it is spawned.
LEMMA SpawnServerInv ==
  ASSUME Inv, SpawnServer
  PROVE  Inv'
<1> USE DEF Inv, SpawnServer, Spawn, Wanted, call
<1>0. /\ setup.server => handles' \in {<<"server">>, <<"metrics", "server">>}
      /\ setup.server => Listed(handles') = Listed(handles) \cup {"server"}
      /\ ~setup.server => handles' = handles /\ UNCHANGED task
  <2>1. handles \in {<<>>, <<"metrics">>}
    BY DEF TaskInv
  <2> QED
    BY <2>1, ListFacts DEF Tasks
<1>1. TypeOK'
  <2>1. /\ task' \in [Tasks -> TaskStates]
        /\ \A t \in Tasks : task'[t] # "absent" => setup[t]
    BY DEF TypeOK, TaskStates, Wanted
  <2>2. handles' \in Seq(Tasks)
    BY <1>0, ListFacts DEF TypeOK, TaskLists
  <2> QED
    BY <2>1, <2>2 DEF TypeOK, Owners
<1>2. PhaseInv'
  BY DEF TypeOK, PhaseInv, InShutdown
<1>3. TaskInv'
  <2>1. CASE setup.server
    <3>1. /\ \A t \in Tasks : t # "server" => task'[t] = task[t]
          /\ task'["server"] = "spawned"
          /\ handles' \in TaskLists
      BY <1>0, <2>1 DEF TypeOK, TaskLists, Tasks
    <3>2. Listed(handles) \subseteq Tasks /\ Listed(waiting) \subseteq Tasks
      BY DEF Listed
    <3> QED
      BY <1>0, <2>1, <3>1, <3>2 DEF PhaseInv, TaskInv, Initialising, InShutdown
  <2>2. CASE ~setup.server
    BY <1>0, <2>2 DEF PhaseInv, TaskInv, Tasks, Initialising, InShutdown
  <2> QED
    BY <2>1, <2>2
<1>4. PipelineInv'
  BY DEF TypeOK, PhaseInv, PipelineInv, InShutdown, Signals
<1>5. EndInv'
  BY DEF TypeOK, PhaseInv, TaskInv, PipelineInv, EndInv, Ended, Active,
     DropFlushes, InShutdown
<1>6. MeterInv'
  BY DEF TypeOK, PhaseInv, TaskInv, MeterInv, InShutdown, Tasks
<1> QED
  BY <1>1, <1>2, <1>3, <1>4, <1>5, <1>6

\* With its slot the guard holds the providers of the deferred layers, and the
\* late configuration hands it the meter provider.
LEMMA ApplyLateInv ==
  ASSUME Inv, ApplyLate
  PROVE  Inv'
<1> USE DEF Inv, ApplyLate, StoreMeter, call, tasks
<1>1. TypeOK'
  BY DEF TypeOK, Owners, Signals
<1>2. PhaseInv'
  BY DEF TypeOK, PhaseInv, InShutdown
<1>3. TaskInv'
  BY DEF TypeOK, PhaseInv, TaskInv, Tasks, Active, Initialising, InShutdown
<1>4. PipelineInv'
  BY DEF TypeOK, PhaseInv, PipelineInv, InShutdown, Signals
<1>5. EndInv'
  BY DEF TypeOK, PhaseInv, TaskInv, PipelineInv, EndInv, Ended, Active,
     DropFlushes, InShutdown
<1>6. MeterInv'
  BY DEF TypeOK, PhaseInv, TaskInv, PipelineInv, MeterInv, InShutdown, Signals
<1> QED
  BY <1>1, <1>2, <1>3, <1>4, <1>5, <1>6

\* shutdown() waits for every task the guard tracks.
LEMMA ShutdownInv ==
  ASSUME Inv, Shutdown
  PROVE  Inv'
<1> USE DEF Inv, Shutdown, BeginShutdown, tasks
<1>1. TypeOK'
  <2>1. {cancelled', completed', failed', again', abandoned', skipped', lost'} \subseteq BOOLEAN
    BY Zenon DEF TypeOK
  <2>2. handles' \in Seq(Tasks)
    BY ListFacts DEF TaskLists
  <2> QED
    BY <2>1, <2>2 DEF TypeOK, Owners
<1>2. PhaseInv'
  BY DEF TypeOK, PhaseInv, InShutdown
<1>3. TaskInv'
  BY ListFacts DEF TypeOK, PhaseInv, TaskInv, TaskLists, Active, Initialising,
     InShutdown
<1>4. PipelineInv'
  BY DEF TypeOK, PhaseInv, PipelineInv, InShutdown, Signals
<1>5. EndInv'
  BY DEF TypeOK, PhaseInv, TaskInv, PipelineInv, EndInv, Ended, Active,
     DropFlushes, InShutdown
<1>6. MeterInv'
  BY DEF TypeOK, PhaseInv, TaskInv, MeterInv, InShutdown
<1> QED
  BY <1>1, <1>2, <1>3, <1>4, <1>5, <1>6

\* A later shutdown() returns only when the first is over.
LEMMA ShutdownAgainInv ==
  ASSUME Inv, ShutdownAgain
  PROVE  Inv'
<1> USE DEF Inv, ShutdownAgain, guard, tasks
<1>1. TypeOK'
  BY DEF TypeOK, Owners
<1>2. PhaseInv'
  BY DEF TypeOK, PhaseInv, InShutdown
<1>3. TaskInv'
  BY DEF TypeOK, PhaseInv, TaskInv, Tasks, Active, Initialising, InShutdown
<1>4. PipelineInv'
  BY DEF TypeOK, PhaseInv, PipelineInv, InShutdown, Signals
<1>5. EndInv'
  BY DEF TypeOK, PhaseInv, TaskInv, PipelineInv, EndInv, Ended, Active,
     DropFlushes, InShutdown
<1>6. MeterInv'
  BY DEF TypeOK, PhaseInv, TaskInv, MeterInv, InShutdown
<1> QED
  BY <1>1, <1>2, <1>3, <1>4, <1>5, <1>6

\* A task that has been awaited is over, and its error is kept.
LEMMA AwaitInv ==
  ASSUME Inv, Await
  PROVE  Inv'
<1> USE DEF Inv, Await, KeepError, guard, tasks
<1>1. TypeOK'
  BY DEF TypeOK, Owners
<1>2. PhaseInv'
  BY DEF TypeOK, PhaseInv, InShutdown
<1>3. TaskInv'
  <2>1. /\ waiting' \in TaskLists
        /\ Listed(waiting') = Listed(waiting) \ {Head(waiting)}
        /\ Head(waiting) \in Listed(waiting)
        /\ Head(waiting) \in Tasks
    BY ListFacts DEF TaskInv, Listed
  <2>2. failed' <=> \E t \in Tasks \ Listed(waiting') : task[t] = "panicked"
    <3>1. task[Head(waiting)] \in {"finished", "panicked"}
      BY <2>1 DEF TypeOK, TaskStates, TaskInv, Active, InShutdown
    <3> QED
      BY <2>1, <3>1 DEF TaskInv, InShutdown
  <2> QED
    BY <2>1, <2>2 DEF TypeOK, PhaseInv, TaskInv, Active, Initialising,
       InShutdown
<1>4. PipelineInv'
  BY DEF TypeOK, PhaseInv, PipelineInv, InShutdown, Signals
<1>5. EndInv'
  BY DEF TypeOK, PhaseInv, TaskInv, PipelineInv, EndInv, Ended, Active,
     DropFlushes, InShutdown
<1>6. MeterInv'
  BY DEF TypeOK, PhaseInv, TaskInv, MeterInv, InShutdown
<1> QED
  BY <1>1, <1>2, <1>3, <1>4, <1>5, <1>6

\* The future waits for a task that is still active.
LEMMA ParkInv ==
  ASSUME Inv, Park
  PROVE  Inv'
<1> USE DEF Inv, Park, guard, call, tasks
<1>1. TypeOK'
  BY DEF TypeOK, Owners
<1>2. PhaseInv'
  BY DEF TypeOK, PhaseInv, InShutdown
<1>3. TaskInv'
  BY DEF TypeOK, PhaseInv, TaskInv, Tasks, Active, Initialising, InShutdown
<1>4. PipelineInv'
  BY DEF TypeOK, PhaseInv, PipelineInv, InShutdown, Signals
<1>5. EndInv'
  BY DEF TypeOK, PhaseInv, TaskInv, PipelineInv, EndInv, Ended, Active,
     DropFlushes, InShutdown
<1>6. MeterInv'
  BY DEF TypeOK, PhaseInv, TaskInv, MeterInv, InShutdown
<1> QED
  BY <1>1, <1>2, <1>3, <1>4, <1>5, <1>6

\* A task in the list has ended.
LEMMA WakeInv ==
  ASSUME Inv, Wake
  PROVE  Inv'
<1> USE DEF Inv, Wake, guard, call, tasks
<1>1. TypeOK'
  BY DEF TypeOK, Owners
<1>2. PhaseInv'
  BY DEF TypeOK, PhaseInv, InShutdown
<1>3. TaskInv'
  BY DEF TypeOK, PhaseInv, TaskInv, Tasks, Active, Initialising, InShutdown
<1>4. PipelineInv'
  BY DEF TypeOK, PhaseInv, PipelineInv, InShutdown, Signals
<1>5. EndInv'
  BY DEF TypeOK, PhaseInv, TaskInv, PipelineInv, EndInv, Ended, Active,
     DropFlushes, InShutdown
<1>6. MeterInv'
  BY DEF TypeOK, PhaseInv, TaskInv, MeterInv, InShutdown
<1> QED
  BY <1>1, <1>2, <1>3, <1>4, <1>5, <1>6

\* Once a shutdown() is abandoned nothing is promised but what it still holds.
LEMMA AbandonInv ==
  ASSUME Inv, Abandon
  PROVE  Inv'
<1> USE DEF Inv, Abandon, guard, tasks
<1>1. TypeOK'
  BY DEF TypeOK, Owners
<1>2. PhaseInv'
  BY DEF TypeOK, PhaseInv, InShutdown
<1>3. TaskInv'
  BY DEF TypeOK, PhaseInv, TaskInv, Tasks, Active, Initialising, InShutdown
<1>4. PipelineInv'
  BY DEF TypeOK, PhaseInv, PipelineInv, InShutdown, Signals
<1>5. EndInv'
  BY DEF TypeOK, PhaseInv, TaskInv, PipelineInv, EndInv, Ended, Active,
     DropFlushes, InShutdown
<1>6. MeterInv'
  BY DEF TypeOK, PhaseInv, TaskInv, MeterInv, InShutdown
<1> QED
  BY <1>1, <1>2, <1>3, <1>4, <1>5, <1>6

\* With every task awaited, nothing runs that records samples.
LEMMA BeginFlushInv ==
  ASSUME Inv, BeginFlush
  PROVE  Inv'
<1> USE DEF Inv, BeginFlush, TasksAwaited, guard, call, tasks
<1>1. TypeOK'
  BY DEF TypeOK, Owners
<1>2. PhaseInv'
  BY DEF TypeOK, PhaseInv, InShutdown
<1>3. TaskInv'
  BY DEF TypeOK, PhaseInv, TaskInv, Tasks, Active, Initialising, InShutdown
<1>4. PipelineInv'
  BY DEF TypeOK, PhaseInv, PipelineInv, InShutdown, Signals
<1>5. EndInv'
  BY DEF TypeOK, PhaseInv, TaskInv, PipelineInv, EndInv, Ended, Active,
     DropFlushes, InShutdown
<1>6. MeterInv'
  BY DEF TypeOK, PhaseInv, TaskInv, MeterInv, InShutdown
<1> QED
  BY <1>1, <1>2, <1>3, <1>4, <1>5, <1>6

\* A provider leaves the guard as its pipeline ends.
LEMMA FlushProviderInv ==
  ASSUME Inv, FlushProvider
  PROVE  Inv'
<1> USE DEF Inv, FlushProvider, Remaining, NextProvider, call, tasks
<1>1. TypeOK'
  BY DEF TypeOK, Owners
<1>2. PhaseInv'
  BY DEF TypeOK, PhaseInv, InShutdown
<1>3. TaskInv'
  BY DEF TypeOK, PhaseInv, TaskInv, Tasks, Active, Initialising, InShutdown
<1>4. PipelineInv'
  BY DEF TypeOK, PhaseInv, PipelineInv, InShutdown, Signals
<1>5. EndInv'
  BY DEF TypeOK, PhaseInv, TaskInv, PipelineInv, EndInv, Ended, Active,
     DropFlushes, InShutdown
<1>6. MeterInv'
  BY DEF TypeOK, PhaseInv, TaskInv, MeterInv, InShutdown
<1> QED
  BY <1>1, <1>2, <1>3, <1>4, <1>5, <1>6

\* With no provider left no pipeline exports.
LEMMA EndShutdownInv ==
  ASSUME Inv, EndShutdown
  PROVE  Inv'
<1> USE DEF Inv, EndShutdown, guard, tasks
<1>1. TypeOK'
  BY DEF TypeOK, Owners
<1>2. PhaseInv'
  BY DEF TypeOK, PhaseInv, InShutdown
<1>3. TaskInv'
  BY DEF TypeOK, PhaseInv, TaskInv, Tasks, Active, Initialising, InShutdown
<1>4. PipelineInv'
  BY DEF TypeOK, PhaseInv, PipelineInv, InShutdown, Signals
<1>5. EndInv'
  <2>1. Ended /\ live = {}
    BY ListFacts DEF PhaseInv, TaskInv, PipelineInv, InShutdown, Ended
  <2>2. failed <=> \E t \in Tasks : task[t] = "panicked"
    BY ListFacts DEF PhaseInv, TaskInv, InShutdown
  <2> QED
    BY <2>1, <2>2 DEF TypeOK, EndInv, Ended, Active, DropFlushes
<1>6. MeterInv'
  BY DEF TypeOK, PhaseInv, TaskInv, MeterInv, InShutdown
<1> QED
  BY <1>1, <1>2, <1>3, <1>4, <1>5, <1>6

\* The same at the end of a drop.
LEMMA EndDropInv ==
  ASSUME Inv, EndDrop
  PROVE  Inv'
<1> USE DEF Inv, EndDrop, guard, call, tasks
<1>1. TypeOK'
  BY DEF TypeOK, Owners
<1>2. PhaseInv'
  BY DEF TypeOK, PhaseInv, InShutdown
<1>3. TaskInv'
  BY DEF TypeOK, PhaseInv, TaskInv, Tasks, Active, Initialising, InShutdown
<1>4. PipelineInv'
  BY DEF TypeOK, PhaseInv, PipelineInv, InShutdown, Signals
<1>5. EndInv'
  BY DEF TypeOK, PhaseInv, TaskInv, PipelineInv, EndInv, Ended, Active,
     DropFlushes, InShutdown
<1>6. MeterInv'
  BY DEF TypeOK, PhaseInv, TaskInv, MeterInv, InShutdown
<1> QED
  BY <1>1, <1>2, <1>3, <1>4, <1>5, <1>6

\* A drop without shutdown() goes on to the providers, or skips them.
LEMMA DropInv ==
  ASSUME Inv, owner \in {"spawnMetrics", "spawnServer", "owned"},
         NEW runtime \in Runtimes, Drop(runtime)
  PROVE  Inv'
<1> USE DEF Inv, Drop, AbortUnfinished, call, tasks
<1>1. TypeOK'
  <2>1. {cancelled', completed', failed', again', abandoned', skipped', lost'} \subseteq BOOLEAN
    BY Zenon DEF TypeOK
  <2>2. handles' \in Seq(Tasks)
    BY ListFacts DEF TaskLists
  <2> QED
    BY <2>1, <2>2 DEF TypeOK, Owners, Tasks
<1>2. PhaseInv'
  BY DEF TypeOK, PhaseInv, InShutdown
<1>3. TaskInv'
  BY ListFacts DEF TypeOK, PhaseInv, TaskInv, TaskLists, Tasks, Active,
     Initialising, InShutdown
<1>4. PipelineInv'
  BY DEF TypeOK, PhaseInv, PipelineInv, InShutdown, Signals
<1>5. EndInv'
  BY DEF TypeOK, PhaseInv, TaskInv, PipelineInv, EndInv, Ended, Active,
     DropFlushes, InShutdown
<1>6. MeterInv'
  BY DEF TypeOK, PhaseInv, TaskInv, MeterInv, InShutdown
<1> QED
  BY <1>1, <1>2, <1>3, <1>4, <1>5, <1>6

\* A task that starts to run takes the meter provider of the moment.
LEMMA FirstPollInv ==
  ASSUME Inv, NEW t \in Tasks, FirstPoll(t)
  PROVE  Inv'
<1> USE DEF Inv, FirstPoll, guard, call
<1>1. TypeOK'
  BY DEF TypeOK, Owners, TaskStates
<1>2. PhaseInv'
  BY DEF TypeOK, PhaseInv, InShutdown
<1>3. TaskInv'
  BY DEF TypeOK, PhaseInv, TaskInv, Tasks, Active, Initialising, InShutdown
<1>4. PipelineInv'
  BY DEF TypeOK, PhaseInv, PipelineInv, InShutdown, Signals
<1>5. EndInv'
  BY DEF TypeOK, PhaseInv, TaskInv, PipelineInv, EndInv, Ended, Active,
     DropFlushes, InShutdown
<1>6. MeterInv'
  BY DEF TypeOK, PhaseInv, TaskInv, MeterInv, InShutdown
<1> QED
  BY <1>1, <1>2, <1>3, <1>4, <1>5, <1>6

\* A server that drains is still active.
LEMMA DrainInv ==
  ASSUME Inv, Drain
  PROVE  Inv'
<1> USE DEF Inv, Drain, guard, call
<1>1. TypeOK'
  BY DEF TypeOK, Owners, TaskStates, Tasks
<1>2. PhaseInv'
  BY DEF TypeOK, PhaseInv, InShutdown
<1>3. TaskInv'
  BY DEF TypeOK, PhaseInv, TaskInv, Tasks, Active, Initialising, InShutdown
<1>4. PipelineInv'
  BY DEF TypeOK, PhaseInv, PipelineInv, InShutdown, Signals
<1>5. EndInv'
  BY DEF TypeOK, PhaseInv, TaskInv, PipelineInv, EndInv, Ended, Active,
     DropFlushes, InShutdown, Tasks
<1>6. MeterInv'
  BY DEF TypeOK, PhaseInv, TaskInv, MeterInv, InShutdown, Tasks
<1> QED
  BY <1>1, <1>2, <1>3, <1>4, <1>5, <1>6

\* A task that ends was waited for, if anything waits.
LEMMA StopInv ==
  ASSUME Inv, NEW t \in Tasks, Stop(t)
  PROVE  Inv'
<1> USE DEF Inv, Stop, Working, guard, call
<1>1. TypeOK'
  BY DEF TypeOK, Owners, TaskStates
<1>2. PhaseInv'
  BY DEF TypeOK, PhaseInv, InShutdown
<1>3. TaskInv'
  BY DEF TypeOK, PhaseInv, TaskInv, Tasks, Active, Initialising, InShutdown
<1>4. PipelineInv'
  BY DEF TypeOK, PhaseInv, PipelineInv, InShutdown, Signals
<1>5. EndInv'
  BY DEF TypeOK, PhaseInv, TaskInv, PipelineInv, EndInv, Ended, Active,
     DropFlushes, InShutdown
<1>6. MeterInv'
  BY DEF TypeOK, PhaseInv, TaskInv, MeterInv, InShutdown
<1> QED
  BY <1>1, <1>2, <1>3, <1>4, <1>5, <1>6

\* A task that panics has not been awaited yet.
LEMMA PanicInv ==
  ASSUME Inv, NEW t \in Tasks, Panic(t)
  PROVE  Inv'
<1> USE DEF Inv, Panic, Working, guard, call
<1>1. TypeOK'
  BY DEF TypeOK, Owners, TaskStates
<1>2. PhaseInv'
  BY DEF TypeOK, PhaseInv, InShutdown
<1>3. TaskInv'
  BY DEF TypeOK, PhaseInv, TaskInv, Tasks, Active, Initialising, InShutdown
<1>4. PipelineInv'
  BY DEF TypeOK, PhaseInv, PipelineInv, InShutdown, Signals
<1>5. EndInv'
  BY DEF TypeOK, PhaseInv, TaskInv, PipelineInv, EndInv, Ended, Active,
     DropFlushes, InShutdown
<1>6. MeterInv'
  BY DEF TypeOK, PhaseInv, TaskInv, MeterInv, InShutdown
<1> QED
  BY <1>1, <1>2, <1>3, <1>4, <1>5, <1>6

\* A task is aborted only after the guard is dropped.
LEMMA EndAbortedInv ==
  ASSUME Inv, NEW t \in Tasks, EndAborted(t)
  PROVE  Inv'
<1> USE DEF Inv, EndAborted, guard, call
<1>1. TypeOK'
  <2>1. /\ task' \in [Tasks -> TaskStates]
        /\ \A u \in Tasks : task'[u] # "absent" => setup[u]
    BY DEF TypeOK, TaskStates, Active
  <2> QED
    BY <2>1 DEF TypeOK, Owners
<1>2. PhaseInv'
  BY DEF TypeOK, PhaseInv, InShutdown
<1>3. TaskInv'
  BY DEF TypeOK, PhaseInv, TaskInv, Tasks, Active, Initialising, InShutdown
<1>4. PipelineInv'
  BY DEF TypeOK, PhaseInv, PipelineInv, InShutdown, Signals
<1>5. EndInv'
  BY DEF TypeOK, PhaseInv, TaskInv, PipelineInv, EndInv, Ended, Active,
     DropFlushes, InShutdown
<1>6. MeterInv'
  BY DEF TypeOK, PhaseInv, TaskInv, MeterInv, InShutdown
<1> QED
  BY <1>1, <1>2, <1>3, <1>4, <1>5, <1>6

\* A running metrics task finds its provider exporting, except after a drop.
LEMMA RecordSampleInv ==
  ASSUME Inv, RecordSample
  PROVE  Inv'
<1> USE DEF Inv, RecordSample, guard, call
<1>1. TypeOK'
  BY DEF TypeOK, Owners
<1>2. PhaseInv'
  BY DEF TypeOK, PhaseInv, InShutdown
<1>3. TaskInv'
  BY DEF TypeOK, PhaseInv, TaskInv, Tasks, Active, Initialising, InShutdown
<1>4. PipelineInv'
  BY DEF TypeOK, PhaseInv, PipelineInv, InShutdown, Signals
<1>5. EndInv'
  BY DEF TypeOK, PhaseInv, TaskInv, PipelineInv, EndInv, Ended, Active,
     DropFlushes, InShutdown
<1>6. MeterInv'
  BY ListFacts DEF TypeOK, PhaseInv, TaskInv, EndInv, Ended, Active, Tasks,
     MeterInv, InShutdown, Owners
<1> QED
  BY <1>1, <1>2, <1>3, <1>4, <1>5, <1>6

\* Connections only count.
LEMMA ConnectionInv ==
  ASSUME Inv, OpenConnection \/ CloseConnection
  PROVE  Inv'
<1> USE DEF Inv, OpenConnection, CloseConnection, guard, call
<1>0. /\ UNCHANGED <<setup, owner, live, meter, cancelled, aborted, skipped>>
      /\ UNCHANGED <<slot, held, completed, handles, waiting, failed, result, again, abandoned>>
      /\ UNCHANGED <<task, meterOf, lost>>
  OBVIOUS
<1>1. TypeOK'
  BY OpenAssumption DEF TypeOK, guard, call
<1>2. PhaseInv'
  BY DEF TypeOK, PhaseInv, InShutdown
<1>3. TaskInv'
  BY DEF TypeOK, PhaseInv, TaskInv, Tasks, Active, Initialising, InShutdown
<1>4. PipelineInv'
  BY <1>0 DEF PipelineInv, InShutdown
<1>5. EndInv'
  BY DEF TypeOK, PhaseInv, TaskInv, PipelineInv, EndInv, Ended, Active,
     DropFlushes, InShutdown
<1>6. MeterInv'
  BY DEF TypeOK, PhaseInv, TaskInv, MeterInv, InShutdown
<1> QED
  BY <1>1, <1>2, <1>3, <1>4, <1>5, <1>6

\* The guard does not exist yet.
LEMMA InitInv == Init => Inv
<1> SUFFICES ASSUME Init PROVE Inv
  OBVIOUS
<1> USE DEF Init
<1>1. TypeOK
  <2>1. setup \in AllSetups /\ open \in 0..MaxOpen
    OBVIOUS
  <2>2. {cancelled, completed, failed, again, abandoned, skipped, lost} \subseteq BOOLEAN
    BY Zenon
  <2>3. handles \in Seq(Tasks) /\ waiting \in Seq(Tasks)
    BY ListFacts DEF TaskLists
  <2>4. /\ task \in [Tasks -> TaskStates]
        /\ \A t \in Tasks : task[t] # "absent" => setup[t]
    BY DEF TaskStates
  <2> HIDE DEF Init
  <2>5. /\ owner \in Owners /\ slot \in BOOLEAN
        /\ held \subseteq Signals /\ live \subseteq Signals
        /\ meter \in {"noop", "init", "late"}
        /\ meterOf \in {"none", "noop", "init", "late"}
        /\ aborted \subseteq Tasks
        /\ result \in {"none", "ok", "error"}
    BY DEF Init, Owners
  <2> QED
    BY <2>1, <2>2, <2>3, <2>4, <2>5 DEF TypeOK
<1>2. PhaseInv
  BY DEF PhaseInv, InShutdown
<1>3. TaskInv
  BY ListFacts DEF TaskInv, TaskLists, InShutdown
<1>4. PipelineInv
  BY DEF PipelineInv, InShutdown
<1>5. EndInv
  BY DEF EndInv, DropFlushes
<1>6. MeterInv
  BY DEF MeterInv, Tasks
<1> QED
  BY <1>1, <1>2, <1>3, <1>4, <1>5, <1>6 DEF Inv

\* Every step of the guard, its threads and the application.
LEMMA NextInv ==
  ASSUME Inv, [Next]_vars
  PROVE  Inv'
<1>1. CASE InitStep
  <2>1. CASE BindFails
    BY <2>1, DropInv DEF BindFails
  <2>2. CASE SpawnPanics
    BY <2>2, DropInv DEF SpawnPanics, Runtimes
  <2> QED
    BY <1>1, <2>1, <2>2, InstallInv, InstallFailsInv, SpawnMetricsInv,
       SpawnServerInv DEF InitStep
<1>2. CASE Await \/ Park \/ Wake \/ BeginFlush \/ FlushProvider \/ EndShutdown \/ EndDrop
  BY <1>2, AwaitInv, ParkInv, WakeInv, BeginFlushInv, FlushProviderInv,
     EndShutdownInv, EndDropInv
<1>3. CASE Choose
  <2>1. CASE DropGuard
    BY <2>1, DropInv DEF DropGuard
  <2> QED
    BY <1>3, <2>1, ApplyLateInv, ShutdownInv, ShutdownAgainInv, AbandonInv DEF
       Choose
<1>4. ASSUME NEW t \in Tasks, TaskStep(t) \/ Panic(t)
      PROVE  Inv'
  BY <1>4, FirstPollInv, DrainInv, StopInv, PanicInv, EndAbortedInv DEF
     TaskStep
<1>5. CASE RecordSample \/ OpenConnection \/ CloseConnection
  BY <1>5, RecordSampleInv, ConnectionInv
<1>6. CASE UNCHANGED vars
  BY <1>6 DEF vars, guard, call, tasks, Inv, TypeOK, PhaseInv, TaskInv,
     PipelineInv,
     EndInv, MeterInv, DropFlushes, Ended, Active
<1> QED
  BY <1>1, <1>2, <1>3, <1>4, <1>5, <1>6 DEF Next, Proceed, Quiescent

-----------------------------------------------------------------------------
(* Theorems *)

\* The inductive invariant holds throughout.
THEOREM Invariance == Spec => []Inv
BY InitInv, NextInv, PTL DEF Spec

\* The variables keep their types.
THEOREM TypeCorrect == Spec => []TypeOK
<1>1. Inv => TypeOK
  BY DEF Inv
<1> QED
  BY <1>1, Invariance, PTL

\* When the first shutdown() returns everything is down, and it returns an
\* error exactly when a task it awaited panicked.
THEOREM TeardownReported == Spec => []TeardownIsReported
<1>1. Inv => TeardownIsReported
  BY DEF Inv, TypeOK, Owners, PhaseInv, EndInv, InShutdown, TeardownIsReported
<1> QED
  BY <1>1, Invariance, PTL

\* No pipeline exports that the guard does not hold.
THEOREM LivePipelinesHeld == Spec => []LiveIsHeld
<1>1. Inv => LiveIsHeld
  BY DEF Inv, PipelineInv, InShutdown, LiveIsHeld
<1> QED
  BY <1>1, Invariance, PTL

\* A drop that could block leaves no pipeline exporting.
THEOREM DropLeavesNothing == Spec => []DropFlushes
<1>1. Inv => DropFlushes
  BY DEF Inv, EndInv
<1> QED
  BY <1>1, Invariance, PTL

\* No sample goes to a provider that shutdown() has shut down.
THEOREM SamplesOutliveShutdown == Spec => []NoSampleLostByShutdown
<1>1. Inv => NoSampleLostByShutdown
  BY DEF Inv, MeterInv, NoSampleLostByShutdown
<1> QED
  BY <1>1, Invariance, PTL

\* No pipeline starts once shutdown() has started: the slot is gone, and so is
\* init().
THEOREM NothingStartsAfterShutdown == Spec => ShutdownIsFinal
<1>1. ASSUME Inv, [Next]_vars
      PROVE  [completed => live' \subseteq live]_vars
  <2>1. CASE Install \/ InstallFails \/ ApplyLate
    BY <1>1, <2>1 DEF Inv, PhaseInv, PipelineInv, InShutdown, Install,
       InstallFails,
       ApplyLate
  <2>2. CASE FlushProvider
    BY <2>2 DEF FlushProvider
  <2>3. CASE ~(Install \/ InstallFails \/ ApplyLate \/ FlushProvider)
    BY <1>1, <2>3 DEF Next, Proceed, InitStep, Choose, TaskStep, SpawnMetrics,
       SpawnServer, BindFails, SpawnPanics, DropGuard, Drop, Await, Park, Wake,
       BeginFlush, EndShutdown, EndDrop, Shutdown, ShutdownAgain, Abandon, FirstPoll,
       Drain, Stop, Panic, EndAborted, RecordSample, OpenConnection,
       CloseConnection, Quiescent, vars
  <2> QED
    BY <2>1, <2>2, <2>3
<1> QED
  BY <1>1, Invariance, PTL DEF Spec, ShutdownIsFinal
=============================================================================
