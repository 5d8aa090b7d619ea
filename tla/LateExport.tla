------------------------------ MODULE LateExport ------------------------------
(***************************************************************************)
(* The deferred OTLP log layer while a late configuration attaches to it.  *)
(*                                                                         *)
(* Threads log all the time.  An event is first tested by the filter of    *)
(* the layer, then by the rate limit, and an event both let through is     *)
(* handed to the processor in the slot.  attach() fills the slot, sets the *)
(* limit and replaces the filter, in this order and with no lock against   *)
(* the threads, each of which acts on what it tested a while ago.  Once    *)
(* the filter is published, log control may close and open it again.       *)
(***************************************************************************)
EXTENDS Naturals, Sequences

CONSTANTS Threads, Unlimited, Limit, MaxSecond, MaxCalls, SpawnFails

ASSUME LimitAssumption == Limit \in Nat /\ Unlimited \notin Nat

VARIABLES
  clock, limit, window, seen, warned, active, pc, lim, now, prev, helper,
  calls, granted, spent, warnings, rolls,   \* of RateLimit
  limited,    \* the late configuration sets a rate limit
  attached,   \* the steps of attach() taken
  filled,     \* the processor slot is filled
  open,       \* what the filter lets through, of Kinds
  event,      \* how far the event of each thread has come
  lost        \* an event both filters let through found no processor

rateVars == <<clock, limit, window, seen, warned, active, pc, lim, now, prev,
              helper, calls, granted, spent, warnings, rolls>>
layer    == <<filled, open>>
vars     == <<rateVars, limited, attached, layer, event, lost>>

Rate == INSTANCE RateLimit

\* The events of the threads, and the warning of the rate limit.  A filter may
\* reject either by its level or target.
Kinds == {"event", "warning"}

\* Every operator whose name ends in a suffix after "_" is the operator of
\* that name with a plausible bug; it is used only to confirm that a property
\* would notice.

\* The order of the steps of attach() once everything fallible is built.
Order_FilterFirst == <<"filter", "slots", "limit", "publish">>
Order_LimitLast   == <<"slots", "filter", "limit", "publish">>
Order == <<"slots", "limit", "filter", "publish">>

TypeOK ==
  /\ Rate!TypeOK
  /\ {limited, filled, lost} \subseteq BOOLEAN
  /\ open \subseteq Kinds
  /\ attached \in 0..Len(Order)
  /\ event \in [Threads -> {"none", "filtered", "limiting", "passed"}]

\* The filter is DEFERRED_FILTER, the slot empty and there is no limit.
Init ==
  /\ Rate!Init
  /\ limit = Unlimited
  /\ limited \in BOOLEAN
  /\ attached = 0
  /\ filled = FALSE
  /\ open = {}
  /\ event = [t \in Threads |-> "none"]
  /\ lost = FALSE

-----------------------------------------------------------------------------
(* attach() *)

Comes(step) == attached < Len(Order) /\ Order[attached + 1] = step

FillSlots ==
  /\ Comes("slots")
  /\ attached' = attached + 1
  /\ filled' = TRUE
  /\ UNCHANGED <<rateVars, limited, open, event, lost>>

SetLimit ==
  /\ Comes("limit")
  /\ attached' = attached + 1
  /\ IF limited THEN Rate!SetLimit ELSE UNCHANGED rateVars
  /\ UNCHANGED <<limited, layer, event, lost>>

\* The configured filter may itself reject the events, or the warning.
ReloadFilter ==
  /\ Comes("filter")
  /\ attached' = attached + 1
  /\ open' \in SUBSET Kinds
  /\ UNCHANGED <<rateVars, limited, filled, event, lost>>

Publish ==
  /\ Comes("publish")
  /\ attached' = attached + 1
  /\ UNCHANGED <<rateVars, limited, layer, event, lost>>

\* PUT /filters/otlp
Retune ==
  /\ attached = Len(Order)
  /\ open' \in SUBSET Kinds
  /\ open' # open
  /\ UNCHANGED <<rateVars, limited, attached, filled, event, lost>>

-----------------------------------------------------------------------------
(* Events *)

At(t, l) == event' = [event EXCEPT ![t] = l]

\* filter_layer.and(rate_limit) asks the rate limit only about events the
\* filter has let through.
TestFilter_Skipped == TRUE
TestFilter == "event" \in open

Emit(t) ==
  /\ event[t] = "none"
  /\ calls[t] < MaxCalls
  /\ TestFilter
  /\ At(t, "filtered")
  /\ UNCHANGED <<rateVars, limited, attached, layer, lost>>

\* allow() has returned: the event passes, or is dropped.
Decide(t, passes) ==
  At(t, IF pc'[t] # "idle" THEN "limiting"
        ELSE IF passes THEN "passed" ELSE "none")

AskLimit(t) ==
  /\ event[t] = "filtered"
  /\ Rate!Enter(t)
  /\ Decide(t, TRUE)
  /\ UNCHANGED <<limited, attached, layer, lost>>

Allow(t) ==
  /\ event[t] = "limiting"
  /\ Rate!Allow(t)
  /\ Decide(t, granted' # granted)
  /\ UNCHANGED <<limited, attached, layer, lost>>

\* DeferredLogProcessor::emit drops a record for which there is no processor.
Process(t) ==
  /\ event[t] = "passed"
  /\ At(t, "none")
  /\ lost' = (lost \/ ~filled)
  /\ UNCHANGED <<rateVars, limited, attached, layer>>

Tick ==
  /\ Rate!Tick
  /\ UNCHANGED <<limited, attached, layer, event, lost>>

\* The warning thread logs through the same layer, whose filter comes first.
Helper ==
  /\ Rate!HelperLogs("warning" \in open) \/ Rate!HelperEnds
  /\ UNCHANGED <<limited, attached, layer, event, lost>>

Next ==
  \/ FillSlots \/ SetLimit \/ ReloadFilter \/ Publish \/ Retune
  \/ \E t \in Threads : Emit(t) \/ AskLimit(t) \/ Allow(t) \/ Process(t)
  \/ Tick \/ Helper

Spec == Init /\ [][Next]_vars

\* Threads in allow() and the warning thread are scheduled; nothing obliges
\* attach() to go on or an event to come.
FairSpec ==
  /\ Spec
  /\ \A t \in Threads : WF_vars(Allow(t))
  /\ WF_vars(Helper)

-----------------------------------------------------------------------------
\* An event that passes the filter and the rate limit has somewhere to go: no
\* order of attach() and the logging threads loses one.
NoneLost == ~lost

\* A configured limit holds from the first event on: no event passes the layer
\* that was not counted against it, however long ago its thread tested the filter.
NoneUnlimited ==
  limited => \A t \in Threads :
    event[t] \in {"limiting", "passed"} => lim[t] = Limit

\* What attach() and log control do to the layer leaves the accounting of the
\* rate limit as exact as RateLimit has it, and an event the filter rejects
\* does not use up the budget.
BudgetIsUndisturbed ==
  /\ Rate!BudgetExact
  /\ "event" \notin open /\ attached < 3 => seen = 0

\* Dropping events is reported, whatever becomes of the limit and the filter on
\* the way: a thread that has dropped the first event of a window, and finds no
\* warning thread about to end, has a warning exported, by its own thread or by
\* the one already there, unless the filter of the layer rejects the warning
\* in the meantime.
DropIsReported ==
  (\E t \in Threads : pc[t] = "claim") /\ helper.clear = 0
    ~> warnings \/ "warning" \notin open

\* The warning thread ends, whatever the layer goes through, so that the next
\* window can warn.
HelperIsReleased == Rate!HelperIsReleased
=============================================================================
