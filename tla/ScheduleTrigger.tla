--------------------------- MODULE ScheduleTrigger ---------------------------
(***************************************************************************)
(* The schedule trigger of a service (internal/trigger/schedule.go): a     *)
(* goroutine of `simla up` that invokes the service at every tick of a     *)
(* time.Ticker.  The ticker's channel holds one tick; ticks that find it   *)
(* full are dropped, as happens while an invocation takes longer than the  *)
(* interval.                                                               *)
(***************************************************************************)

VARIABLES stopped,   \* the process's context is done
          schedule,  \* "waiting", "invoking", "ended"
          tick,      \* a tick is in the channel
          owed       \* history: the interval has passed since the last
                     \* invocation began

vars == <<stopped, schedule, tick, owed>>

\* newSchedule may refuse the expression, and `simla up` goes on without the
\* trigger.
Init ==
    /\ stopped = FALSE
    /\ schedule \in {"waiting", "ended"}
    /\ tick = FALSE /\ owed = FALSE

\* The interval is over: the tick goes into the channel, or is dropped.
Tick ==
    /\ schedule # "ended"
    /\ tick' = TRUE
    /\ owed' = TRUE
    /\ UNCHANGED <<stopped, schedule>>

\* The select takes the tick, also when the context is done as well.
Take ==
    /\ schedule = "waiting"
    /\ tick
    /\ tick' = FALSE
    /\ owed' = FALSE
    /\ schedule' = "invoking"
    /\ UNCHANGED stopped

\* Variant with a bug: ticks of the time of the invocation are discarded.
InvokeEndsReset ==
    /\ schedule = "invoking"
    /\ schedule' = "waiting"
    /\ tick' = FALSE
    /\ UNCHANGED <<stopped, owed>>

\* s.invoke, whose error is logged and forgotten.
InvokeEnds ==
    /\ schedule = "invoking"
    /\ schedule' = "waiting"
    /\ UNCHANGED <<stopped, tick, owed>>

End ==
    /\ stopped
    /\ schedule = "waiting"
    /\ schedule' = "ended"
    /\ UNCHANGED <<stopped, tick, owed>>

\* SIGINT.
Signal ==
    /\ ~stopped
    /\ stopped' = TRUE
    /\ UNCHANGED <<schedule, tick, owed>>

Next == Tick \/ Take \/ InvokeEnds \/ End \/ Signal

Spec == Init /\ [][Next]_vars

\* The goroutine runs, and a select in which the context is done and a tick
\* is pending takes the first in the end, since Go chooses at random.
Fairness == WF_vars(Take \/ InvokeEnds) /\ SF_vars(End)

-----------------------------------------------------------------------------
(* Properties *)

TypeOK ==
    /\ stopped \in BOOLEAN
    /\ schedule \in {"waiting", "invoking", "ended"}
    /\ tick \in BOOLEAN /\ owed \in BOOLEAN
=============================================================================
