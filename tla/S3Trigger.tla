------------------------------ MODULE S3Trigger ------------------------------
(***************************************************************************)
(* The S3 trigger of a service (internal/trigger/s3.go): a goroutine of    *)
(* `simla up` that watches one directory and invokes the service for each  *)
(* change of a file in it, one after the other.                            *)
(*                                                                         *)
(* The directory and fsnotify are outside the program: every change puts   *)
(* its events into a queue, in order.  A queue that overflows is left out: *)
(* the trigger logs fsnotify's error, does not look at the directory, and  *)
(* nothing can be said of the files whose events are lost.                 *)
(***************************************************************************)
EXTENDS Integers, Sequences

CONSTANTS File,        \* files of the directory
          Filters,     \* the sets of event names that a trigger may list
          MaxEvents,   \* bound: events that wait; the queue never overflows
          NoEvent

S3Assumption == MaxEvents \in Nat /\ NoEvent \notin [op : STRING, file : File]

VARIABLES stopped,   \* the process's context is done
          filter,    \* the event names of the trigger
          files,     \* the files that exist
          events,    \* fsnotify's queue
          s3,        \* the trigger: pc and the event it works on
          reported,  \* history: [File -> what the service was last told]
          moved      \* history: files whose last change was to get another name

vars == <<stopped, filter, files, events, s3, reported, moved>>

\* newS3 may refuse the configuration, or the directory cannot be watched, and
\* `simla up` goes on without the trigger.
Init ==
    /\ stopped = FALSE
    /\ filter \in Filters
    /\ files \in SUBSET File
    /\ events = <<>>
    /\ s3 \in [pc : {"waiting", "ended"}, event : {NoEvent}]
    /\ reported = [f \in File |-> "nothing"]
    /\ moved = {}

-----------------------------------------------------------------------------
(* The directory *)

Event(op, f) == [op |-> op, file |-> f]

\* The watch ends with the trigger; the directory is of no concern after it.
Queue(new) ==
    /\ s3.pc # "ended"
    /\ Len(events) + Len(new) <= MaxEvents
    /\ events' = events \o new

Environment == UNCHANGED <<stopped, filter, s3, reported>>

\* A file is created, or written.
Put(f) ==
    /\ Queue(<<Event(IF f \in files THEN "write" ELSE "create", f)>>)
    /\ files' = files \cup {f}
    /\ moved' = moved \ {f}
    /\ Environment

Delete(f) ==
    /\ f \in files
    /\ Queue(<<Event("remove", f)>>)
    /\ files' = files \ {f}
    /\ moved' = moved \ {f}
    /\ Environment

\* The old name gets the event "rename", the new one "create".
Rename(f, g) ==
    /\ f \in files /\ g # f
    /\ Queue(<<Event("rename", f), Event("create", g)>>)
    /\ files' = (files \ {f}) \cup {g}
    /\ moved' = (moved \ {g}) \cup {f}
    /\ Environment

Chmod(f) ==
    /\ f \in files
    /\ Queue(<<Event("chmod", f)>>)
    /\ UNCHANGED <<files, moved>>
    /\ Environment

-----------------------------------------------------------------------------
(* The trigger *)

\* fsEventToS3: the name of the event, or none.
EventName(op) ==
    CASE op \in {"create", "write", "rename"} -> "s3:ObjectCreated:Put"
      [] op = "remove"                        -> "s3:ObjectRemoved:Delete"
      [] OTHER                                -> "none"

\* The patterns that match a name: itself, and those that end in a star.
Patterns(name) ==
    CASE name = "s3:ObjectCreated:Put"    -> {name, "s3:ObjectCreated:*", "s3:*"}
      [] name = "s3:ObjectRemoved:Delete" -> {name, "s3:ObjectRemoved:*", "s3:*"}
      [] OTHER                            -> {}

\* newS3 reads an empty list as both kinds.
Listed == IF filter = {} THEN {"s3:ObjectCreated:*", "s3:ObjectRemoved:*"} ELSE filter

shouldFire(name) == Listed \cap Patterns(name) # {}

\* Variant with a bug: the service is told of the newest event that waits.
TakeNewest ==
    /\ s3.pc = "waiting"
    /\ events # <<>>
    /\ events' = SubSeq(events, 1, Len(events) - 1)
    /\ s3' = IF shouldFire(EventName(events[Len(events)].op))
               THEN [pc |-> "invoking", event |-> events[Len(events)]] ELSE s3
    /\ UNCHANGED <<stopped, filter, files, reported, moved>>

\* The next event.  One that is ignored, or not listed, is gone.
Take ==
    /\ s3.pc = "waiting"
    /\ events # <<>>
    /\ events' = Tail(events)
    /\ s3' = IF shouldFire(EventName(Head(events).op))
               THEN [pc |-> "invoking", event |-> Head(events)] ELSE s3
    /\ UNCHANGED <<stopped, filter, files, reported, moved>>

\* s.invoke, whose error is logged and forgotten.
InvokeEnds ==
    /\ s3.pc = "invoking"
    /\ reported' = [reported EXCEPT ![s3.event.file] = EventName(s3.event.op)]
    /\ s3' = [pc |-> "waiting", event |-> NoEvent]
    /\ UNCHANGED <<stopped, filter, files, events, moved>>

\* The select sees the context done.
End ==
    /\ stopped
    /\ s3.pc = "waiting"
    /\ s3' = [s3 EXCEPT !.pc = "ended"]
    /\ UNCHANGED <<stopped, filter, files, events, reported, moved>>

\* SIGINT.
Signal ==
    /\ ~stopped
    /\ stopped' = TRUE
    /\ UNCHANGED <<filter, files, events, s3, reported, moved>>

Next ==
    \/ \E f \in File : Put(f) \/ Delete(f) \/ Chmod(f) \/ \E g \in File : Rename(f, g)
    \/ Take \/ InvokeEnds \/ End
    \/ Signal

Spec == Init /\ [][Next]_vars

\* The goroutine runs, and a select in which the context is done and an event
\* waits takes the first in the end, since Go chooses at random.
Fairness == WF_vars(Take \/ InvokeEnds) /\ SF_vars(End)

-----------------------------------------------------------------------------
(* Properties *)

TypeOK ==
    /\ stopped \in BOOLEAN
    /\ filter \in Filters
    /\ files \subseteq File /\ moved \subseteq File \ files
    /\ Len(events) <= MaxEvents
    /\ s3.pc \in {"waiting", "invoking", "ended"}
    /\ reported \in [File -> {"nothing", "s3:ObjectCreated:Put", "s3:ObjectRemoved:Delete"}]

\* When no event waits, the last thing a service that listens to everything
\* was told of a file, in an invocation that succeeded or failed, is what became
\* of it, whatever changes overlapped its invocations.  A file that was given
\* another name is the exception: it is reported as created, at the name under
\* which it no longer exists.
ReportsFollow ==
    (s3.pc = "waiting" /\ events = <<>> /\ filter = {}) =>
        \A f \in File \ moved :
            reported[f] # "nothing" =>
                (reported[f] = "s3:ObjectCreated:Put") = (f \in files)
=============================================================================
