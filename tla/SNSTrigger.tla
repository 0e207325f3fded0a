----------------------------- MODULE SNSTrigger -----------------------------
(***************************************************************************)
(* The SNS trigger of a service (internal/trigger/sns.go): an HTTP server  *)
(* in a goroutine of `simla up`.  Its handler answers a publication at     *)
(* once and leaves the invocation to a goroutine, to which it gives the    *)
(* context of the request; net/http ends that context when the handler     *)
(* returns.                                                                *)
(***************************************************************************)
EXTENDS Integers

CONSTANTS Publication,   \* requests that clients may make
          FunctionFails  \* BOOLEAN: invocations may fail by themselves

VARIABLES stopped,   \* the process's context is done
          sns,       \* "start", "serving", "closing", "ended"
          request,   \* [Publication -> where its request is]
          delivery   \* [Publication -> where its invocation is]

vars == <<stopped, sns, request, delivery>>

\* newSNS may refuse the configuration, and `simla up` goes on without the
\* trigger.
Init ==
    /\ stopped = FALSE
    /\ sns \in {"start", "ended"}
    /\ request = [p \in Publication |-> "unsent"]
    /\ delivery = [p \in Publication |-> "none"]

\* net.Listen: the port may be taken.
Listen ==
    /\ sns = "start"
    /\ sns' \in {"serving", "ended"}
    /\ UNCHANGED <<stopped, request, delivery>>

\* handlePublish: a request of another method, or whose body is not JSON, is
\* refused.
Publish(p) ==
    /\ sns = "serving"
    /\ request[p] = "unsent"
    /\ request' \in {[request EXCEPT ![p] = "open"], [request EXCEPT ![p] = "refused"]}
    /\ UNCHANGED <<stopped, sns, delivery>>

Spawn(p) ==
    /\ request[p] = "open"
    /\ delivery[p] = "none"
    /\ delivery' = [delivery EXCEPT ![p] = "invoking"]
    /\ UNCHANGED <<stopped, sns, request>>

\* The response is written and the handler returns, with the goroutine begun.
\* The request's context is done from here on.
Answer(p) ==
    /\ request[p] = "open"
    /\ delivery[p] # "none"
    /\ request' = [request EXCEPT ![p] = "answered"]
    /\ UNCHANGED <<stopped, sns, delivery>>

\* The function is reached while the context lasts.
Deliver(p) ==
    /\ delivery[p] = "invoking"
    /\ request[p] = "open"
    /\ delivery' = [delivery EXCEPT ![p] = "handled"]
    /\ UNCHANGED <<stopped, sns, request>>

\* Variant with a bug: a call without a deadline does not see that its context
\* is done.
DeliveryFailsOnlyOpen(p) ==
    /\ delivery[p] = "invoking"
    /\ request[p] = "open" /\ FunctionFails
    /\ delivery' = [delivery EXCEPT ![p] = "failed"]
    /\ UNCHANGED <<stopped, sns, request>>

\* Invoke returns an error, which base.invoke logs: the health check or the
\* request finds the context done, or the service fails.
DeliveryFails(p) ==
    /\ delivery[p] = "invoking"
    /\ request[p] = "answered" \/ FunctionFails
    /\ delivery' = [delivery EXCEPT ![p] = "failed"]
    /\ UNCHANGED <<stopped, sns, request>>

\* Shutdown closes the listener and waits for the handlers, for five seconds
\* at most.  It does not wait for the goroutines they began.
Close ==
    /\ stopped
    /\ sns = "serving"
    /\ sns' = "closing"
    /\ UNCHANGED <<stopped, request, delivery>>

Closed ==
    /\ sns = "closing"
    /\ sns' = "ended"
    /\ UNCHANGED <<stopped, request, delivery>>

\* Serve returns an error by itself, and Start with it.
ServeFails ==
    /\ sns = "serving"
    /\ sns' = "ended"
    /\ UNCHANGED <<stopped, request, delivery>>

\* SIGINT.
Signal ==
    /\ ~stopped
    /\ stopped' = TRUE
    /\ UNCHANGED <<sns, request, delivery>>

Handler(p) == Spawn(p) \/ Answer(p)
Invocation(p) == Deliver(p) \/ DeliveryFails(p)

Next ==
    \/ Listen \/ Close \/ Closed \/ ServeFails \/ Signal
    \/ \E p \in Publication : Publish(p) \/ Handler(p) \/ Invocation(p)

Spec == Init /\ [][Next]_vars

\* Goroutines run and invocations end.
Fairness ==
    /\ WF_vars(Listen \/ Close \/ Closed)
    /\ \A p \in Publication : WF_vars(Handler(p)) /\ WF_vars(Invocation(p))

-----------------------------------------------------------------------------
(* Properties *)

TypeOK ==
    /\ stopped \in BOOLEAN
    /\ sns \in {"start", "serving", "closing", "ended"}
    /\ request \in [Publication -> {"unsent", "refused", "open", "answered"}]
    /\ delivery \in [Publication -> {"none", "invoking", "handled", "failed"}]

\* A published message reaches a function that works (triggers.md: "Listens
\* for messages published to an SNS topic and invokes your Lambda").
PublishedIsHandled ==
    \A p \in Publication : delivery[p] = "failed" => FunctionFails
=============================================================================
