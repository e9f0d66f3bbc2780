---------------------------- MODULE WebhookInbox ----------------------------
(***************************************************************************)
(* The Stripe webhook endpoint: StripeController.stripeWebhook and         *)
(* StripeService.handleWebhookEvent.  Stripe delivers each event at least  *)
(* once, possibly twice at the same moment, and redelivers it until it is  *)
(* answered with a 2xx.  The endpoint keeps one WebhookEvent document per  *)
(* event (a unique index on stripeEventId) and awaits the database between *)
(* looking the event up, inserting it and updating its status, so requests *)
(* interleave at every await.  The API runs as one process: a crash ends   *)
(* every request in flight and leaves the documents as they are.           *)
(*                                                                         *)
(* The business handler of an event is abstract here: it takes effect      *)
(* between BeginHandler and HandlerReturns, or throws, or catches an       *)
(* exception of its own and returns all the same, as the handlers of a     *)
(* partial payment and of a renewal do.                                    *)
(***************************************************************************)
EXTENDS Naturals, FiniteSets

CONSTANTS
    Events,         \* Stripe events that pass signature verification
    HandledEvents,  \* those whose type has a case in the switch
    Swallowing,     \* those whose handler has a catch that does not rethrow
    Requests,       \* HTTP requests in flight at the same time (a bound)
    NoEvent,        \* what a free request carries
    MaxFaults       \* bound on crashes and rejected database calls together

ASSUME EventsAssumption == HandledEvents \subseteq Events /\ Swallowing \subseteq HandledEvents
ASSUME NoEventAssumption == NoEvent \notin Events
ASSUME FaultsAssumption == MaxFaults \in Nat

VARIABLES
    log,        \* status of the WebhookEvent document of each event, or "absent"
    pc,         \* the await at which each request stands
    event,      \* the event each request carries
    acked,      \* events Stripe has been answered 2xx for
    dismissed,  \* events answered "already processed" at least once
    started,    \* ghost: how often the handler of each event was begun
    finished,   \* ghost: events whose handler did all its work and returned
    swallowed,  \* ghost: events whose handler returned after an exception of its own
    faults      \* crashes and rejected database calls so far

vars == <<log, pc, event, acked, dismissed, started, finished, swallowed, faults>>

LogStatus == {"absent", "received", "processing", "processed", "failed", "ignored"}
PCs == {"idle", "lookup", "create", "mark", "dispatch", "handling", "close", "fail"}

TypeOK ==
    /\ log \in [Events -> LogStatus]
    /\ pc \in [Requests -> PCs]
    /\ event \in [Requests -> Events \cup {NoEvent}]
    /\ acked \subseteq Events
    /\ dismissed \subseteq Events
    /\ started \in [Events -> Nat]
    /\ finished \subseteq Events
    /\ swallowed \subseteq Events
    /\ faults \in Nat
    /\ \A w \in Requests : pc[w] # "idle" => event[w] \in Events

Init ==
    /\ log = [e \in Events |-> "absent"]
    /\ pc = [w \in Requests |-> "idle"]
    /\ event = [w \in Requests |-> NoEvent]
    /\ acked = {}
    /\ dismissed = {}
    /\ started = [e \in Events |-> 0]
    /\ finished = {}
    /\ swallowed = {}
    /\ faults = 0

-----------------------------------------------------------------------------
Goto(w, l) == pc' = [pc EXCEPT ![w] = l]

\* The request is over: 200 acknowledges the event, 400 makes Stripe retry.
Answer200(w) ==
    /\ Goto(w, "idle")
    /\ acked' = acked \cup {event[w]}

Answer400(w) ==
    /\ Goto(w, "idle")
    /\ UNCHANGED acked

SetStatus(w, s) == log' = [log EXCEPT ![event[w]] = s]

-----------------------------------------------------------------------------
\* Faulty variants of the steps below: what a change of the code would do.

\* A failed event is taken up again by its next delivery.
LookUpRetriesFailed(w) ==
    /\ pc[w] = "lookup"
    /\ CASE log[event[w]] = "absent" -> Goto(w, "create") /\ UNCHANGED <<acked, dismissed>>
         [] log[event[w]] = "failed" -> Goto(w, "mark") /\ UNCHANGED <<acked, dismissed>>
         [] OTHER -> Answer200(w) /\ dismissed' = dismissed \cup {event[w]}
    /\ UNCHANGED <<log, event, started, finished, swallowed, faults>>

\* A known event is refused with an error, as the unique index does.
LookUpRefuses(w) ==
    /\ pc[w] = "lookup"
    /\ IF log[event[w]] # "absent" THEN Answer400(w) ELSE Goto(w, "create") /\ UNCHANGED acked
    /\ UNCHANGED <<log, event, dismissed, started, finished, swallowed, faults>>

\* stripeEventId has no unique index.
CreateWithoutIndex(w) ==
    /\ pc[w] = "create"
    /\ SetStatus(w, "received")
    /\ Goto(w, "mark")
    /\ UNCHANGED <<event, acked, dismissed, started, finished, swallowed, faults>>

\* The default case writes a status the schema's enum does not have.
IgnoreUnlisted(w) ==
    /\ pc[w] = "dispatch"
    /\ event[w] \notin HandledEvents
    /\ SetStatus(w, "unhandled")
    /\ Answer200(w)
    /\ UNCHANGED <<event, dismissed, started, finished, swallowed, faults>>

\* The handlers are called outside the try block: their exceptions reach the
\* controller and nobody records the failure.
HandlerThrowsOut(w) ==
    /\ pc[w] = "handling"
    /\ Answer400(w)
    /\ UNCHANGED <<log, event, dismissed, started, finished, swallowed, faults>>

-----------------------------------------------------------------------------
\* Stripe delivers an event.  An acknowledged event may still be delivered
\* again: the duplicate was already on its way.
Deliver(w, e) ==
    /\ pc[w] = "idle"
    /\ Goto(w, "lookup")
    /\ event' = [event EXCEPT ![w] = e]
    /\ UNCHANGED <<log, acked, dismissed, started, finished, swallowed, faults>>

\* findOne({ stripeEventId }): any document at all, whatever its status, ends
\* the request with a 200.
LookUp(w) ==
    /\ pc[w] = "lookup"
    /\ IF log[event[w]] # "absent"
       THEN /\ Answer200(w)
            /\ dismissed' = dismissed \cup {event[w]}
       ELSE /\ Goto(w, "create")
            /\ UNCHANGED <<acked, dismissed>>
    /\ UNCHANGED <<log, event, started, finished, swallowed, faults>>

\* webhookEventModel.create(): stands outside the try block, so the error of
\* the unique index goes straight to the controller.
Create(w) ==
    /\ pc[w] = "create"
    /\ IF log[event[w]] = "absent"
       THEN /\ SetStatus(w, "received")
            /\ Goto(w, "mark")
            /\ UNCHANGED acked
       ELSE /\ Answer400(w)
            /\ UNCHANGED log
    /\ UNCHANGED <<event, dismissed, started, finished, swallowed, faults>>

MarkProcessing(w) ==
    /\ pc[w] = "mark"
    /\ SetStatus(w, "processing")
    /\ Goto(w, "dispatch")
    /\ UNCHANGED <<event, acked, dismissed, started, finished, swallowed, faults>>

\* The switch on event.type reaches a handler ...
BeginHandler(w) ==
    /\ pc[w] = "dispatch"
    /\ event[w] \in HandledEvents
    /\ started' = [started EXCEPT ![event[w]] = @ + 1]
    /\ Goto(w, "handling")
    /\ UNCHANGED <<log, event, acked, dismissed, finished, swallowed, faults>>

\* ... or its default case, which answers 200.
Ignore(w) ==
    /\ pc[w] = "dispatch"
    /\ event[w] \notin HandledEvents
    /\ SetStatus(w, "ignored")
    /\ Answer200(w)
    /\ UNCHANGED <<event, dismissed, started, finished, swallowed, faults>>

\* The handler has done its work.
HandlerReturns(w) ==
    /\ pc[w] = "handling"
    /\ finished' = finished \cup {event[w]}
    /\ Goto(w, "close")
    /\ UNCHANGED <<log, event, acked, dismissed, started, swallowed, faults>>

\* The handler catches an exception, logs it and returns with some or none of
\* its work done: whatever processSuccessfulPayment throws in the partial
\* payment branch of handleCheckoutCompleted, and the user's update in
\* handleRecurringPayment.
HandlerSwallows(w) ==
    /\ pc[w] = "handling"
    /\ event[w] \in Swallowing
    /\ swallowed' = swallowed \cup {event[w]}
    /\ Goto(w, "close")
    /\ UNCHANGED <<log, event, acked, dismissed, started, finished, faults>>

HandlerThrows(w) ==
    /\ pc[w] = "handling"
    /\ Goto(w, "fail")
    /\ UNCHANGED <<log, event, acked, dismissed, started, finished, swallowed, faults>>

MarkProcessed(w) ==
    /\ pc[w] = "close"
    /\ SetStatus(w, "processed")
    /\ Answer200(w)
    /\ UNCHANGED <<event, dismissed, started, finished, swallowed, faults>>

\* The catch block: record the failure, rethrow, and let Stripe retry.
MarkFailed(w) ==
    /\ pc[w] = "fail"
    /\ SetStatus(w, "failed")
    /\ Answer400(w)
    /\ UNCHANGED <<event, dismissed, started, finished, swallowed, faults>>

\* A database call of the endpoint rejects.  Before the try block, or inside
\* the catch block, the error reaches the controller; inside the try block it
\* reaches the catch block.  The document keeps its status.
DatabaseError(w) ==
    /\ faults < MaxFaults
    /\ faults' = faults + 1
    /\ \/ /\ pc[w] \in {"lookup", "create", "fail"}
          /\ Answer400(w)
       \/ /\ \/ pc[w] \in {"mark", "close"}
             \/ pc[w] = "dispatch" /\ event[w] \notin HandledEvents
          /\ Goto(w, "fail")
          /\ UNCHANGED acked
    /\ UNCHANGED <<log, event, dismissed, started, finished, swallowed>>

\* The process restarts: every request in flight ends without an answer.
Crash ==
    /\ faults < MaxFaults
    /\ faults' = faults + 1
    /\ \E w \in Requests : pc[w] # "idle"
    /\ pc' = [w \in Requests |-> "idle"]
    /\ UNCHANGED <<log, event, acked, dismissed, started, finished, swallowed>>

-----------------------------------------------------------------------------
Step(w) ==
    \/ LookUp(w) \/ Create(w) \/ MarkProcessing(w)
    \/ BeginHandler(w) \/ Ignore(w)
    \/ HandlerReturns(w) \/ HandlerSwallows(w) \/ HandlerThrows(w)
    \/ MarkProcessed(w) \/ MarkFailed(w)

Next ==
    \/ \E w \in Requests, e \in Events : Deliver(w, e)
    \/ \E w \in Requests : Step(w)
    \/ \E w \in Requests : DatabaseError(w)
    \/ Crash

Spec == Init /\ [][Next]_vars

\* A pending await settles, and Stripe keeps redelivering what it has not been
\* acknowledged for.  The delivery is strongly fair because Requests is a bound
\* of the model: a real server has a free request whenever Stripe retries.
Fairness ==
    /\ \A w \in Requests : WF_vars(Step(w))
    /\ \A e \in Events :
          SF_vars(e \notin acked /\ \E w \in Requests : Deliver(w, e))

FairSpec == Spec /\ Fairness

-----------------------------------------------------------------------------
\* The handler of an event is begun at most once, however often and however
\* concurrently Stripe delivers it, and whatever fails on the way: the
\* duplicate check of handleWebhookEvent backed by the unique index.
HandlerRunsAtMostOnce == \A e \in Events : started[e] <= 1

\* The positions of a request that has inserted the document of its event.
Owning == {"mark", "dispatch", "handling", "close", "fail"}

\* What the status of a WebhookEvent document tells about the handler, crashes
\* between any two of its writes included: "processed" that the handler was
\* begun and returned, with its work done or with its exception swallowed;
\* "failed" that it was begun and threw, unless a database call failed;
\* "ignored" that there was none.  A document is left in "received" or
\* "processing" with no request at it only where something failed.
StatusIsHonest ==
    \A e \in Events :
        /\ log[e] \in {"absent", "received", "ignored"} => started[e] = 0
        /\ log[e] = "processed" => e \in finished \cup swallowed
        /\ log[e] = "failed" /\ faults = 0 =>
              started[e] = 1 /\ e \notin finished \cup swallowed
        /\ log[e] \in {"received", "processing"} /\ faults = 0 =>
              \E w \in Requests : pc[w] \in Owning /\ event[w] = e

Closed == {"processed", "failed", "ignored"}

\* A document that has reached a final status is never written again: no
\* delivery reopens an event, not even one that failed.
ClosedStaysClosed ==
    [][\A e \in Events : log[e] \in Closed => log'[e] = log[e]]_vars

\* Stripe's retries end: every event is eventually answered 2xx.
RetriesEnd == \A e \in Events : <>(e \in acked)

\* The business effect of an event, as the abstract specification sees it; for
\* a handler that ran again it has no word.
EffectOf(e) ==
    IF started[e] = 0 THEN "none"
    ELSE IF started[e] > 1 THEN "repeated"
    ELSE IF e \in finished THEN "finished"
    ELSE IF \E w \in Requests : pc[w] = "handling" /\ event[w] = e THEN "begun"
    ELSE "cut"

Abstract == INSTANCE AtMostOnce WITH effect <- [e \in Events |-> EffectOf(e)]

\* The endpoint implements the at-most-once effect.
ImplementsAtMostOnce == Abstract!Spec

\* What the comment before the lookup says, "Check if we've already processed
\* this event", and what the answer 200 "already processed" tells Stripe: an
\* event is dismissed as a duplicate only if it has been processed or ignored,
\* or if another request is processing it at that moment.
DismissedWasProcessed ==
    [][\A e \in dismissed' \ dismissed :
          \/ e \in finished
          \/ log[e] = "ignored"
          \/ \E w \in Requests : pc[w] \notin {"idle", "lookup"} /\ event[w] = e]_vars
=============================================================================
