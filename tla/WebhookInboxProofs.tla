------------------------- MODULE WebhookInboxProofs -------------------------
(***************************************************************************)
(* Proofs about WebhookInbox for any set of events, any number of requests *)
(* in flight and any number of faults.  A request "owns" its event from    *)
(* the moment it has inserted the document until it answers; the inductive *)
(* invariant says that an event has at most one owner, ties the owner's    *)
(* position to the status of the document, and ties both to whether the    *)
(* handler was begun.                                                      *)
(***************************************************************************)
EXTENDS WebhookInbox, TLAPS

USE DEF LogStatus, PCs

OneOwner ==
    \A v, w \in Requests :
        pc[v] \in Owning /\ pc[w] \in Owning /\ event[v] = event[w] => v = w

\* What the position of an owner says of its event.
OwnerState ==
    \A w \in Requests :
        /\ pc[w] \in Owning => log[event[w]] \in {"received", "processing"}
        /\ pc[w] = "mark" => log[event[w]] = "received"
        /\ pc[w] \in {"mark", "dispatch"} => started[event[w]] = 0
        /\ pc[w] \in {"dispatch", "handling", "close"} => log[event[w]] = "processing"
        /\ pc[w] = "handling" =>
              started[event[w]] = 1 /\ event[w] \notin finished \cup swallowed
        /\ pc[w] = "close" => event[w] \in finished \cup swallowed
        /\ pc[w] = "fail" /\ faults = 0 =>
              started[event[w]] = 1 /\ event[w] \notin finished \cup swallowed

\* What the status of a document says of the handler.
DocumentState ==
    \A e \in Events :
        /\ log[e] \in {"absent", "received", "ignored"} => started[e] = 0
        /\ log[e] = "processed" => e \in finished \cup swallowed
        /\ e \in finished \cup swallowed => started[e] = 1
        /\ started[e] <= 1
        /\ log[e] = "failed" /\ faults = 0 =>
              started[e] = 1 /\ e \notin finished \cup swallowed

\* Without a fault, a document on its way has a request at it.
Attended ==
    faults = 0 =>
        \A e \in Events : log[e] \in {"received", "processing"} =>
            \E w \in Requests : pc[w] \in Owning /\ event[w] = e

IBase == TypeOK /\ OneOwner /\ OwnerState /\ DocumentState

IInv == IBase /\ Attended

\* The inductive invariant holds before the first delivery.
LEMMA InitIInv == Init => IInv
  BY DEF Init, IInv, IBase, Attended, TypeOK, OneOwner, OwnerState, DocumentState, Owning

\* Every step of a request keeps its base: only the owner of an event writes its
\* document.
LEMMA StepIBase ==
  ASSUME IBase, NEW w \in Requests, Step(w)
  PROVE  IBase'
  <1> USE DEF Goto, SetStatus, Answer200, Answer400
  <1> event[w] \in Events \/ pc[w] = "idle"
    BY DEF IBase, TypeOK
  <1>1. CASE LookUp(w)
    BY <1>1 DEF LookUp, IBase, TypeOK, OneOwner, OwnerState, DocumentState, Owning
  <1>2. CASE Create(w)
    BY <1>2 DEF Create, IBase, TypeOK, OneOwner, OwnerState, DocumentState, Owning
  <1>3. CASE MarkProcessing(w)
    BY <1>3 DEF MarkProcessing, IBase, TypeOK, OneOwner, OwnerState, DocumentState, Owning
  <1>4. CASE BeginHandler(w)
    BY <1>4 DEF BeginHandler, IBase, TypeOK, OneOwner, OwnerState, DocumentState, Owning
  <1>5. CASE Ignore(w)
    BY <1>5 DEF Ignore, IBase, TypeOK, OneOwner, OwnerState, DocumentState, Owning
  <1>6. CASE HandlerReturns(w)
    BY <1>6 DEF HandlerReturns, IBase, TypeOK, OneOwner, OwnerState, DocumentState, Owning
  <1>7. CASE HandlerSwallows(w)
    BY <1>7 DEF HandlerSwallows, IBase, TypeOK, OneOwner, OwnerState, DocumentState, Owning
  <1>8. CASE HandlerThrows(w)
    BY <1>8 DEF HandlerThrows, IBase, TypeOK, OneOwner, OwnerState, DocumentState, Owning
  <1>9. CASE MarkProcessed(w)
    BY <1>9 DEF MarkProcessed, IBase, TypeOK, OneOwner, OwnerState, DocumentState, Owning
  <1>10. CASE MarkFailed(w)
    BY <1>10 DEF MarkFailed, IBase, TypeOK, OneOwner, OwnerState, DocumentState, Owning
  <1> QED
    BY <1>1, <1>2, <1>3, <1>4, <1>5, <1>6, <1>7, <1>8, <1>9, <1>10 DEF Step

\* A request leaves a document on its way only by giving it a final status.
LEMMA StepAttended ==
  ASSUME IInv, NEW w \in Requests, Step(w)
  PROVE  Attended'
  <1> USE DEF Goto, SetStatus, Answer200, Answer400
  <1> SUFFICES ASSUME faults' = 0, NEW e \in Events, log'[e] \in {"received", "processing"}
               PROVE  \E v \in Requests : pc'[v] \in Owning /\ event'[v] = e
    BY DEF Attended
  <1> DEFINE Mine == /\ event[w] = e
                     /\ (pc[w] \in Owning) \/ (pc[w] = "create" /\ log[e] = "absent")
  <1>1. faults = 0 /\ event' = event
    BY DEF Step, LookUp, Create, MarkProcessing, BeginHandler, Ignore, HandlerReturns,
           HandlerSwallows, HandlerThrows, MarkProcessed, MarkFailed
  <1>2. \A v \in Requests \ {w} : pc'[v] = pc[v]
    BY DEF Step, LookUp, Create, MarkProcessing, BeginHandler, Ignore, HandlerReturns,
           HandlerSwallows, HandlerThrows, MarkProcessed, MarkFailed, IInv, IBase, TypeOK
  <1>3. CASE Mine
    <2>1. pc'[w] \in Owning
      BY <1>3 DEF Step, LookUp, Create, MarkProcessing, BeginHandler, Ignore, HandlerReturns,
           HandlerSwallows, HandlerThrows, MarkProcessed, MarkFailed, IInv, IBase, TypeOK, Owning
    <2> QED
      BY <1>1, <1>3, <2>1
  <1>4. CASE ~Mine
    <2>1. log'[e] = log[e]
      <3>1. pc[w] # "idle" => event[w] \in Events
        BY DEF IInv, IBase, TypeOK
      <3>2. CASE Create(w)
        BY <1>4, <3>1, <3>2 DEF Create, IInv, IBase, TypeOK, Mine
      <3>3. CASE pc[w] \in Owning
        BY <1>4, <3>1, <3>3 DEF Step, LookUp, Create, MarkProcessing, BeginHandler, Ignore,
           HandlerReturns, HandlerSwallows, HandlerThrows, MarkProcessed, MarkFailed,
           IInv, IBase, TypeOK, Owning, Mine
      <3>4. CASE LookUp(w)
        BY <3>4 DEF LookUp
      <3> QED
        BY <3>2, <3>3, <3>4 DEF Step, MarkProcessing, BeginHandler, Ignore, HandlerReturns,
           HandlerSwallows, HandlerThrows, MarkProcessed, MarkFailed, Owning
    <2>2. PICK v \in Requests : pc[v] \in Owning /\ event[v] = e
      BY <1>1, <2>1 DEF IInv, Attended
    <2>3. v # w
      BY <1>4, <2>2 DEF Mine
    <2> QED
      BY <1>1, <1>2, <2>2, <2>3
  <1> QED
    BY <1>3, <1>4

\* Every step of the endpoint keeps the inductive invariant.
LEMMA NextIInv == IInv /\ [Next]_vars => IInv'
  <1> SUFFICES ASSUME IInv, [Next]_vars PROVE IInv'
    OBVIOUS
  <1>1. ASSUME NEW w \in Requests, NEW e \in Events, Deliver(w, e) PROVE IInv'
    <2>1. IBase'
      BY <1>1 DEF Deliver, Goto, IInv, IBase, TypeOK, OneOwner, OwnerState, DocumentState, Owning
    <2>2. \A v \in Requests : pc[v] \in Owning => pc'[v] = pc[v] /\ event'[v] = event[v]
      BY <1>1 DEF Deliver, Goto, IInv, IBase, TypeOK, Owning
    <2>3. Attended'
      BY <1>1, <2>2 DEF Deliver, IInv, Attended
    <2> QED
      BY <2>1, <2>3 DEF IInv
  <1>2. ASSUME NEW w \in Requests, Step(w) PROVE IInv'
    BY <1>2, StepIBase, StepAttended DEF IInv
  <1>3. ASSUME NEW w \in Requests, DatabaseError(w) PROVE IInv'
    <2>1. IBase'
      BY <1>3 DEF DatabaseError, Goto, Answer400, IInv, IBase, TypeOK, OneOwner, OwnerState,
                  DocumentState, Owning
    <2>2. faults' # 0
      BY <1>3 DEF DatabaseError, IInv, IBase, TypeOK
    <2> QED
      BY <2>1, <2>2 DEF IInv, Attended
  <1>4. CASE Crash
    <2>1. IBase'
      BY <1>4 DEF Crash, IInv, IBase, TypeOK, OneOwner, OwnerState, DocumentState, Owning
    <2>2. faults' # 0
      BY <1>4 DEF Crash, IInv, IBase, TypeOK
    <2> QED
      BY <2>1, <2>2 DEF IInv, Attended
  <1>5. CASE UNCHANGED vars
    BY <1>5 DEF vars, IInv, IBase, Attended, TypeOK, OneOwner, OwnerState, DocumentState, Owning
  <1> QED
    BY <1>1, <1>2, <1>3, <1>4, <1>5 DEF Next

\* The inductive invariant holds throughout every run of the endpoint.
THEOREM Invariance == Spec => []IInv
  BY InitIInv, NextIInv, PTL DEF Spec

\* Every variable keeps its type in every run of the endpoint.
THEOREM TypeCorrect == Spec => []TypeOK
  <1>1. IInv => TypeOK
    BY DEF IInv, IBase
  <1> QED
    BY <1>1, Invariance, PTL

\* However often and concurrently Stripe delivers an event, whatever fails and
\* whenever the process restarts, its handler is begun at most once.
THEOREM AtMostOnceHandler == Spec => []HandlerRunsAtMostOnce
  <1>1. IInv => HandlerRunsAtMostOnce
    BY DEF IInv, IBase, DocumentState, HandlerRunsAtMostOnce
  <1> QED
    BY <1>1, Invariance, PTL

\* What the status of a WebhookEvent document tells of the handler is so, whatever
\* was delivered twice, failed or crashed: StatusIsHonest, an exception the
\* handler swallowed included.
THEOREM HonestStatus == Spec => []StatusIsHonest
  <1>1. IInv => StatusIsHonest
    BY DEF IInv, IBase, TypeOK, DocumentState, Attended, StatusIsHonest
  <1> QED
    BY <1>1, Invariance, PTL

-----------------------------------------------------------------------------
\* A write needs an owner, and an owner's event is not closed.
LEMMA ClosedUntouched ==
  ASSUME IInv, [Next]_vars
  PROVE  \A e \in Events : log[e] \in Closed => log'[e] = log[e]
  <1>1. ASSUME NEW w \in Requests, Step(w)
        PROVE  \A e \in Events : log[e] \in Closed => log'[e] = log[e]
    <2> USE DEF IInv, IBase, TypeOK, OwnerState, Owning, Closed, Goto, SetStatus, Answer200, Answer400
    <2>1. CASE LookUp(w) \/ BeginHandler(w) \/ HandlerReturns(w) \/ HandlerSwallows(w)
             \/ HandlerThrows(w)
      BY <2>1 DEF LookUp, BeginHandler, HandlerReturns, HandlerSwallows, HandlerThrows
    <2>2. CASE Create(w)
      BY <2>2 DEF Create
    <2>3. CASE MarkProcessing(w) \/ MarkProcessed(w) \/ MarkFailed(w) \/ Ignore(w)
      BY <2>3 DEF MarkProcessing, MarkProcessed, MarkFailed, Ignore
    <2> QED
      BY <1>1, <2>1, <2>2, <2>3 DEF Step
  <1> QED
    BY <1>1 DEF Next, Deliver, DatabaseError, Crash, vars

\* No delivery ever reopens an event whose document has a final status, a
\* failed one included.
THEOREM ClosedIsFinal == Spec => ClosedStaysClosed
  <1>1. IInv /\ [Next]_vars
          => [\A e \in Events : log[e] \in Closed => log'[e] = log[e]]_vars
    BY ClosedUntouched
  <1> QED
    BY <1>1, Invariance, PTL DEF Spec, ClosedStaysClosed

-----------------------------------------------------------------------------
\* Two states in which the handlers stand alike map to the same effects.
LEMMA SameEffect ==
  ASSUME UNCHANGED <<started, finished>>,
         \A w \in Requests, e \in Events :
            (pc[w] = "handling" /\ event[w] = e) <=> (pc'[w] = "handling" /\ event'[w] = e)
  PROVE  [e \in Events |-> EffectOf(e)]' = [e \in Events |-> EffectOf(e)]
  BY DEF EffectOf

\* An event nobody has delivered is an effect nobody has begun.
LEMMA InitMapped == Init => Abstract!Init
  BY DEF Init, Abstract!Init, EffectOf

\* Begin, return, throw and swallow of a handler are the abstract steps; every other
\* await of a request leaves the effects alone.
LEMMA StepMapped ==
  ASSUME IInv, NEW w \in Requests, Step(w)
  PROVE  [Abstract!Next]_([e \in Events |-> EffectOf(e)])
  <1> DEFINE eff == [e \in Events |-> EffectOf(e)]
  <1> USE DEF IInv, IBase, TypeOK, Goto, SetStatus, Answer200, Answer400
  <1>1. CASE LookUp(w) \/ Create(w) \/ MarkProcessing(w) \/ Ignore(w)
             \/ MarkProcessed(w) \/ MarkFailed(w)
    <2>1. UNCHANGED <<started, finished, event>>
      BY <1>1 DEF LookUp, Create, MarkProcessing, Ignore, MarkProcessed, MarkFailed
    <2>2. \A v \in Requests : pc[v] = "handling" <=> pc'[v] = "handling"
      BY <1>1 DEF LookUp, Create, MarkProcessing, Ignore, MarkProcessed, MarkFailed
    <2> QED
      BY <2>1, <2>2, SameEffect
  <1>2. CASE BeginHandler(w)
    <2>1. Abstract!Begin(event[w])
      BY <1>2 DEF BeginHandler, Abstract!Begin, EffectOf, OwnerState, DocumentState
    <2> QED
      BY <1>2, <2>1 DEF BeginHandler, Abstract!Next
  <1>3. CASE HandlerReturns(w)
    <2>1. Abstract!Finish(event[w])
      BY <1>3 DEF HandlerReturns, Abstract!Finish, EffectOf, OneOwner, OwnerState,
             DocumentState, Owning
    <2> QED
      BY <1>3, <2>1 DEF HandlerReturns, Abstract!Next
  <1>4. CASE HandlerThrows(w) \/ HandlerSwallows(w)
    <2>1. Abstract!CutShort({event[w]})
      BY <1>4 DEF HandlerThrows, HandlerSwallows, Abstract!CutShort, EffectOf, OneOwner, OwnerState,
             DocumentState, Owning
    <2> QED
      BY <1>4, <2>1 DEF HandlerThrows, HandlerSwallows, Abstract!Next
  <1> QED
    BY <1>1, <1>2, <1>3, <1>4 DEF Step

\* A crash cuts short exactly the effects whose handlers are running.
LEMMA CrashMapped ==
  ASSUME IInv, Crash
  PROVE  [Abstract!Next]_([e \in Events |-> EffectOf(e)])
  <1> DEFINE eff == [e \in Events |-> EffectOf(e)]
             S == {e \in Events : eff[e] = "begun"}
  <1>1. CASE S = {}
    <2>1. ASSUME NEW w \in Requests, pc[w] = "handling" PROVE FALSE
      <3>1. event[w] \in Events /\ started[event[w]] = 1 /\ event[w] \notin finished
        BY <2>1 DEF IInv, IBase, TypeOK, OwnerState
      <3>2. EffectOf(event[w]) = "begun"
        BY <2>1, <3>1 DEF EffectOf
      <3> QED
        BY <1>1, <3>1, <3>2
    <2>2. eff' = eff
      BY <2>1, SameEffect DEF Crash
    <2> QED
      BY <2>2
  <1>2. CASE S # {}
    <2>1. Abstract!CutShort(S)
      BY <1>2 DEF Crash, Abstract!CutShort, EffectOf
    <2> QED
      BY <2>1 DEF Abstract!Next
  <1> QED
    BY <1>1, <1>2

\* The webhook endpoint implements the at-most-once effect: every run of it,
\* seen through EffectOf, is a run of AtMostOnce.
THEOREM Refinement == Spec => ImplementsAtMostOnce
  <1>1. IInv /\ [Next]_vars => [Abstract!Next]_([e \in Events |-> EffectOf(e)])
    <2> SUFFICES ASSUME IInv, [Next]_vars
                 PROVE  [Abstract!Next]_([e \in Events |-> EffectOf(e)])
      OBVIOUS
    <2>1. ASSUME NEW w \in Requests, NEW e \in Events, Deliver(w, e)
          PROVE  [Abstract!Next]_([d \in Events |-> EffectOf(d)])
      BY <2>1, SameEffect DEF Deliver, Goto, IInv, IBase, TypeOK
    <2>2. ASSUME NEW w \in Requests, DatabaseError(w)
          PROVE  [Abstract!Next]_([d \in Events |-> EffectOf(d)])
      BY <2>2, SameEffect DEF DatabaseError, Goto, Answer400, IInv, IBase, TypeOK
    <2>3. CASE UNCHANGED vars
      BY <2>3, SameEffect DEF vars
    <2> QED
      BY <2>1, <2>2, <2>3, StepMapped, CrashMapped DEF Next
  <1> QED
    BY InitMapped, <1>1, Invariance, PTL DEF Spec, ImplementsAtMostOnce, Abstract!Spec
=============================================================================
