------------------------- MODULE SubscriptionsProofs -------------------------
(***************************************************************************)
(* Proofs about Subscriptions, for any subscriptions, courses, handlers    *)
(* and bounds, in four parts.                                              *)
(*                                                                         *)
(* 1. No payment whose event was handled is without a transaction.  The    *)
(*    events of one invoice's payment are dismissed by Dedupe only for a   *)
(*    transaction of that invoice, but the transaction may be of a handler *)
(*    that is still running or of a failed attempt.  The invariant IInv    *)
(*    follows each collected invoice: its event waits (PaidEvents), a      *)
(*    handler carries it (Carriers), or it has a transaction (Accounted).  *)
(*                                                                         *)
(* 2. Types, and periods that Stripe has issued.  Sound says of the array, *)
(*    of every event and of everything a process holds (its job, its copy  *)
(*    of the array, what it has left to do) that it names no period of a   *)
(*    subscription beyond the last one Stripe has opened, unless the date  *)
(*    was made up by the daily job.                                        *)
(*                                                                         *)
(* 3. The array.  Fates says what one step, whoever takes it, may do to    *)
(*    the elements of a key that no write clobbers.  It needs to know what *)
(*    a process that revokes has seen (Revoking) and what a course being   *)
(*    bought will be given (Lasting); with it follow that the array and    *)
(*    activeSubscriptions agree, that courses last and that nothing live   *)
(*    is dropped.                                                          *)
(*                                                                         *)
(* 4. Access of who is billed.  Until its first payment is granted, a      *)
(*    subscription that is billed has that payment waiting or under way    *)
(*    (First), no payment is handled twice (Once), and the period of the   *)
(*    payment cannot end meanwhile.                                        *)
(***************************************************************************)
EXTENDS Subscriptions, SequenceTheorems, SumsAndSelections, TLAPS

Statuses == {"succeeded", "failed"}

Books ==
    /\ tx \in [Invoices -> Seq(Statuses)]
    /\ collected \subseteq Invoices
    /\ unpaid \subseteq Invoices
    /\ stripe \in [Subs -> [status : StripeStatus, end : Nat]]
    /\ clock \in 0 .. MaxClock

ProcsAreRecords == proc = [p \in Procs |-> proc[p]]

PaidJob(n) ==
    /\ n = NewJob("paid", n.key, n.end, "active")
    /\ <<n.key, n.end>> \in Invoices

PaidEvents == \A n \in events : n.type = "paid" => PaidJob(n)

\* The steps of handleRecurringPayment, and those after its insert.
Chain == {"dedupe", "insert"} \cup {"history", "extend", "push", "direct", "ensure"}
Recorded == Chain \ {"dedupe", "insert"}

Carrying(p) == proc[p].pc # "idle" /\ proc[p].job.type = "paid"

Carriers ==
    \A p \in Procs : Carrying(p) =>
        /\ p \in Handlers
        /\ PaidJob(proc[p].job)
        /\ proc[p].pc \in Chain
        /\ proc[p].pc \in Recorded => tx[InvoiceOf(p)] # <<>>

\* What becomes of a collected invoice: its event waits, is being handled, or
\* has led to a transaction.
Accounted ==
    \A v \in collected \ dropped :
        \/ NewJob("paid", v[1], v[2], "active") \in events
        \/ \E p \in Procs : Carries(p, v)
        \/ tx[v] # <<>>

IInv == Books /\ ProcsAreRecords /\ PaidEvents /\ Carriers /\ Accounted

USE DEF JobOf, KeyOf, InvoiceOf, NewJob

-----------------------------------------------------------------------------
\* What a step of one process may do to the invariant.

\* Transactions are only ever added.
Grown == tx' \in [Invoices -> Seq(Statuses)] /\ \A v \in Invoices : tx[v] # <<>> => tx'[v] # <<>>

PaidEventsWait == \A n \in events : n.type = "paid" => n \in events'

Elsewhere(p) == ProcsAreRecords' /\ \A q \in Procs \ {p} : proc'[q] = proc[q]

\* A process that carries a payment after the step carried it before.
CarriesOn(p) ==
    Carrying(p)' =>
        /\ Carrying(p)
        /\ proc'[p].job = proc[p].job
        /\ proc'[p].pc \in Chain
        /\ proc'[p].pc \in Recorded => tx'[InvoiceOf(p)] # <<>>

\* One that puts it down has left a transaction, or lost the event to a fault.
PutsDown(p) ==
    Carrying(p) /\ ~Carrying(p)' => tx'[InvoiceOf(p)] # <<>> \/ InvoiceOf(p) \in dropped'

LEMMA Moves ==
    ASSUME ProcsAreRecords, NEW p \in Procs, NEW x, proc' = [proc EXCEPT ![p] = x]
    PROVE  Elsewhere(p) /\ proc'[p] = x
BY DEF ProcsAreRecords, Elsewhere

LEMMA Step ==
    ASSUME IInv, Books', Grown, PaidEvents', PaidEventsWait,
           collected' = collected, dropped \subseteq dropped',
           NEW p \in Procs, Elsewhere(p), CarriesOn(p), PutsDown(p)
    PROVE  IInv'
<1>1. Carriers'
  <2> SUFFICES ASSUME NEW q \in Procs, Carrying(q)'
               PROVE  /\ q \in Handlers
                      /\ PaidJob(proc'[q].job)
                      /\ proc'[q].pc \in Chain
                      /\ proc'[q].pc \in Recorded => tx'[InvoiceOf(q)'] # <<>>
    BY DEF Carriers, PaidJob
  <2>1. CASE q = p
    BY <2>1 DEF IInv, Carriers, CarriesOn, PaidJob
  <2>2. CASE q # p
    BY <2>2 DEF IInv, Carriers, Elsewhere, Carrying, Grown, PaidJob
  <2>3. QED
    BY <2>1, <2>2
<1>2. Accounted'
  <2> SUFFICES ASSUME NEW v \in collected' \ dropped'
               PROVE  \/ NewJob("paid", v[1], v[2], "active") \in events'
                      \/ \E q \in Procs : Carries(q, v)'
                      \/ tx'[v] # <<>>
    BY DEF Accounted
  <2>1. v \in Invoices /\ v \in collected \ dropped
    BY DEF IInv, Books
  <2>2. CASE NewJob("paid", v[1], v[2], "active") \in events
    BY <2>2 DEF PaidEventsWait
  <2>3. CASE tx[v] # <<>>
    BY <2>1, <2>3 DEF Grown
  <2>4. CASE \E q \in Procs : Carries(q, v)
    <3>1. PICK q \in Procs : Carries(q, v)
      BY <2>4
    <3>2. CASE q = p
      <4>1. Carrying(p) /\ InvoiceOf(p) = v
        BY <3>1, <3>2 DEF Carries, Carrying
      <4>2. CASE Carrying(p)'
        BY <3>2, <4>1, <4>2 DEF CarriesOn, Carrying, Carries
      <4>3. CASE ~Carrying(p)'
        BY <4>1, <4>3 DEF PutsDown
      <4>4. QED
        BY <4>2, <4>3
    <3>3. CASE q # p
      BY <3>1, <3>3 DEF Elsewhere, Carries
    <3>4. QED
      BY <3>2, <3>3
  <2>5. QED
    BY <2>1, <2>2, <2>3, <2>4 DEF IInv, Accounted
<1>3. QED
  BY <1>1, <1>2 DEF IInv, Elsewhere

\* A step of Stripe, the clock or a request that starts no process.
LEMMA World ==
    ASSUME IInv, Books', PaidEvents', PaidEventsWait, UNCHANGED <<tx, proc, dropped>>,
           \A v \in collected' \ collected : NewJob("paid", v[1], v[2], "active") \in events'
    PROVE  IInv'
<1>1. ProcsAreRecords' /\ Carriers'
  BY DEF IInv, ProcsAreRecords, Carriers, Carrying, PaidJob
<1>2. Accounted'
  BY DEF IInv, Accounted, Carries, PaidEventsWait
<1>3. QED
  BY <1>1, <1>2 DEF IInv

-----------------------------------------------------------------------------

LEMMA Initially == Init => IInv
<1> SUFFICES ASSUME Init PROVE IInv
  OBVIOUS
<1>1. Books
  BY BoundsAssumption DEF Init, Books, StripeStatus
<1>2. ProcsAreRecords /\ PaidEvents /\ Accounted
  BY DEF Init, ProcsAreRecords, PaidEvents, Accounted
<1>3. Carriers
  BY DEF Init, Carriers, Carrying, Idle
<1>4. QED
  BY <1>1, <1>2, <1>3 DEF IInv

-----------------------------------------------------------------------------
USE DEF userDoc, ledger, world, ghosts, vars

LEMMA StripeSteps ==
    ASSUME IInv, Tick \/ Stripe \/ \E k \in Keys : Pay(k)
    PROVE  IInv'
<1>1. CASE Tick
  <2>1. Books' /\ PaidEvents' /\ PaidEventsWait /\ UNCHANGED <<tx, proc, dropped, collected>>
    BY <1>1, BoundsAssumption DEF Tick, IInv, Books, PaidEvents, PaidEventsWait
  <2>2. QED
    BY <2>1, World
<1>2. ASSUME NEW s \in Subs, Roll(s) PROVE IInv'
  <2>1. stripe[s].end \in Nat /\ stripe[s].end <= clock /\ clock \in 0 .. MaxClock /\ MaxClock \in Nat
    BY <1>2, BoundsAssumption DEF Roll, IInv, Books
  <2>2. <<s, stripe[s].end + 1>> \in Invoices
    BY <2>1 DEF Invoices
  <2>3. stripe' \in [Subs -> [status : StripeStatus, end : Nat]]
    BY <1>2, <2>1 DEF Roll, IInv, Books
  <2>4. Books' /\ UNCHANGED <<tx, proc, dropped, collected>>
    BY <1>2, <2>2, <2>3 DEF Roll, IInv, Books
  <2>5. PaidEvents' /\ PaidEventsWait
    BY <1>2 DEF Roll, IInv, PaidEvents, PaidEventsWait, PaidJob
  <2>6. QED
    BY <2>4, <2>5, World
<1>3. ASSUME NEW s \in Subs, GiveUp(s) PROVE IInv'
  <2>1. stripe' \in [Subs -> [status : StripeStatus, end : Nat]]
    BY <1>3 DEF GiveUp, CancelAtStripe, IInv, Books, StripeStatus
  <2>2. Books' /\ PaidEvents' /\ PaidEventsWait /\ UNCHANGED <<tx, proc, dropped, collected>>
    BY <1>3, <2>1 DEF GiveUp, CancelAtStripe, IInv, Books, PaidEvents, PaidEventsWait, PaidJob
  <2>3. QED
    BY <2>2, World
<1>4. ASSUME NEW v \in Invoices, Collect(v[1], v[2]) PROVE IInv'
  <2>1. stripe' \in [Subs -> [status : StripeStatus, end : Nat]]
    BY <1>4 DEF Collect, IInv, Books, StripeStatus
  <2>2. v = <<v[1], v[2]>>
    BY DEF Invoices
  <2>3. Books' /\ UNCHANGED <<tx, proc, dropped>>
    BY <1>4, <2>1, <2>2 DEF Collect, IInv, Books
  <2>4. PaidEvents' /\ PaidEventsWait
    BY <1>4, <2>2 DEF Collect, IInv, PaidEvents, PaidEventsWait, PaidJob
  <2>5. \A w \in collected' \ collected : NewJob("paid", w[1], w[2], "active") \in events'
    BY <1>4 DEF Collect
  <2>6. QED
    BY <2>3, <2>4, <2>5, World
<1>5. ASSUME NEW v \in Invoices, Decline(v[1], v[2]) PROVE IInv'
  <2>1. stripe' \in [Subs -> [status : StripeStatus, end : Nat]]
    BY <1>5 DEF Decline, IInv, Books, StripeStatus
  <2>2. Books' /\ PaidEvents' /\ PaidEventsWait /\ UNCHANGED <<tx, proc, dropped, collected>>
    BY <1>5, <2>1 DEF Decline, IInv, Books, PaidEvents, PaidEventsWait, PaidJob
  <2>3. QED
    BY <2>2, World
<1>6. ASSUME NEW k \in Keys, Pay(k) PROVE IInv'
  <2>1. CASE k \in Subs
    <3>1. clock + 1 \in 0 .. MaxClock + 1 /\ clock + 1 \in Nat
      BY BoundsAssumption DEF IInv, Books
    <3>2. <<k, clock + 1>> \in Invoices
      BY <2>1, <3>1 DEF Invoices
    <3>3. stripe' \in [Subs -> [status : StripeStatus, end : Nat]]
      BY <1>6, <2>1, <3>1 DEF Pay, IInv, Books, StripeStatus
    <3>4. Books' /\ UNCHANGED <<tx, proc, dropped>>
      BY <1>6, <2>1, <3>2, <3>3 DEF Pay, IInv, Books
    <3>5. PaidEvents' /\ PaidEventsWait
      BY <1>6, <2>1, <3>2 DEF Pay, IInv, PaidEvents, PaidEventsWait, PaidJob
    <3>6. \A w \in collected' \ collected : NewJob("paid", w[1], w[2], "active") \in events'
      BY <1>6, <2>1 DEF Pay
    <3>7. QED
      BY <3>4, <3>5, <3>6, World
  <2>2. CASE k \notin Subs
    <3>1. Books' /\ PaidEvents' /\ PaidEventsWait /\ UNCHANGED <<tx, proc, dropped, collected>>
      BY <1>6, <2>2 DEF Pay, IInv, Books, PaidEvents, PaidEventsWait, PaidJob
    <3>2. QED
      BY <3>1, World
  <2>3. QED
    BY <2>1, <2>2
<1>7. QED
  BY <1>1, <1>2, <1>3, <1>4, <1>5, <1>6 DEF Stripe

-----------------------------------------------------------------------------
\* The steps of processes that carry no payment.

\* All that such a step leaves alone.
Aside ==
    /\ UNCHANGED <<tx, collected, dropped, unpaid, clock>>
    /\ stripe' \in [Subs -> [status : StripeStatus, end : Nat]]
    /\ PaidEvents'
    /\ PaidEventsWait

LEMMA StepAside ==
    ASSUME IInv, Aside, NEW p \in Procs, Elsewhere(p), ~Carrying(p), ~Carrying(p)'
    PROVE  IInv'
<1>1. Books' /\ Grown
  BY DEF IInv, Books, Aside, Grown
<1>2. CarriesOn(p) /\ PutsDown(p)
  BY DEF CarriesOn, PutsDown
<1>3. QED
  BY <1>1, <1>2, Step DEF Aside

LEMMA Untouched ==
    ASSUME IInv, UNCHANGED <<tx, collected, dropped, unpaid, clock, stripe, events>>
    PROVE  Aside
BY DEF IInv, Books, Aside, PaidEvents, PaidEventsWait, PaidJob

\* A process at a step outside the chain carries no payment.
LEMMA NotInChain ==
    ASSUME IInv, NEW p \in Procs, proc[p].pc \notin Chain
    PROVE  ~Carrying(p)
BY DEF IInv, Carriers

LEMMA NotAHandler ==
    ASSUME IInv, NEW p \in {"sweep", "sync"}
    PROVE  p \in Procs /\ ~Carrying(p)
BY HandlersAssumption DEF IInv, Carriers, Procs

\* Steps that go on with the same job, or end it.
LEMMA SameJob ==
    ASSUME IInv, NEW p \in Procs, ~Carrying(p), ~At(p, "idle"),
           NEW l, NEW c, NEW t,
           Finish(p) \/ Become(p, l, JobOf(p), c, t)
    PROVE  Elsewhere(p) /\ ~Carrying(p)'
<1>1. proc[p].job.type # "paid"
  BY DEF Carrying, At
<1>2. ProcsAreRecords
  BY DEF IInv
<1>3. CASE Finish(p)
  <2>1. Elsewhere(p) /\ proc'[p] = Idle
    BY <1>2, <1>3, Moves DEF Finish
  <2>2. QED
    BY <2>1 DEF Carrying, Idle
<1>4. CASE Become(p, l, JobOf(p), c, t)
  <2>1. Elsewhere(p) /\ proc'[p] = [pc |-> l, job |-> JobOf(p), copy |-> c, todo |-> t]
    BY <1>2, <1>4, Moves DEF Become
  <2>2. QED
    BY <1>1, <2>1 DEF Carrying
<1>5. QED
  BY <1>3, <1>4

LEMMA OtherJob ==
    ASSUME IInv, NEW p \in Procs, NEW l, NEW j, NEW c, NEW t, j.type # "paid",
           Become(p, l, j, c, t)
    PROVE  Elsewhere(p) /\ ~Carrying(p)'
<1>1. Elsewhere(p) /\ proc'[p] = [pc |-> l, job |-> j, copy |-> c, todo |-> t]
  BY Moves DEF IInv, Become
<1>2. QED
  BY <1>1 DEF Carrying

\* The requests, and the handlers of every event but invoice.payment_succeeded.
LEMMA AsideSteps ==
    ASSUME IInv, NEW p \in Procs,
           \/ \E s \in Subs : Revoke(p, s) \/ RevokeRejected(p, s)
           \/ CleanUp(p) \/ WriteCancelled(p) \/ RecordSale(p) \/ Fetch(p) \/ FetchRejected(p)
           \/ Upsert(p) \/ Pull(p) \/ AppendCourse(p) \/ WriteUpdated(p) \/ WriteDeleted(p)
    PROVE  IInv'
<1>0. /\ \A l \in {"revoke", "write", "sale", "fetch", "upsert", "pull", "append"} :
            At(p, l) => l \notin Chain /\ ~At(p, "idle")
      /\ proc[p].pc \notin Chain => ~Carrying(p)
  BY NotInChain DEF Chain, At
<1>1. ASSUME NEW s \in Subs, Revoke(p, s) PROVE IInv'
  <2>1. ~Carrying(p) /\ ~At(p, "idle")
    BY <1>0, <1>1 DEF Revoke, At
  <2>2. stripe' \in [Subs -> [status : StripeStatus, end : Nat]]
    BY <1>1 DEF Revoke, CancelAtStripe, IInv, Books, StripeStatus
  <2>3. Aside
    BY <1>1, <2>2 DEF Revoke, CancelAtStripe, Aside, IInv, PaidEvents, PaidEventsWait, PaidJob
  <2>4. Elsewhere(p) /\ ~Carrying(p)'
    BY <1>1, <2>1, SameJob DEF Revoke, Left
  <2>5. QED
    BY <2>1, <2>3, <2>4, StepAside
<1>2. ASSUME NEW s \in Subs, RevokeRejected(p, s) PROVE IInv'
  <2>1. ~Carrying(p) /\ ~At(p, "idle")
    BY <1>0, <1>2 DEF RevokeRejected, At
  <2>2. Aside
    BY <1>2, Untouched DEF RevokeRejected
  <2>3. Elsewhere(p) /\ ~Carrying(p)'
    BY <1>2, <2>1, SameJob DEF RevokeRejected, Left
  <2>4. QED
    BY <2>1, <2>2, <2>3, StepAside
<1>3. ASSUME CleanUp(p) \/ WriteCancelled(p) \/ AppendCourse(p) \/ WriteUpdated(p) \/ WriteDeleted(p)
      PROVE  IInv'
  <2>1. ~Carrying(p) /\ ~At(p, "idle")
    BY <1>0, <1>3 DEF CleanUp, WriteCancelled, AppendCourse, WriteUpdated, WriteDeleted, At
  <2>2. Aside
    BY <1>3, Untouched DEF CleanUp, WriteCancelled, AppendCourse, WriteUpdated, WriteDeleted
  <2>3. Finish(p)
    BY <1>3 DEF CleanUp, WriteCancelled, AppendCourse, WriteUpdated, WriteDeleted
  <2>4. Elsewhere(p) /\ ~Carrying(p)'
    BY <2>1, <2>3, SameJob
  <2>5. QED
    BY <2>1, <2>2, <2>4, StepAside
<1>4. ASSUME RecordSale(p) \/ Upsert(p) \/ Pull(p) PROVE IInv'
  <2>1. ~Carrying(p) /\ ~At(p, "idle")
    BY <1>0, <1>4 DEF RecordSale, Upsert, Pull, At
  <2>2. Aside
    BY <1>4, Untouched DEF RecordSale, Upsert, Pull
  <2>3. Finish(p) \/ Goto(p, "fetch") \/ Goto(p, "push") \/ Goto(p, "append")
    BY <1>4 DEF RecordSale, Upsert, Pull
  <2>4. Elsewhere(p) /\ ~Carrying(p)'
    BY <2>1, <2>3, SameJob DEF Goto
  <2>5. QED
    BY <2>1, <2>2, <2>4, StepAside
<1>5. ASSUME Fetch(p) \/ FetchRejected(p) PROVE IInv'
  <2>1. ~Carrying(p)
    BY <1>0, <1>5 DEF Fetch, FetchRejected, At
  <2>2. Aside
    BY <1>5, Untouched DEF Fetch, FetchRejected
  <2>3. Elsewhere(p) /\ ~Carrying(p)'
    BY <1>5, OtherJob DEF Fetch, FetchRejected, Turn
  <2>4. QED
    BY <2>1, <2>2, <2>3, StepAside
<1>6. QED
  BY <1>1, <1>2, <1>3, <1>4, <1>5

\* The midnight job.
LEMMA SweepSteps ==
    ASSUME IInv, Sweep
    PROVE  IInv'
<1>0. "sweep" \in Procs /\ ~Carrying("sweep")
  BY NotAHandler
<1>1. CASE SweepStart
  <2>1. Aside
    BY <1>1, Untouched DEF SweepStart
  <2>2. Elsewhere("sweep") /\ ~Carrying("sweep")'
    BY <1>0, <1>1, OtherJob DEF SweepStart, Begin
  <2>3. QED
    BY <1>0, <2>1, <2>2, StepAside
<1>2. CASE SweepWrite
  <2>1. Aside
    BY <1>2, Untouched DEF SweepWrite
  <2>2. Elsewhere("sweep") /\ ~Carrying("sweep")'
    BY <1>0, <1>2, SameJob DEF SweepWrite, At
  <2>3. QED
    BY <1>0, <2>1, <2>2, StepAside
<1>3. ASSUME NEW s \in Subs, Revoke("sweep", s) PROVE IInv'
  BY <1>0, <1>3, AsideSteps
<1>4. QED
  BY <1>1, <1>2, <1>3 DEF Sweep

\* The hourly and daily jobs.
LEMMA SyncSteps ==
    ASSUME IInv, Sync \/ \E kind \in {"hourly", "daily"} : SyncStart(kind)
    PROVE  IInv'
<1>0. "sync" \in Procs /\ ~Carrying("sync")
  BY NotAHandler
<1>1. Aside
  BY Untouched DEF Sync, SyncStart, SyncRead, SyncAdjust, SyncApply, SyncAdd, SyncForce, SyncWrite,
                   SyncLoaded, SyncList, SyncDone
<1>2. Elsewhere("sync") /\ ~Carrying("sync")'
  <2>1. ASSUME NEW kind \in {"hourly", "daily"}, SyncStart(kind)
        PROVE  Elsewhere("sync") /\ ~Carrying("sync")'
    BY <1>0, <2>1, OtherJob DEF SyncStart, Begin
  <2>2. ~At("sync", "idle") => proc["sync"].job.type # "paid"
    BY <1>0 DEF Carrying, At
  <2>3. ASSUME NEW v \in Invoices, SyncRead(v) PROVE Elsewhere("sync") /\ ~Carrying("sync")'
    BY <1>0, <2>2, <2>3, OtherJob DEF SyncRead, At
  <2>4. ASSUME NEW v \in Invoices, SyncAdjust(v) PROVE Elsewhere("sync") /\ ~Carrying("sync")'
    BY <1>0, <2>4, SameJob DEF SyncAdjust, At, Left
  <2>5. NextTransaction /\ ~At("sync", "idle") => Elsewhere("sync") /\ ~Carrying("sync")'
    BY <1>0, <2>2, OtherJob DEF NextTransaction
  <2>6. CASE SyncApply \/ SyncAdd \/ SyncWrite
    <3>1. ~At("sync", "idle") /\ (NextTransaction \/ Goto("sync", "force"))
      BY <2>6 DEF SyncApply, SyncAdd, SyncWrite, At
    <3>2. QED
      BY <1>0, <2>5, <3>1, SameJob DEF Goto
  <2>7. CASE SyncForce \/ SyncLoaded \/ SyncList \/ SyncDone
    BY <1>0, <2>7, SameJob DEF SyncForce, SyncLoaded, SyncList, SyncDone, At
  <2>8. QED
    BY <2>1, <2>3, <2>4, <2>6, <2>7 DEF Sync
<1>3. QED
  BY <1>0, <1>1, <1>2, StepAside

\* Requests.
LEMMA RequestSteps ==
    ASSUME IInv, NEW h \in Handlers, NEW k \in Keys, Buy(h, k) \/ Cancel(h, k)
    PROVE  IInv'
<1>0. h \in Procs /\ ~Carrying(h)
  BY DEF Procs, Buy, Cancel, Request, At, Carrying
<1>1. Aside
  BY Untouched DEF Buy, Cancel
<1>2. CASE UNCHANGED proc
  <2>1. Elsewhere(h) /\ ~Carrying(h)'
    BY <1>0, <1>2 DEF IInv, ProcsAreRecords, Elsewhere, Carrying
  <2>2. QED
    BY <1>0, <1>1, <2>1, StepAside
<1>3. CASE ~UNCHANGED proc
  <2>1. Elsewhere(h) /\ ~Carrying(h)'
    <3>1. CASE Buy(h, k)
      BY <1>0, <1>3, <3>1, OtherJob DEF Buy, Begin
    <3>2. CASE Cancel(h, k)
      BY <1>0, <1>3, <3>2, OtherJob DEF Cancel, Begin
    <3>3. QED
      BY <3>1, <3>2
  <2>2. QED
    BY <1>0, <1>1, <2>1, StepAside
<1>4. QED
  BY <1>2, <1>3

-----------------------------------------------------------------------------
\* A delivered payment is carried from here on.
LEMMA PaymentDelivered ==
    ASSUME IInv, NEW h \in Handlers, NEW n \in events, n.type = "paid", Deliver(h, n)
    PROVE  IInv'
<1>1. h \in Procs /\ ProcsAreRecords /\ PaidJob(n)
  BY DEF Procs, IInv, PaidEvents
<1>2. \E t : Become(h, "dedupe", n, <<>>, t)
  BY DEF Deliver, Begin
<1>3. /\ Elsewhere(h) /\ proc'[h].pc = "dedupe" /\ proc'[h].job = n
      /\ ~Carrying(h) /\ UNCHANGED <<tx, collected, dropped, unpaid, clock, stripe>>
      /\ events' = events \ {n}
  <2>1. PICK t : Become(h, "dedupe", n, <<>>, t)
    BY <1>2
  <2>2. Elsewhere(h) /\ proc'[h] = [pc |-> "dedupe", job |-> n, copy |-> <<>>, todo |-> t]
    BY <1>1, <2>1, Moves DEF Become
  <2>3. ~Carrying(h) /\ UNCHANGED <<tx, collected, dropped, unpaid, clock, stripe>> /\ events' = events \ {n}
    BY DEF Deliver, At, Carrying
  <2>4. QED
    BY <2>2, <2>3
<1>4. Books' /\ PaidEvents'
  BY <1>3 DEF IInv, Books, PaidEvents, PaidJob
<1>5. Carriers'
  <2> SUFFICES ASSUME NEW q \in Procs, Carrying(q)'
               PROVE  /\ q \in Handlers
                      /\ PaidJob(proc'[q].job)
                      /\ proc'[q].pc \in Chain
                      /\ proc'[q].pc \in Recorded => tx'[InvoiceOf(q)'] # <<>>
    BY DEF Carriers, PaidJob
  <2>1. CASE q = h
    BY <1>1, <1>3, <2>1 DEF Chain, Recorded
  <2>2. CASE q # h
    BY <1>3, <2>2 DEF IInv, Carriers, Elsewhere, Carrying, PaidJob
  <2>3. QED
    BY <2>1, <2>2
<1>6. Accounted'
  <2> SUFFICES ASSUME NEW v \in collected \ dropped
               PROVE  \/ NewJob("paid", v[1], v[2], "active") \in events'
                      \/ \E q \in Procs : Carries(q, v)'
                      \/ tx'[v] # <<>>
    BY <1>3 DEF Accounted
  <2>1. v = <<v[1], v[2]>>
    BY DEF IInv, Books, Invoices
  <2>2. CASE NewJob("paid", v[1], v[2], "active") = n
    <3>1. Carries(h, v)'
      BY <1>3, <2>1, <2>2 DEF Carries
    <3>2. QED
      BY <1>1, <3>1
  <2>3. CASE NewJob("paid", v[1], v[2], "active") \in events /\ NewJob("paid", v[1], v[2], "active") # n
    BY <1>3, <2>3
  <2>4. CASE tx[v] # <<>>
    BY <1>3, <2>4
  <2>5. CASE \E q \in Procs : Carries(q, v)
    <3>1. PICK q \in Procs : Carries(q, v)
      BY <2>5
    <3>2. q # h
      BY <1>3, <3>1 DEF Carries, Carrying
    <3>3. QED
      BY <1>3, <3>1, <3>2 DEF Elsewhere, Carries
  <2>6. QED
    BY <2>2, <2>3, <2>4, <2>5 DEF IInv, Accounted
<1>7. QED
  BY <1>3, <1>4, <1>5, <1>6 DEF IInv, Elsewhere

LEMMA OtherDelivered ==
    ASSUME IInv, NEW h \in Handlers, NEW n \in events, n.type # "paid", Deliver(h, n)
    PROVE  IInv'
<1>1. h \in Procs /\ ProcsAreRecords /\ ~Carrying(h)
  BY DEF Procs, IInv, Deliver, At, Carrying
<1>2. Aside
  BY DEF Deliver, Aside, IInv, Books, PaidEvents, PaidEventsWait, PaidJob
<1>3. CASE UNCHANGED proc
  <2>1. Elsewhere(h) /\ ~Carrying(h)'
    BY <1>1, <1>3 DEF ProcsAreRecords, Elsewhere, Carrying
  <2>2. QED
    BY <1>1, <1>2, <2>1, StepAside
<1>4. CASE \E l, j, c, t : j.type # "paid" /\ Become(h, l, j, c, t)
  <2>1. Elsewhere(h) /\ ~Carrying(h)'
    BY <1>1, <1>4, OtherJob
  <2>2. QED
    BY <1>1, <1>2, <2>1, StepAside
<1>5. (\E l, j, c, t : j.type # "paid" /\ Become(h, l, j, c, t)) \/ UNCHANGED proc
  <2>1. \A e : [n EXCEPT !.end = e].type # "paid"
    OBVIOUS
  <2>2. QED
    BY <2>1 DEF Deliver, Begin
<1>6. QED
  BY <1>3, <1>4, <1>5

-----------------------------------------------------------------------------
\* The steps of handleRecurringPayment, and of the others that share them.

LEMMA HandlerMoves ==
    ASSUME IInv, NEW h \in Procs, NEW l, ~At(h, "idle"), Goto(h, l)
    PROVE  /\ Elsewhere(h)
           /\ proc'[h].job = proc[h].job
           /\ proc'[h].pc = l
           /\ Carrying(h)' => Carrying(h)
<1>1. Elsewhere(h) /\ proc'[h] = [pc |-> l, job |-> JobOf(h), copy |-> proc[h].copy, todo |-> proc[h].todo]
  BY Moves DEF IInv, Goto, Become
<1>2. QED
  BY <1>1 DEF Carrying, At

LEMMA HandlerEnds ==
    ASSUME IInv, NEW h \in Procs, Finish(h)
    PROVE  Elsewhere(h) /\ ~Carrying(h)'
<1>1. Elsewhere(h) /\ proc'[h] = Idle
  BY Moves DEF IInv, Finish
<1>2. QED
  BY <1>1 DEF Carrying, Idle

\* A step that writes no transaction.
LEMMA StepUnpaid ==
    ASSUME IInv, UNCHANGED <<tx, collected, unpaid, clock, stripe, events>>, dropped \subseteq dropped',
           NEW p \in Procs, Elsewhere(p), CarriesOn(p), PutsDown(p)
    PROVE  IInv'
<1>1. Books' /\ Grown /\ PaidEvents' /\ PaidEventsWait
  BY DEF IInv, Books, Grown, PaidEvents, PaidEventsWait, PaidJob
<1>2. QED
  BY <1>1, Step

LEMMA PaymentSteps ==
    ASSUME IInv, NEW h \in Procs,
           Dedupe(h) \/ RecordRenewal(h) \/ Extend(h) \/ PushIfAbsent(h)
             \/ ExtendRejected(h) \/ Direct(h) \/ Ensure(h)
    PROVE  IInv'
<1>1. UNCHANGED <<tx, collected, unpaid, clock, stripe, events, dropped>>
  BY DEF Dedupe, RecordRenewal, Extend, PushIfAbsent, ExtendRejected, Direct, Ensure
<1>2. ~At(h, "idle")
  BY DEF Dedupe, RecordRenewal, Extend, PushIfAbsent, ExtendRejected, Direct, Ensure, At
<1>3. Carrying(h) /\ proc[h].pc \in Recorded => tx[InvoiceOf(h)] # <<>>
  BY DEF IInv, Carriers
<1>4. ASSUME NEW l \in Recorded, proc[h].pc \in Recorded, Goto(h, l) PROVE IInv'
  <2>1. Elsewhere(h) /\ CarriesOn(h)
    BY <1>1, <1>2, <1>3, <1>4, HandlerMoves DEF CarriesOn, Recorded
  <2>2. PutsDown(h)
    BY <1>1, <1>3, <1>4 DEF PutsDown
  <2>3. QED
    BY <1>1, <2>1, <2>2, StepUnpaid
<1>5. ASSUME Carrying(h) => tx[InvoiceOf(h)] # <<>>, Finish(h) PROVE IInv'
  <2>1. Elsewhere(h) /\ CarriesOn(h) /\ PutsDown(h)
    BY <1>1, <1>5, HandlerEnds DEF CarriesOn, PutsDown
  <2>2. QED
    BY <1>1, <2>1, StepUnpaid
<1>6. CASE Dedupe(h)
  <2>1. CASE tx[InvoiceOf(h)] = <<>>
    <3>1. At(h, "dedupe") /\ Goto(h, "insert")
      BY <1>6, <2>1 DEF Dedupe
    <3>2. Elsewhere(h) /\ CarriesOn(h) /\ PutsDown(h)
      BY <1>2, <3>1, HandlerMoves DEF CarriesOn, PutsDown, Recorded, Chain, Carrying
    <3>3. QED
      BY <1>1, <3>2, StepUnpaid
  <2>2. CASE tx[InvoiceOf(h)] # <<>>
    BY <1>5, <1>6, <2>2 DEF Dedupe
  <2>3. QED
    BY <2>1, <2>2
<1>7. CASE RecordRenewal(h) \/ Extend(h) \/ ExtendRejected(h) \/ Direct(h)
  <2>1. proc[h].pc \in Recorded /\ \E l \in Recorded : Goto(h, l)
    BY <1>7 DEF RecordRenewal, Extend, ExtendRejected, Direct, At, Recorded, Chain
  <2>2. QED
    BY <1>4, <2>1
<1>8. CASE PushIfAbsent(h) \/ Ensure(h)
  <2>1. proc[h].pc \in Recorded /\ (Finish(h) \/ Goto(h, "ensure"))
    BY <1>8 DEF PushIfAbsent, Ensure, At, Recorded, Chain
  <2>2. "ensure" \in Recorded
    BY DEF Recorded, Chain
  <2>3. QED
    BY <1>3, <1>4, <1>5, <2>1, <2>2
<1>9. QED
  BY <1>6, <1>7, <1>8

\* The transaction of an invoice: the only one of these steps that adds one.
LEMMA InsertStep ==
    ASSUME IInv, NEW h \in Procs, Insert(h)
    PROVE  IInv'
<1>1. /\ UNCHANGED <<collected, unpaid, clock, stripe, events, dropped>>
      /\ At(h, "insert") /\ ~At(h, "idle")
  BY DEF Insert, At
<1>2. ASSUME NEW r \in Statuses, tx' = [tx EXCEPT ![InvoiceOf(h)] = Append(@, r)]
      PROVE  Grown /\ (InvoiceOf(h) \in Invoices => tx'[InvoiceOf(h)] # <<>>)
  <2>1. \A v \in Invoices : tx[v] \in Seq(Statuses) /\ Append(tx[v], r) \in Seq(Statuses) /\ Append(tx[v], r) # <<>>
    BY AppendProperties DEF IInv, Books
  <2>2. tx' \in [Invoices -> Seq(Statuses)]
    BY <1>2, <2>1 DEF IInv, Books
  <2>3. \A v \in Invoices : tx'[v] = IF v = InvoiceOf(h) THEN Append(tx[v], r) ELSE tx[v]
    BY <1>2 DEF IInv, Books
  <2>4. QED
    BY <2>1, <2>2, <2>3 DEF Grown
<1>3. Grown /\ (InvoiceOf(h) \in Invoices => tx'[InvoiceOf(h)] # <<>>)
  BY <1>2 DEF Insert, Statuses
<1>4. Books' /\ PaidEvents' /\ PaidEventsWait
  BY <1>1, <1>3 DEF IInv, Books, PaidEvents, PaidEventsWait, PaidJob, Grown
<1>5. Carrying(h) => InvoiceOf(h) \in Invoices
  BY DEF IInv, Carriers, PaidJob
<1>6. Elsewhere(h) /\ CarriesOn(h)
  <2>1. CASE JobOf(h).type = "paid"
    <3>1. Goto(h, "history")
      BY <2>1 DEF Insert
    <3>2. QED
      BY <1>1, <1>3, <1>5, <3>1, HandlerMoves DEF CarriesOn, Chain
  <2>2. CASE JobOf(h).type # "paid"
    BY <2>2, HandlerEnds DEF Insert, CarriesOn
  <2>3. QED
    BY <2>1, <2>2
<1>7. PutsDown(h)
  BY <1>3, <1>5 DEF PutsDown
<1>8. QED
  BY <1>1, <1>4, <1>3, <1>6, <1>7, Step

\* FAILED is saved on a transaction that is there.
LEMMA SaveFailedStep ==
    ASSUME IInv, NEW h \in Procs, SaveFailed(h)
    PROVE  IInv'
<1>1. /\ UNCHANGED <<collected, unpaid, clock, stripe, events, dropped>>
      /\ tx' = [tx EXCEPT ![InvoiceOf(h)][1] = "failed"]
      /\ ~Carrying(h)
  BY NotInChain DEF SaveFailed, At, Chain
<1>2. \A w \in Seq(Statuses) : [w EXCEPT ![1] = "failed"] \in Seq(Statuses)
                               /\ (w # <<>> => [w EXCEPT ![1] = "failed"] # <<>>)
  <2> SUFFICES ASSUME NEW w \in Seq(Statuses)
               PROVE  [w EXCEPT ![1] = "failed"] \in Seq(Statuses)
                      /\ (w # <<>> => [w EXCEPT ![1] = "failed"] # <<>>)
    OBVIOUS
  <2>1. CASE w = <<>>
    <3>1. [w EXCEPT ![1] = "failed"] = w
      BY <2>1
    <3>2. QED
      BY <2>1, <3>1
  <2>2. CASE w # <<>>
    <3>1. 1 \in 1 .. Len(w) /\ "failed" \in Statuses
      BY <2>2, EmptySeq DEF Statuses
    <3>2. /\ [w EXCEPT ![1] = "failed"] \in Seq(Statuses)
          /\ Len([w EXCEPT ![1] = "failed"]) = Len(w)
      BY <3>1, ExceptSeq
    <3>3. QED
      BY <2>2, <3>1, <3>2
  <2>3. QED
    BY <2>1, <2>2
<1>3. Grown
  BY <1>1, <1>2 DEF Grown, IInv, Books
<1>4. Books' /\ PaidEvents' /\ PaidEventsWait
  BY <1>1, <1>3 DEF IInv, Books, PaidEvents, PaidEventsWait, PaidJob, Grown
<1>5. Elsewhere(h) /\ CarriesOn(h) /\ PutsDown(h)
  BY <1>1, HandlerEnds DEF SaveFailed, CarriesOn, PutsDown
<1>6. QED
  BY <1>1, <1>3, <1>4, <1>5, Step

-----------------------------------------------------------------------------

LEMMA FaultSteps ==
    ASSUME IInv, Crash \/ \E p \in Procs : CallRejected(p)
    PROVE  IInv'
<1>1. ASSUME NEW p \in Procs, CallRejected(p) PROVE IInv'
  <2>1. UNCHANGED <<tx, collected, unpaid, clock, stripe, events>> /\ dropped' = dropped \cup Unpaid(p)
    BY <1>1 DEF CallRejected
  <2>2. Elsewhere(p) /\ ~Carrying(p)'
    BY <1>1, HandlerEnds DEF CallRejected
  <2>3. CarriesOn(p) /\ PutsDown(p)
    BY <2>1, <2>2 DEF CarriesOn, PutsDown, Unpaid, Carrying
  <2>4. QED
    BY <2>1, <2>2, <2>3, StepUnpaid
<1>2. CASE Crash
  <2>1. /\ UNCHANGED <<tx, collected, unpaid, clock, stripe, events>>
        /\ dropped' = dropped \cup UNION {Unpaid(p) : p \in Procs}
        /\ proc' = [p \in Procs |-> Idle]
    BY <1>2 DEF Crash
  <2>2. Books' /\ PaidEvents' /\ ProcsAreRecords'
    BY <2>1 DEF IInv, Books, PaidEvents, PaidJob, ProcsAreRecords
  <2>3. Carriers'
    BY <2>1 DEF Carriers, Carrying, Idle
  <2>4. Accounted'
    <3> SUFFICES ASSUME NEW v \in collected \ dropped, v \notin dropped'
                 PROVE  NewJob("paid", v[1], v[2], "active") \in events \/ tx[v] # <<>>
      BY <2>1 DEF Accounted
    <3>1. ASSUME NEW p \in Procs, Carries(p, v) PROVE FALSE
      BY <2>1, <3>1 DEF Carries, Unpaid
    <3>2. QED
      BY <3>1 DEF IInv, Accounted
  <2>5. QED
    BY <2>2, <2>3, <2>4 DEF IInv
<1>3. QED
  BY <1>1, <1>2

LEMMA HandlerSteps ==
    ASSUME IInv, NEW h \in Handlers, HandlerStep(h)
    PROVE  IInv'
<1>1. h \in Procs
  BY DEF Procs
<1>2. QED
  BY <1>1, AsideSteps, PaymentSteps, InsertStep, SaveFailedStep DEF HandlerStep

LEMMA Inductive == IInv /\ [Next]_vars => IInv'
<1> SUFFICES ASSUME IInv, [Next]_vars PROVE IInv'
  OBVIOUS
<1>1. CASE UNCHANGED vars
  <2>1. Books' /\ PaidEvents' /\ PaidEventsWait
    BY <1>1 DEF IInv, Books, PaidEvents, PaidEventsWait, PaidJob
  <2>2. QED
    BY <1>1, <2>1, World
<1>2. ASSUME NEW h \in Handlers, NEW n \in events, Deliver(h, n) PROVE IInv'
  BY <1>2, PaymentDelivered, OtherDelivered
<1>3. CASE User
  BY <1>3, RequestSteps, StripeSteps DEF User
<1>4. CASE Faulty
  <2>1. ASSUME NEW h \in Handlers, FetchRejected(h) \/ ExtendRejected(h) PROVE IInv'
    BY <2>1, AsideSteps, PaymentSteps DEF Procs
  <2>2. ASSUME NEW p \in Procs, NEW s \in Subs, RevokeRejected(p, s) PROVE IInv'
    BY <2>2, AsideSteps
  <2>3. QED
    BY <1>4, <2>1, <2>2, FaultSteps DEF Faulty
<1>5. CASE Tick \/ Stripe
  BY <1>5, StripeSteps
<1>6. CASE \E h \in Handlers : HandlerStep(h)
  BY <1>6, HandlerSteps
<1>7. CASE Sweep
  BY <1>7, SweepSteps
<1>8. CASE Sync \/ \E kind \in {"hourly", "daily"} : SyncStart(kind)
  BY <1>8, SyncSteps
<1>9. QED
  BY <1>1, <1>2, <1>3, <1>4, <1>5, <1>6, <1>7, <1>8 DEF Next

\* For any number of subscriptions, periods, overlapping handlers and jobs,
\* declined payments, crashes and rejected calls: when handleRecurringPayment
\* is done with the event of a collected invoice, the invoice has a transaction.
THEOREM NoPaymentWithoutTrace == Spec => []PaymentLeavesTrace
<1>1. IInv => PaymentLeavesTrace
  BY DEF IInv, Accounted, PaymentLeavesTrace, Settled
<1>2. QED
  BY <1>1, Initially, Inductive, PTL DEF Spec

-----------------------------------------------------------------------------
(***************************************************************************)
(* 2. Types, and periods that Stripe has issued                            *)
(***************************************************************************)

\* What the operators on arrays return.

LEMMA SelectedSeq ==
    ASSUME NEW S, NEW seq \in Seq(S), NEW I \in SUBSET DOMAIN seq
    PROVE  /\ Selected(seq, I) \in Seq(S)
           /\ Len(Selected(seq, I)) = Cardinality(I)
           /\ Cardinality(I) \in Nat
           /\ IsFiniteSet(I)
           /\ DOMAIN Selected(seq, I) = 1 .. Cardinality(I)
           /\ \A i \in I : \E j \in 1 .. Cardinality(I) : Selected(seq, I)[j] = seq[i]
           /\ \E pick \in [1 .. Cardinality(I) -> I] :
                 /\ \A j \in 1 .. Cardinality(I) : Selected(seq, I)[j] = seq[pick[j]]
                 /\ \A j, l \in 1 .. Cardinality(I) : pick[j] = pick[l] => j = l
<1> DEFINE n == Cardinality(I)
           pick == [j \in 1 .. n |-> CHOOSE i \in I : Cardinality({m \in I : m <= i}) = j]
<1>1. DOMAIN seq = 1 .. Len(seq) /\ Len(seq) \in Nat /\ \A i \in I : seq[i] \in S
  BY LenProperties, ElementOfSeq
<1>2. I \in SUBSET Nat /\ IsFiniteSet(I)
  <2>1. I \in SUBSET (1 .. Len(seq)) /\ 1 \in Int /\ Len(seq) \in Int
    BY <1>1
  <2>2. IsFiniteSet(1 .. Len(seq))
    BY <2>1, FS_Interval
  <2>3. IsFiniteSet(I)
    BY <2>1, <2>2, FS_Subset
  <2>4. QED
    BY <2>1, <2>3
<1>3. /\ n \in Nat
      /\ \A i \in I : Cardinality({m \in I : m <= i}) \in 1 .. n
      /\ \A i, k \in I : Cardinality({m \in I : m <= i}) = Cardinality({m \in I : m <= k}) => i = k
      /\ \A j \in 1 .. n : \E i \in I : Cardinality({m \in I : m <= i}) = j
  BY <1>2, Ranks
<1>4. \A j \in 1 .. n : pick[j] \in I /\ Cardinality({m \in I : m <= pick[j]}) = j
  BY <1>3
<1>5. Selected(seq, I) = [j \in 1 .. n |-> seq[pick[j]]]
  BY DEF Selected
<1> HIDE DEF pick
<1>6. Selected(seq, I) \in Seq(S) /\ Len(Selected(seq, I)) = n /\ DOMAIN Selected(seq, I) = 1 .. n
  <2>1. [j \in 1 .. n |-> seq[pick[j]]] \in [1 .. n -> S]
    BY <1>1, <1>4
  <2>2. QED
    BY <1>3, <1>5, <2>1
<1>7. \A i \in I : \E j \in 1 .. n : Selected(seq, I)[j] = seq[i]
  <2> SUFFICES ASSUME NEW i \in I PROVE \E j \in 1 .. n : Selected(seq, I)[j] = seq[i]
    OBVIOUS
  <2>1. PICK j \in 1 .. n : j = Cardinality({m \in I : m <= i})
    BY <1>3
  <2>2. pick[j] \in I /\ Cardinality({m \in I : m <= pick[j]}) = Cardinality({m \in I : m <= i})
    BY <1>4, <2>1
  <2>3. pick[j] = i
    BY <1>3, <2>2
  <2>4. QED
    BY <1>5, <2>3
<1>8. /\ \A j \in 1 .. n : Selected(seq, I)[j] = seq[pick[j]]
      /\ \A j, l \in 1 .. n : pick[j] = pick[l] => j = l
      /\ pick \in [1 .. n -> I]
  BY <1>4, <1>5 DEF pick
<1>9. \E q \in [1 .. n -> I] : /\ \A j \in 1 .. n : Selected(seq, I)[j] = seq[q[j]]
                             /\ \A j, l \in 1 .. n : q[j] = q[l] => j = l
  BY <1>8
<1>10. QED
  BY <1>2, <1>3, <1>6, <1>7, <1>9, Zenon

LEMMA EntryOfSeq ==
    ASSUME NEW seq \in Seq(Entry), NEW i \in DOMAIN seq
    PROVE  /\ seq[i] \in Entry
           /\ seq[i].key \in Keys /\ seq[i].end \in Nat /\ seq[i].expires \in Nat
<1>1. seq[i] \in Entry
  BY LenProperties, ElementOfSeq
<1>2. QED
  BY <1>1 DEF Entry

LEMMA FirstOfKey ==
    ASSUME NEW seq \in Seq(Entry), NEW k, Holds(seq, k)
    PROVE  FirstOf(seq, k) \in DOMAIN seq /\ seq[FirstOf(seq, k)].key = k
<1> DEFINE I == {i \in DOMAIN seq : seq[i].key = k}
<1>1. I \in SUBSET Nat /\ I # {}
  BY LenProperties DEF Holds
<1>2. PICK m \in I : \A i \in I : m <= i
  BY <1>1, LeastNatural
<1>3. QED
  BY <1>2 DEF FirstOf

\* An element is replaced by one with its key.
LEMMA SetFirstSeq ==
    ASSUME NEW seq \in Seq(Entry), NEW k \in Keys, NEW e \in Nat, NEW s \in StripeStatus, Holds(seq, k)
    PROVE  LET new == SetFirst(seq, k, e, s)
           IN  /\ NewEntry(k, e, s) \in Entry
               /\ new \in Seq(Entry)
               /\ DOMAIN new = DOMAIN seq
               /\ \A i \in DOMAIN seq : new[i] \in {seq[i], NewEntry(k, e, s)} /\ new[i].key = seq[i].key
<1> DEFINE f == FirstOf(seq, k)
<1>1. f \in DOMAIN seq /\ seq[f].key = k
  BY FirstOfKey
<1>2. NewEntry(k, e, s) \in Entry /\ NewEntry(k, e, s).key = k
  BY DEF NewEntry, Entry
<1>3. f \in 1 .. Len(seq) /\ DOMAIN seq = 1 .. Len(seq)
  BY <1>1, LenProperties
<1> DEFINE new == [seq EXCEPT ![f] = NewEntry(k, e, s)]
<1>4. /\ new \in Seq(Entry) /\ Len(new) = Len(seq)
      /\ \A j \in 1 .. Len(seq) : new[j] = IF j = f THEN NewEntry(k, e, s) ELSE seq[j]
  BY <1>2, <1>3, ExceptSeq
<1>5. DOMAIN new = 1 .. Len(seq)
  BY <1>4, LenProperties
<1>6. SetFirst(seq, k, e, s) = new
  BY DEF SetFirst
<1> HIDE DEF new, f
<1>7. QED
  BY <1>1, <1>2, <1>3, <1>4, <1>5, <1>6

\* A mapped array.
LEMMA MappedSeq ==
    ASSUME NEW seq \in Seq(Entry), NEW g, \A i \in DOMAIN seq : g[i] \in Entry
    PROVE  LET new == [i \in DOMAIN seq |-> g[i]]
           IN  new \in Seq(Entry) /\ DOMAIN new = DOMAIN seq /\ Len(new) = Len(seq)
<1>1. DOMAIN seq = 1 .. Len(seq) /\ Len(seq) \in Nat
  BY LenProperties
<1>2. [i \in 1 .. Len(seq) |-> g[i]] \in [1 .. Len(seq) -> Entry]
  BY <1>1
<1>3. QED
  BY <1>1, <1>2

LEMMA AppendedSeq ==
    ASSUME NEW seq \in Seq(Entry), NEW n \in Entry
    PROVE  /\ Append(seq, n) \in Seq(Entry)
           /\ DOMAIN Append(seq, n) = DOMAIN seq \cup {Len(seq) + 1}
           /\ Len(seq) + 1 \notin DOMAIN seq
           /\ Append(seq, n)[Len(seq) + 1] = n
           /\ \A i \in DOMAIN seq : Append(seq, n)[i] = seq[i]
<1>1. DOMAIN seq = 1 .. Len(seq) /\ Len(seq) \in Nat
  BY LenProperties
<1>2. /\ Append(seq, n) \in Seq(Entry) /\ Len(Append(seq, n)) = Len(seq) + 1
      /\ Append(seq, n)[Len(seq) + 1] = n
      /\ \A i \in 1 .. Len(seq) : Append(seq, n)[i] = seq[i]
  BY AppendProperties
<1>3. DOMAIN Append(seq, n) = 1 .. Len(seq) + 1
  BY <1>2, LenProperties
<1>4. QED
  BY <1>1, <1>2, <1>3

LEMMA SetAllSeq ==
    ASSUME NEW seq \in Seq(Entry), NEW k \in Keys, NEW e \in Nat, NEW s \in StripeStatus
    PROVE  /\ NewEntry(k, e, s) \in Entry /\ NewEntry(k, e, s).key = k
           /\ SetAll(seq, k, e, s) \in Seq(Entry) /\ DOMAIN SetAll(seq, k, e, s) = DOMAIN seq
           /\ \A i \in DOMAIN seq :
                 SetAll(seq, k, e, s)[i] = IF seq[i].key = k THEN NewEntry(k, e, s) ELSE seq[i]
<1>1. NewEntry(k, e, s) \in Entry /\ NewEntry(k, e, s).key = k
  BY DEF NewEntry, Entry
<1> DEFINE g == [i \in DOMAIN seq |-> IF seq[i].key = k THEN NewEntry(k, e, s) ELSE seq[i]]
<1>2. \A i \in DOMAIN seq : g[i] \in Entry
  BY <1>1, ElementOfSeq, LenProperties
<1>3. [i \in DOMAIN seq |-> g[i]] \in Seq(Entry)
  BY <1>2, MappedSeq
<1>4. SetAll(seq, k, e, s) = g
  BY DEF SetAll
<1>5. QED
  BY <1>1, <1>3, <1>4

-----------------------------------------------------------------------------
\* Types, and the periods that Stripe has issued.

Issued(v, str) == str[v[1]].status # "none" /\ v[2] <= str[v[1]].end

\* An end of subscription k: of a period issued, or missing after a fault, or
\* one of those the daily job makes up.
EndOf(k, e, str, f, g) == e <= str[k].end \/ (e = Never /\ f > 0) \/ k \in g

\* What a job or an element may say of the end of a subscription, and an
\* element of the access it gives.
Granted(n, str, f, g) ==
    n.key \in Subs => str[n.key].status # "none" /\ EndOf(n.key, n.end, str, f, g)

Gives(n, str, f, g, d) ==
    /\ Granted(n, str, f, g)
    /\ n.key \in Subs => n.key \in d \/ EndOf(n.key, n.expires, str, f, g)

ProcRecords == [pc : PCs, job : Job, copy : Seq(Entry), todo : SUBSET Invoices]

OfSub == {"sale", "fetch", "upsert", "push", "write", "apply", "add", "force", "dedupe", "insert",
          "history", "extend", "direct", "ensure", "save"}
OfCourse == {"pull", "append"}
MayLackEnd == {"upsert", "push", "apply", "add", "force", "write"}

OfInvoice(l, t) == l \in OfSub \ MayLackEnd \/ t = "paid" \/ (l = "revoke" /\ t = "cancel")

USE DEF OfInvoice

\* What a process holds at each of its steps.
Fit(p, x, str, f, g, d) ==
    /\ x \in ProcRecords
    /\ \A i \in DOMAIN x.copy : Gives(x.copy[i], str, f, g, d)
    /\ \A v \in x.todo : Issued(v, str)
    /\ x.pc \in OfSub => x.job.key \in Subs /\ Granted(x.job, str, f, g)
    /\ OfInvoice(x.pc, x.job.type) => x.job.key \in Subs /\ Issued(<<x.job.key, x.job.end>>, str)
    /\ x.pc \in OfCourse => x.job.key \in Courses
    /\ x.pc = "revoke" /\ x.job.type = "buy" => x.job.key \in Keys
    /\ x.pc = "write" /\ x.job.type = "deleted" => x.copy # <<>>
    /\ p = "sync" => x.job.type \in {"none", "hourly", "daily"}
    /\ p = "sweep" => x.job.type \in {"none", "sweep"}

Announced(n, str) ==
    /\ n \in Job
    /\ n.key \in Keys
    /\ n.type # "checkout" => n.key \in Subs
    /\ n.type \in EventTypes
    /\ n.key \in Subs => Issued(<<n.key, n.end>>, str)

DocOK ==
    /\ subs \in Seq(Entry)
    /\ active \subseteq Subs
    /\ \A i \in DOMAIN subs : Gives(subs[i], stripe, faults, guessed, ended)

LedgerOK ==
    /\ tx \in [Invoices -> Seq(Statuses)]
    /\ sales \subseteq Invoices
    /\ renewed \subseteq Invoices
    /\ looks \in [Invoices -> 0 .. LookBack]
    /\ \A v \in Invoices : looks[v] > 0 \/ tx[v] # <<>> => Issued(v, stripe)

WorldOK ==
    /\ stripe \in [Subs -> [status : StripeStatus, end : Nat]]
    /\ \A s \in Subs : stripe[s].end <= clock + 1
    /\ unpaid \subseteq Invoices
    /\ collected \subseteq Invoices
    /\ \A v \in unpaid \cup collected : Issued(v, stripe)
    /\ \A n \in events : Announced(n, stripe)
    /\ sessions \subseteq Keys
    /\ clock \in 0 .. MaxClock
    /\ requests \in Nat
    /\ declines \in Nat
    /\ faults \in Nat

GhostsOK ==
    /\ clobbered \subseteq Keys
    /\ ended \subseteq Keys
    /\ guessed \subseteq Subs
    /\ echoed \subseteq Subs
    /\ owned \subseteq Courses
    /\ dropped \subseteq Invoices

ProcsOK ==
    /\ ProcsAreRecords
    /\ \A p \in Procs : Fit(p, proc[p], stripe, faults, guessed, ended)

Sound == DocOK /\ LedgerOK /\ WorldOK /\ GhostsOK /\ ProcsOK

LEMMA SoundIsTyped == Sound => TypeOK /\ EndsWereIssued
<1> SUFFICES ASSUME Sound PROVE TypeOK /\ EndsWereIssued
  OBVIOUS
<1>1. proc \in [Procs -> ProcRecords]
  BY DEF Sound, ProcsOK, ProcsAreRecords, Fit
<1>2. events \subseteq Job
  BY DEF Sound, WorldOK, Announced
<1>3. TypeOK
  BY <1>1, <1>2 DEF Sound, DocOK, LedgerOK, WorldOK, GhostsOK, TypeOK, ProcRecords, Statuses
<1>4. EndsWereIssued
  BY DEF Sound, DocOK, EndsWereIssued, Granted, Gives, EndOf
<1>5. QED
  BY <1>3, <1>4

\* Periods, faults and excuses only grow.
Later ==
    /\ \A s \in Subs :
          /\ stripe'[s].end \in Nat /\ stripe[s].end <= stripe'[s].end
          /\ stripe[s].status # "none" => stripe'[s].status # "none"
    /\ faults' \in Nat /\ faults <= faults'
    /\ guessed \subseteq guessed' /\ ended \subseteq ended'

LEMMA NeverIsNat == Never \in Nat /\ MaxClock \in Nat /\ Never = MaxClock + 3
BY BoundsAssumption DEF Never

LEMMA LaterGranted ==
    ASSUME WorldOK, Later, NEW n, n.end \in Nat, Granted(n, stripe, faults, guessed)
    PROVE  Granted(n, stripe', faults', guessed')
BY DEF WorldOK, Later, Granted, EndOf

LEMMA LaterGives ==
    ASSUME WorldOK, Later, NEW n \in Entry, Gives(n, stripe, faults, guessed, ended)
    PROVE  Gives(n, stripe', faults', guessed', ended')
<1>1. n.end \in Nat /\ n.expires \in Nat
  BY DEF Entry
<1>2. QED
  BY <1>1, LaterGranted DEF WorldOK, Later, Gives, EndOf

LEMMA LaterIssued ==
    ASSUME WorldOK, Later, NEW v \in Invoices, Issued(v, stripe)
    PROVE  Issued(v, stripe')
<1>1. v[1] \in Subs /\ v[2] \in Nat
  BY NeverIsNat DEF Invoices
<1>2. QED
  BY <1>1 DEF WorldOK, Later, Issued

\* An issued period is an invoice's.
LEMMA IssuedIsInvoice ==
    ASSUME WorldOK, NEW k \in Subs, NEW e \in Nat, Issued(<<k, e>>, stripe)
    PROVE  <<k, e>> \in Invoices
BY NeverIsNat DEF WorldOK, Issued, Invoices

LEMMA LaterFit ==
    ASSUME WorldOK, Later, NEW p, NEW x, Fit(p, x, stripe, faults, guessed, ended)
    PROVE  Fit(p, x, stripe', faults', guessed', ended')
<1>1. /\ x \in ProcRecords
      /\ x.job \in Job /\ x.job.end \in Nat /\ x.copy \in Seq(Entry) /\ x.todo \subseteq Invoices
  BY DEF Fit, ProcRecords, Job
<1>2. \A i \in DOMAIN x.copy : x.copy[i] \in Entry
  BY <1>1, EntryOfSeq
<1>3. \A i \in DOMAIN x.copy : Gives(x.copy[i], stripe', faults', guessed', ended')
  BY <1>2, LaterGives DEF Fit
<1>4. \A v \in x.todo : Issued(v, stripe')
  BY <1>1, LaterIssued DEF Fit
<1>5. x.pc \in OfSub => x.job.key \in Subs /\ Granted(x.job, stripe', faults', guessed')
  BY <1>1, LaterGranted DEF Fit
<1>6. OfInvoice(x.pc, x.job.type) => x.job.key \in Subs /\ Issued(<<x.job.key, x.job.end>>, stripe')
  BY <1>1, LaterIssued, IssuedIsInvoice DEF Fit
<1>7. QED
  BY <1>1, <1>3, <1>4, <1>5, <1>6 DEF Fit

\* What a step leaves alone stays sound.
LEMMA KeptSound ==
    ASSUME Sound, Later
    PROVE  /\ UNCHANGED <<subs, active>> => DocOK'
           /\ UNCHANGED <<tx, sales, renewed, looks>> => LedgerOK'
           /\ UNCHANGED <<world, faults, collected>> => WorldOK'
           /\ UNCHANGED ghosts => GhostsOK'
           /\ UNCHANGED proc => ProcsOK'
<1>1. WorldOK
  BY DEF Sound
<1>2. ASSUME UNCHANGED <<subs, active>> PROVE DocOK'
  <2>1. \A i \in DOMAIN subs : subs[i] \in Entry
    BY EntryOfSeq DEF Sound, DocOK
  <2>2. \A i \in DOMAIN subs : Gives(subs[i], stripe', faults', guessed', ended')
    BY <1>1, <2>1, LaterGives DEF Sound, DocOK
  <2>3. QED
    BY <1>2, <2>2 DEF Sound, DocOK
<1>3. ASSUME UNCHANGED <<tx, sales, renewed, looks>> PROVE LedgerOK'
  BY <1>1, <1>3, LaterIssued DEF Sound, LedgerOK
<1>4. ASSUME UNCHANGED <<world, faults, collected>> PROVE WorldOK'
  BY <1>4 DEF Sound, WorldOK
<1>5. ASSUME UNCHANGED ghosts PROVE GhostsOK'
  BY <1>5 DEF Sound, GhostsOK
<1>6. ASSUME UNCHANGED proc PROVE ProcsOK'
  BY <1>1, <1>6, LaterFit DEF Sound, ProcsOK, ProcsAreRecords
<1>7. QED
  BY <1>2, <1>3, <1>4, <1>5, <1>6

\* A step of one process.
LEMMA ProcSound ==
    ASSUME Sound, Later, NEW p \in Procs, Elsewhere(p), Fit(p, proc'[p], stripe', faults', guessed', ended')
    PROVE  ProcsOK'
<1>1. ASSUME NEW q \in Procs PROVE Fit(q, proc'[q], stripe', faults', guessed', ended')
  <2>1. CASE q = p
    BY <2>1
  <2>2. CASE q # p
    <3>1. proc'[q] = proc[q] /\ WorldOK /\ Fit(q, proc[q], stripe, faults, guessed, ended)
      BY <2>2 DEF Elsewhere, Sound, ProcsOK
    <3>2. QED
      BY <3>1, LaterFit
  <2>3. QED
    BY <2>1, <2>2
<1>2. QED
  BY <1>1 DEF ProcsOK, Elsewhere

-----------------------------------------------------------------------------
\* The records of processes.

LEMMA FitIdle ==
    ASSUME NEW p, NEW str, NEW f, NEW g, NEW d
    PROVE  Fit(p, Idle, str, f, g, d)
<1>1. Idle \in ProcRecords
  BY EmptySeq DEF Idle, NoJob, ProcRecords, PCs, Job, JobTypes, StripeStatus
<1>2. QED
  BY <1>1 DEF Idle, NoJob, Fit, OfSub, OfCourse, MayLackEnd

LEMMA FitGoto ==
    ASSUME NEW p, NEW str, NEW f, NEW g, NEW d, NEW x, Fit(p, x, str, f, g, d), x.pc \in OfSub,
           NEW l \in OfSub \ {"write"},
           l \in MayLackEnd \/ x.pc \notin MayLackEnd \/ x.job.type = "paid"
    PROVE  Fit(p, [pc |-> l, job |-> x.job, copy |-> x.copy, todo |-> x.todo], str, f, g, d)
<1>1. /\ l \in PCs /\ l \notin OfCourse /\ l # "revoke" /\ l # "write" /\ l \in OfSub
      /\ x.pc \in OfSub /\ (x.pc \in MayLackEnd \/ x.pc \in OfSub \ MayLackEnd)
  BY DEF PCs, OfSub, OfCourse
<1>2. [pc |-> l, job |-> x.job, copy |-> x.copy, todo |-> x.todo] \in ProcRecords
  BY <1>1 DEF Fit, ProcRecords
<1>3. QED
  BY <1>1, <1>2 DEF Fit

\* A job that carries no end of a subscription's period.
LEMMA FitRecord ==
    ASSUME NEW p, NEW str, NEW f, NEW g, NEW d, NEW l \in PCs, NEW j \in Job, NEW c \in Seq(Entry), NEW t \in SUBSET Invoices,
           \A i \in DOMAIN c : Gives(c[i], str, f, g, d),
           \A v \in t : Issued(v, str),
           l \in OfSub => j.key \in Subs /\ Granted(j, str, f, g),
           OfInvoice(l, j.type) => j.key \in Subs /\ Issued(<<j.key, j.end>>, str),
           l \in OfCourse => j.key \in Courses,
           l = "revoke" /\ j.type = "buy" => j.key \in Keys,
           l = "write" /\ j.type = "deleted" => c # <<>>,
           p = "sync" => j.type \in {"none", "hourly", "daily"},
           p = "sweep" => j.type \in {"none", "sweep"}
    PROVE  Fit(p, [pc |-> l, job |-> j, copy |-> c, todo |-> t], str, f, g, d)
<1>1. [pc |-> l, job |-> j, copy |-> c, todo |-> t] \in ProcRecords
  BY DEF ProcRecords
<1>2. QED
  BY <1>1 DEF Fit

LEMMA Becomes ==
    ASSUME Sound, Later, NEW p \in Procs, NEW l, NEW j, NEW c, NEW t, Become(p, l, j, c, t),
           Fit(p, [pc |-> l, job |-> j, copy |-> c, todo |-> t], stripe', faults', guessed', ended')
    PROVE  ProcsOK'
<1>1. Elsewhere(p) /\ proc'[p] = [pc |-> l, job |-> j, copy |-> c, todo |-> t]
  BY Moves DEF Become, Sound, ProcsOK
<1>2. QED
  BY <1>1, ProcSound

LEMMA Finishes ==
    ASSUME Sound, Later, NEW p \in Procs, Finish(p)
    PROVE  ProcsOK'
<1>1. Elsewhere(p) /\ proc'[p] = Idle
  BY Moves DEF Finish, Sound, ProcsOK
<1>2. QED
  BY <1>1, FitIdle, ProcSound

LEMMA Goes ==
    ASSUME Sound, Later, NEW p \in Procs, proc[p].pc \in OfSub, NEW l \in OfSub \ {"write"},
           l \in MayLackEnd \/ proc[p].pc \notin MayLackEnd \/ JobOf(p).type = "paid",
           Goto(p, l)
    PROVE  ProcsOK'
<1>1. Fit(p, proc[p], stripe', faults', guessed', ended')
  BY LaterFit DEF Sound, ProcsOK
<1>2. Fit(p, [pc |-> l, job |-> JobOf(p), copy |-> proc[p].copy, todo |-> proc[p].todo], stripe', faults', guessed', ended')
  BY <1>1, FitGoto
<1>3. QED
  BY <1>2, Becomes DEF Goto

\* What is known of a process at its step.
LEMMA HeldRecord ==
    ASSUME Sound, NEW p \in Procs
    PROVE  /\ Fit(p, proc[p], stripe, faults, guessed, ended)
           /\ JobOf(p) \in Job /\ JobOf(p).type \in JobTypes
           /\ JobOf(p).end \in Nat /\ JobOf(p).status \in StripeStatus
           /\ proc[p].copy \in Seq(Entry) /\ proc[p].todo \subseteq Invoices
           /\ \A i \in DOMAIN proc[p].copy : Gives(proc[p].copy[i], stripe, faults, guessed, ended)
           /\ \A v \in proc[p].todo : Issued(v, stripe)
           /\ p = "sync" => JobOf(p).type \in {"none", "hourly", "daily"}
           /\ p = "sweep" => JobOf(p).type \in {"none", "sweep"}
BY DEF Sound, ProcsOK, Fit, ProcRecords, Job

LEMMA HeldKey ==
    ASSUME Sound, NEW p \in Procs, proc[p].pc \in OfSub
    PROVE  /\ KeyOf(p) \in Subs /\ KeyOf(p) \in Keys /\ stripe[KeyOf(p)].status # "none"
           /\ \A s : Gives(NewEntry(KeyOf(p), JobOf(p).end, s), stripe, faults, guessed, ended)
           /\ proc[p].pc \notin MayLackEnd \/ JobOf(p).type = "paid" =>
                 InvoiceOf(p) \in Invoices /\ Issued(InvoiceOf(p), stripe)
<1>1. Fit(p, proc[p], stripe, faults, guessed, ended) /\ JobOf(p).end \in Nat /\ WorldOK
  BY HeldRecord DEF Sound
<1>2. KeyOf(p) \in Subs /\ Granted(proc[p].job, stripe, faults, guessed)
  BY <1>1 DEF Fit
<1>3. \A s : Gives(NewEntry(KeyOf(p), JobOf(p).end, s), stripe, faults, guessed, ended) /\ stripe[KeyOf(p)].status # "none"
  BY <1>2 DEF NewEntry, Granted, Gives
<1>4. proc[p].pc \notin MayLackEnd \/ JobOf(p).type = "paid" =>
         InvoiceOf(p) \in Invoices /\ Issued(InvoiceOf(p), stripe)
  BY <1>1, <1>2, IssuedIsInvoice DEF Fit
<1>5. QED
  BY <1>2, <1>3, <1>4 DEF Keys

\* What may be written to the array.
AllGives(seq, str, f, g, d) == seq \in Seq(Entry) /\ \A i \in DOMAIN seq : Gives(seq[i], str, f, g, d)
AllGranted(seq) == AllGives(seq, stripe, faults, guessed, ended)

USE DEF AllGives

LEMMA ArrayGranted ==
    ASSUME NEW seq, AllGranted(seq), NEW k \in Keys, NEW e \in Nat, NEW s \in StripeStatus,
           Gives(NewEntry(k, e, s), stripe, faults, guessed, ended)
    PROVE  /\ Holds(seq, k) => AllGranted(SetFirst(seq, k, e, s))
           /\ AllGranted(SetOrAdd(seq, k, e, s)) /\ AllGranted(SetAndAdd(seq, k, e, s))
           /\ AllGranted(Append(seq, NewEntry(k, e, s)))
<1>1. seq \in Seq(Entry) /\ NewEntry(k, e, s) \in Entry
  BY DEF AllGranted, NewEntry, Entry
<1>2. Holds(seq, k) => AllGranted(SetFirst(seq, k, e, s))
  <2> SUFFICES ASSUME Holds(seq, k) PROVE AllGranted(SetFirst(seq, k, e, s))
    OBVIOUS
  <2>1. /\ SetFirst(seq, k, e, s) \in Seq(Entry)
        /\ DOMAIN SetFirst(seq, k, e, s) = DOMAIN seq
        /\ \A i \in DOMAIN seq : SetFirst(seq, k, e, s)[i] \in {seq[i], NewEntry(k, e, s)}
    BY <1>1, SetFirstSeq
  <2>2. QED
    BY <2>1 DEF AllGranted
<1>3. AllGranted(SetAll(seq, k, e, s))
  BY <1>1, SetAllSeq DEF AllGranted
<1>4. \A sq : AllGranted(sq) => AllGranted(Append(sq, NewEntry(k, e, s)))
  BY <1>1, AppendedSeq DEF AllGranted
<1>5. QED
  BY <1>2, <1>3, <1>4 DEF SetOrAdd, SetAndAdd

LEMMA SelectedGranted ==
    ASSUME NEW seq, AllGranted(seq), NEW I \in SUBSET DOMAIN seq
    PROVE  AllGranted(Selected(seq, I))
<1>1. seq \in Seq(Entry)
  BY DEF AllGranted
<1>2. /\ Selected(seq, I) \in Seq(Entry) /\ DOMAIN Selected(seq, I) = 1 .. Cardinality(I)
      /\ \E pick \in [1 .. Cardinality(I) -> I] :
            \A j \in 1 .. Cardinality(I) : Selected(seq, I)[j] = seq[pick[j]]
  BY <1>1, SelectedSeq
<1>3. \A j \in DOMAIN Selected(seq, I) : \E i \in I : Selected(seq, I)[j] = seq[i]
  BY <1>2
<1>4. QED
  BY <1>2, <1>3 DEF AllGranted

\* The last date of some elements is changed, and this is known of their keys.
LEMMA EndedGranted ==
    ASSUME NEW seq, AllGranted(seq), NEW new, NEW K,
           new \in Seq(Entry), DOMAIN new = DOMAIN seq,
           \A i \in DOMAIN seq :
              /\ new[i].key = seq[i].key /\ new[i].end = seq[i].end
              /\ new[i].expires = seq[i].expires \/ new[i].key \in K
    PROVE  AllGives(new, stripe, faults, guessed, ended \cup K)
BY DEF AllGranted, Granted, Gives

LEMMA SeenGranted ==
    ASSUME Sound
    PROVE  AllGranted(subs) /\ \A p \in Procs : AllGranted(proc[p].copy)
BY HeldRecord DEF Sound, DocOK, AllGranted

\* A step of one process that leaves Stripe, the clock and the events alone.
LEMMA UserStep ==
    ASSUME Sound, UNCHANGED <<ledger, world, faults, collected>>,
           Later, AllGranted(subs') \/ AllGives(subs', stripe', faults', guessed', ended'),
           active' \subseteq Subs, GhostsOK', ProcsOK'
    PROVE  Sound'
<1>1. AllGives(subs', stripe', faults', guessed', ended')
  <2> SUFFICES ASSUME AllGranted(subs') PROVE \A i \in DOMAIN subs' : Gives(subs'[i], stripe', faults', guessed', ended')
    BY DEF AllGranted
  <2>1. \A i \in DOMAIN subs' : subs'[i] \in Entry
    BY EntryOfSeq DEF AllGranted
  <2>2. QED
    BY <2>1, LaterGives DEF AllGranted, Sound
<1>2. QED
  BY <1>1, KeptSound DEF Sound, DocOK

LEMMA StillLater ==
    ASSUME Sound, stripe' = stripe, faults' = faults \/ faults' = faults + 1, UNCHANGED <<guessed, ended>>
    PROVE  Later
BY DEF Sound, WorldOK, Later

-----------------------------------------------------------------------------

LEMMA SoundInit == Init => Sound
<1> SUFFICES ASSUME Init PROVE Sound
  OBVIOUS
<1>1. DocOK
  BY EmptySeq DEF Init, DocOK
<1>2. LedgerOK
  BY EmptySeq, BoundsAssumption DEF Init, LedgerOK
<1>3. WorldOK
  BY BoundsAssumption DEF Init, WorldOK, StripeStatus
<1>4. GhostsOK
  BY DEF Init, GhostsOK
<1>5. ProcsOK
  BY FitIdle DEF Init, ProcsOK, ProcsAreRecords
<1>6. QED
  BY <1>1, <1>2, <1>3, <1>4, <1>5 DEF Sound

\* A step of Stripe or the clock.
LEMMA WorldSound ==
    ASSUME Sound, Later, WorldOK', GhostsOK', UNCHANGED <<userDoc, ledger, proc>>
    PROVE  Sound'
BY KeptSound DEF Sound

\* Events stay announced, and new ones are.
LEMMA LaterAnnounced ==
    ASSUME WorldOK, Later, NEW n, Announced(n, stripe)
    PROVE  Announced(n, stripe')
<1>1. n.end \in Nat
  BY DEF Announced, Job
<1>2. n.key \in Subs => <<n.key, n.end>> \in Invoices
  BY <1>1, IssuedIsInvoice DEF Announced
<1>3. QED
  BY <1>2, LaterIssued DEF Announced

LEMMA NewEvent ==
    ASSUME NEW t \in EventTypes, NEW k \in Subs, NEW e \in Nat, NEW s \in StripeStatus, NEW str, e <= str[k].end, str[k].status # "none"
    PROVE  Announced(NewJob(t, k, e, s), str)
<1>1. NewJob(t, k, e, s) \in Job
  BY DEF Job, JobTypes, Keys
<1>2. QED
  BY <1>1 DEF Announced, Issued, Keys

\* A change of Stripe's record of one subscription.
LEMMA StripeChanges ==
    ASSUME WorldOK, NEW k \in Subs, stripe' \in [Subs -> [status : StripeStatus, end : Nat]],
           stripe[k].end <= stripe'[k].end, stripe'[k].end <= clock + 1, stripe'[k].status # "none",
           \A r \in Subs \ {k} : stripe'[r] = stripe[r], faults' = faults, UNCHANGED <<guessed, ended>>
    PROVE  Later /\ \A r \in Subs : stripe'[r].end <= clock + 1
BY DEF WorldOK, Later

LEMMA StripeSound ==
    ASSUME Sound, Tick \/ Stripe \/ \E k \in Keys : Pay(k)
    PROVE  Sound'
<1>0. WorldOK /\ GhostsOK
  BY DEF Sound
<1>a. /\ "paid" \in EventTypes /\ "checkout" \in EventTypes /\ "updated" \in EventTypes
      /\ "failed" \in EventTypes /\ "intent" \in EventTypes /\ "deleted" \in EventTypes
      /\ "active" \in StripeStatus /\ "past_due" \in StripeStatus /\ "canceled" \in StripeStatus
  BY DEF EventTypes, StripeStatus
<1>b. clock \in Nat /\ clock + 1 \in Nat /\ MaxClock \in Nat /\ clock <= MaxClock
  BY <1>0, BoundsAssumption DEF WorldOK
<1>1. CASE Tick
  <2>1. Later /\ WorldOK' /\ GhostsOK' /\ UNCHANGED <<userDoc, ledger, proc>>
    BY <1>1, <1>0, <1>b DEF Tick, WorldOK, GhostsOK, Later
  <2>2. QED
    BY <2>1, WorldSound
<1>2. ASSUME NEW s \in Subs, Roll(s) PROVE Sound'
  <2> DEFINE e == stripe[s].end + 1
  <2>1. stripe[s].end \in Nat /\ e \in Nat /\ stripe[s].end <= e /\ e <= clock + 1
    BY <1>2, <1>0, <1>b DEF Roll, WorldOK
  <2>2. /\ stripe' \in [Subs -> [status : StripeStatus, end : Nat]]
        /\ stripe'[s].end = e /\ stripe'[s].status # "none"
        /\ \A r \in Subs \ {s} : stripe'[r] = stripe[r]
        /\ UNCHANGED <<faults, guessed, ended>>
    BY <1>2, <1>0, <2>1 DEF Roll, WorldOK
  <2>3. Later /\ \A r \in Subs : stripe'[r].end <= clock + 1
    BY <1>0, <2>1, <2>2, StripeChanges
  <2> HIDE DEF e
  <2>4. Announced(NewJob("updated", s, e, "active"), stripe')
    BY <1>a, <2>1, <2>2, NewEvent
  <2>5. \A n \in events' : Announced(n, stripe')
    BY <1>2, <1>0, <2>3, <2>4, LaterAnnounced DEF Roll, WorldOK, e
  <2>6. <<s, e>> \in Invoices /\ Issued(<<s, e>>, stripe')
    BY <1>b, <2>1, <2>2 DEF Invoices, Issued
  <2>7. unpaid' \subseteq Invoices /\ \A v \in unpaid' \cup collected : Issued(v, stripe')
    BY <1>2, <1>0, <2>3, <2>6, LaterIssued DEF Roll, WorldOK, e
  <2>8. WorldOK' /\ GhostsOK' /\ UNCHANGED <<userDoc, ledger, proc>>
    BY <1>2, <1>0, <2>2, <2>3, <2>5, <2>7 DEF Roll, WorldOK, GhostsOK
  <2>9. QED
    BY <2>3, <2>8, WorldSound
<1>3. ASSUME NEW s \in Subs, GiveUp(s) PROVE Sound'
  <2>1. stripe[s].end \in Nat /\ stripe[s].end <= clock + 1
    BY <1>0 DEF WorldOK
  <2>2. /\ stripe' \in [Subs -> [status : StripeStatus, end : Nat]]
        /\ stripe'[s].end = stripe[s].end /\ stripe'[s].status # "none"
        /\ \A r \in Subs \ {s} : stripe'[r] = stripe[r]
        /\ events' = events \cup {NewJob("deleted", s, stripe[s].end, "canceled")}
        /\ UNCHANGED <<userDoc, ledger, unpaid, sessions, clock, requests, declines, proc, faults, ghosts>>
    BY <1>3, <1>0, <1>a DEF GiveUp, CancelAtStripe, WorldOK
  <2>3. Later /\ \A r \in Subs : stripe'[r].end <= clock + 1
    BY <1>0, <2>1, <2>2, StripeChanges
  <2>4. \A n \in events' : Announced(n, stripe')
    <3>1. Announced(NewJob("deleted", s, stripe[s].end, "canceled"), stripe')
      BY <1>a, <2>1, <2>2, NewEvent
    <3>2. QED
      BY <1>0, <2>2, <2>3, <3>1, LaterAnnounced DEF WorldOK
  <2>5. \A v \in unpaid \cup collected : Issued(v, stripe')
    BY <1>0, <2>3, LaterIssued DEF WorldOK
  <2>6. WorldOK' /\ GhostsOK'
    BY <1>0, <2>2, <2>3, <2>4, <2>5 DEF WorldOK, GhostsOK
  <2>7. QED
    BY <2>2, <2>3, <2>6, WorldSound
<1>4. ASSUME NEW v \in Invoices, Collect(v[1], v[2]) PROVE Sound'
  <2>1. /\ v[1] \in Subs /\ v[2] \in Nat /\ v = <<v[1], v[2]>>
        /\ stripe[v[1]].end \in Nat /\ stripe[v[1]].end <= clock + 1
    BY <1>0, <1>b DEF WorldOK, Invoices
  <2>2. /\ stripe' \in [Subs -> [status : StripeStatus, end : Nat]]
        /\ stripe'[v[1]].end = stripe[v[1]].end /\ stripe'[v[1]].status # "none"
        /\ \A r \in Subs \ {v[1]} : stripe'[r] = stripe[r]
        /\ UNCHANGED <<faults, guessed, ended>>
    BY <1>4, <1>0, <1>a, <2>1 DEF Collect, WorldOK
  <2>3. Later /\ \A r \in Subs : stripe'[r].end <= clock + 1
    BY <1>0, <2>1, <2>2, StripeChanges
  <2>4. v[2] <= stripe'[v[1]].end
    BY <1>4, <1>0, <2>1, <2>2 DEF Collect, WorldOK, Issued
  <2>5. /\ Announced(NewJob("paid", v[1], v[2], "active"), stripe')
        /\ Announced(NewJob("updated", v[1], stripe[v[1]].end, "active"), stripe')
    BY <1>a, <2>1, <2>2, <2>4, NewEvent
  <2>6. \A n \in events' : Announced(n, stripe')
    BY <1>4, <1>0, <2>3, <2>5, LaterAnnounced DEF Collect, WorldOK
  <2>7. unpaid' \subseteq Invoices /\ collected' \subseteq Invoices /\ \A w \in unpaid' \cup collected' : Issued(w, stripe')
    BY <1>4, <1>0, <2>3, LaterIssued DEF Collect, WorldOK
  <2>8. WorldOK' /\ GhostsOK' /\ UNCHANGED <<userDoc, ledger, proc>>
    BY <1>4, <1>0, <2>1, <2>2, <2>3, <2>6, <2>7 DEF Collect, WorldOK, GhostsOK
  <2>9. QED
    BY <2>3, <2>8, WorldSound
<1>5. ASSUME NEW v \in Invoices, Decline(v[1], v[2]) PROVE Sound'
  <2>1. /\ v[1] \in Subs /\ v[2] \in Nat /\ v = <<v[1], v[2]>>
        /\ stripe[v[1]].end \in Nat /\ stripe[v[1]].end <= clock + 1
    BY <1>0, <1>b DEF WorldOK, Invoices
  <2>2. /\ stripe' \in [Subs -> [status : StripeStatus, end : Nat]]
        /\ stripe'[v[1]].end = stripe[v[1]].end /\ stripe'[v[1]].status # "none"
        /\ \A r \in Subs \ {v[1]} : stripe'[r] = stripe[r]
        /\ UNCHANGED <<faults, guessed, ended>>
    BY <1>5, <1>0, <1>a, <2>1 DEF Decline, WorldOK
  <2>3. Later /\ \A r \in Subs : stripe'[r].end <= clock + 1
    BY <1>0, <2>1, <2>2, StripeChanges
  <2>4. v[2] <= stripe'[v[1]].end
    BY <1>5, <1>0, <2>1, <2>2 DEF Decline, WorldOK, Issued
  <2>5. /\ Announced(NewJob("failed", v[1], v[2], "past_due"), stripe')
        /\ Announced(NewJob("intent", v[1], v[2], "past_due"), stripe')
        /\ Announced(NewJob("updated", v[1], stripe[v[1]].end, "past_due"), stripe')
    BY <1>a, <2>1, <2>2, <2>4, NewEvent
  <2>6. \A n \in events' : Announced(n, stripe')
    BY <1>5, <1>0, <2>3, <2>5, LaterAnnounced DEF Decline, WorldOK
  <2>7. \A w \in unpaid \cup collected : Issued(w, stripe')
    BY <1>0, <2>3, LaterIssued DEF WorldOK
  <2>8. /\ declines' = declines + 1
        /\ UNCHANGED <<userDoc, ledger, proc, unpaid, sessions, clock, requests, faults, ghosts>>
    BY <1>5 DEF Decline
  <2>9. WorldOK'
    BY <1>0, <2>2, <2>3, <2>6, <2>7, <2>8 DEF WorldOK
  <2>10. GhostsOK'
    BY <1>0, <2>8 DEF GhostsOK
  <2>11. QED
    BY <2>3, <2>8, <2>9, <2>10, WorldSound
<1>6. ASSUME NEW k \in Keys, Pay(k) PROVE Sound'
  <2>1. CASE k \in Subs
    <3>1. /\ stripe' \in [Subs -> [status : StripeStatus, end : Nat]]
          /\ stripe'[k].end = clock + 1 /\ stripe'[k].status # "none"
          /\ stripe[k].end <= clock + 1
          /\ \A r \in Subs \ {k} : stripe'[r] = stripe[r]
          /\ UNCHANGED <<faults, guessed, ended>>
      BY <1>6, <1>0, <1>a, <1>b, <2>1 DEF Pay, WorldOK
    <3>2. Later /\ \A r \in Subs : stripe'[r].end <= clock + 1
      BY <1>0, <1>b, <2>1, <3>1, StripeChanges
    <3>3. /\ Announced(NewJob("checkout", k, clock + 1, "active"), stripe')
          /\ Announced(NewJob("paid", k, clock + 1, "active"), stripe')
      BY <1>a, <1>b, <2>1, <3>1, NewEvent
    <3>4. \A n \in events' : Announced(n, stripe')
      BY <1>6, <1>0, <2>1, <3>2, <3>3, LaterAnnounced DEF Pay, WorldOK
    <3>5. \A v \in unpaid \cup collected : Issued(v, stripe')
      BY <1>0, <3>2, LaterIssued DEF WorldOK
    <3>6. <<k, clock + 1>> \in Invoices /\ Issued(<<k, clock + 1>>, stripe')
      BY <1>b, <2>1, <3>1 DEF Invoices, Issued
    <3>7. WorldOK' /\ GhostsOK' /\ UNCHANGED <<userDoc, ledger, proc>>
      BY <1>6, <1>0, <2>1, <3>1, <3>2, <3>4, <3>5, <3>6 DEF Pay, WorldOK, GhostsOK
    <3>8. QED
      BY <3>2, <3>7, WorldSound
  <2>2. CASE k \notin Subs
    <3>1. Announced(NewJob("checkout", k, 0, "active"), stripe)
      BY <2>2, <1>a DEF Announced, Job, JobTypes, EventTypes
    <3>2. /\ events' = events \cup {NewJob("checkout", k, 0, "active")}
          /\ sessions' \subseteq sessions
          /\ UNCHANGED <<userDoc, ledger, stripe, collected, unpaid, clock, requests, declines, proc, faults,
                         clobbered, ended, guessed, echoed, owned, dropped>>
      BY <1>6, <2>2 DEF Pay
    <3>3. Later /\ WorldOK' /\ GhostsOK'
      BY <1>0, <3>1, <3>2 DEF WorldOK, GhostsOK, Later
    <3>4. QED
      BY <3>2, <3>3, WorldSound
  <2>3. QED
    BY <2>1, <2>2
<1>7. QED
  BY <1>1, <1>2, <1>3, <1>4, <1>5, <1>6 DEF Stripe

-----------------------------------------------------------------------------
\* The steps that write the array.

LEMMA OfEach ==
    ASSUME NEW p
    PROVE  /\ \A l \in {"sale", "fetch", "upsert", "push", "write", "apply", "add", "force", "dedupe", "insert",
                         "history", "extend", "direct", "ensure", "save"} :
                 At(p, l) => proc[p].pc = l /\ proc[p].pc \in OfSub
           /\ \A l \in {"sale", "fetch", "dedupe", "insert", "history", "extend", "direct", "ensure", "save"} :
                 At(p, l) => proc[p].pc \notin MayLackEnd
BY DEF At, OfSub, MayLackEnd

\* Finishing, or going on with the same job.
GoesOn(p) == \/ Finish(p)
             \/ \E l \in OfSub \ {"write"} :
                   /\ Goto(p, l)
                   /\ proc[p].pc \in OfSub
                   /\ l \in MayLackEnd \/ proc[p].pc \notin MayLackEnd \/ JobOf(p).type = "paid"

LEMMA GoesOnSound ==
    ASSUME Sound, Later, NEW p \in Procs, GoesOn(p)
    PROVE  ProcsOK'
BY Finishes, Goes DEF GoesOn

\* One element is updated or pushed.
LEMMA PutSound ==
    ASSUME Sound, NEW p \in Procs,
           Upsert(p) \/ PushIfAbsent(p) \/ Extend(p) \/ Direct(p) \/ Ensure(p)
    PROVE  Sound'
<1>1. proc[p].pc \in OfSub
  BY OfEach DEF Upsert, PushIfAbsent, Extend, Direct, Ensure
<1>2. /\ KeyOf(p) \in Subs /\ KeyOf(p) \in Keys /\ JobOf(p).end \in Nat /\ JobOf(p).status \in StripeStatus
      /\ "active" \in StripeStatus /\ AllGranted(subs)
      /\ \A s : Gives(NewEntry(KeyOf(p), JobOf(p).end, s), stripe, faults, guessed, ended)
  BY <1>1, HeldKey, HeldRecord, SeenGranted DEF StripeStatus
<1>3. /\ Holds(subs, KeyOf(p)) => AllGranted(SetFirst(subs, KeyOf(p), JobOf(p).end, JobOf(p).status))
      /\ Holds(subs, KeyOf(p)) => AllGranted(SetFirst(subs, KeyOf(p), JobOf(p).end, "active"))
      /\ AllGranted(Append(subs, NewEntry(KeyOf(p), JobOf(p).end, JobOf(p).status)))
  BY <1>2, ArrayGranted
<1>4. UNCHANGED <<ledger, world, faults, collected, guessed, ended>>
  BY DEF Upsert, PushIfAbsent, Extend, Direct, Ensure
<1>5. Later
  BY <1>4, StillLater
<1>6. {v[1] : v \in proc[p].todo} \subseteq Subs
  BY HeldRecord DEF Invoices
<1>7. AllGranted(subs')
  <2>1. subs' \in {subs, SetFirst(subs, KeyOf(p), JobOf(p).end, JobOf(p).status),
                   SetFirst(subs, KeyOf(p), JobOf(p).end, "active"),
                   Append(subs, NewEntry(KeyOf(p), JobOf(p).end, JobOf(p).status))}
        /\ (~Holds(subs, KeyOf(p)) => subs' \in {subs, Append(subs, NewEntry(KeyOf(p), JobOf(p).end, JobOf(p).status))})
    BY DEF Upsert, PushIfAbsent, Extend, Direct, Ensure
  <2>2. QED
    BY <1>2, <1>3, <2>1
<1>8. active' \subseteq Subs
  BY <1>2, <1>6 DEF Upsert, PushIfAbsent, Extend, Direct, Ensure, Sound, DocOK
<1>9. GhostsOK'
  BY <1>6 DEF Upsert, PushIfAbsent, Extend, Direct, Ensure, Sound, GhostsOK
<1>10. GoesOn(p)
  BY <1>1 DEF Upsert, PushIfAbsent, Extend, Direct, Ensure, GoesOn, OfSub, MayLackEnd, At
<1>11. QED
  BY <1>4, <1>5, <1>7, <1>8, <1>9, <1>10, GoesOnSound, UserStep

LEMMA OverwriteSound ==
    ASSUME Sound, NEW p \in Procs, NEW new, Overwrite(p, new), UNCHANGED <<guessed, echoed, owned, collected, dropped>>,
           ended' \subseteq Keys
    PROVE  subs' = new /\ GhostsOK'
BY DEF Overwrite, Changed, Sound, GhostsOK

\* A course replaces the elements of its plan.
LEMMA CourseSound ==
    ASSUME Sound, NEW p \in Procs, Pull(p) \/ AppendCourse(p)
    PROVE  Sound'
<1>1. proc[p].pc \in OfCourse /\ UNCHANGED <<ledger, world, faults, collected, active, guessed, ended>>
  BY DEF Pull, AppendCourse, At, OfCourse
<1>2. KeyOf(p) \in Courses /\ KeyOf(p) \in Keys /\ KeyOf(p) \notin Subs
  BY <1>1, HeldRecord, KeysAssumption DEF Fit, Keys
<1>3. Later /\ JobOf(p).end \in Nat /\ JobOf(p).type \in JobTypes /\ AllGranted(subs) /\ "active" \in StripeStatus
  BY <1>1, StillLater, HeldRecord, SeenGranted DEF StripeStatus
<1>4. Gives(NewEntry(KeyOf(p), JobOf(p).end, "active"), stripe, faults, guessed, ended)
  BY <1>2 DEF Granted, Gives, NewEntry
<1>5. active' \subseteq Subs
  BY <1>1 DEF Sound, DocOK
<1>6. CASE Pull(p)
  <2>1. subs' = Selected(subs, {i \in DOMAIN subs : subs[i].key \notin SamePlan(KeyOf(p))})
    BY <1>6 DEF Pull, Without
  <2>2. AllGranted(subs')
    BY <1>3, <2>1, SelectedGranted
  <2>3. GhostsOK'
    BY <1>6 DEF Pull, Sound, GhostsOK
  <2>4. CASE JobOf(p).type = "checkout"
    <3>1. Become(p, "append", JobOf(p), proc[p].copy, proc[p].todo)
      BY <1>6, <2>4 DEF Pull, Goto
    <3>2. "append" \in PCs /\ "append" \notin OfSub /\ JobOf(p).type # "paid"
      BY <2>4 DEF PCs, OfSub
    <3>3. Fit(p, [pc |-> "append", job |-> JobOf(p), copy |-> proc[p].copy, todo |-> proc[p].todo], stripe', faults', guessed', ended')
      BY <1>1, <1>2, <3>2, HeldRecord, FitRecord
    <3>4. ProcsOK'
      BY <1>3, <3>1, <3>3, Becomes
    <3>5. QED
      BY <1>1, <1>3, <1>5, <2>2, <2>3, <3>4, UserStep
  <2>5. CASE JobOf(p).type # "checkout"
    <3>1. ProcsOK'
      BY <1>3, <1>6, <2>5, Finishes DEF Pull
    <3>2. QED
      BY <1>1, <1>3, <1>5, <2>2, <2>3, <3>1, UserStep
  <2>6. QED
    BY <2>4, <2>5
<1>7. CASE AppendCourse(p)
  <2>1. subs' = Append(subs, NewEntry(KeyOf(p), JobOf(p).end, "active"))
    BY <1>7 DEF AppendCourse, PushUnguarded
  <2>2. AllGranted(subs')
    BY <1>2, <1>3, <1>4, <2>1, ArrayGranted
  <2>3. GhostsOK'
    BY <1>2, <1>7 DEF AppendCourse, PushUnguarded, NewEntry, Sound, GhostsOK
  <2>4. ProcsOK'
    BY <1>3, <1>7, Finishes DEF AppendCourse
  <2>5. QED
    BY <1>1, <1>3, <1>5, <2>2, <2>3, <2>4, UserStep
<1>8. QED
  BY <1>6, <1>7

\* A copy is written back with new last dates.
\* The elements of K get the end of access e.
Ended(seq, K, e) == [i \in DOMAIN seq |-> IF seq[i].key \in K THEN [seq[i] EXCEPT !.expires = e] ELSE seq[i]]

LEMMA EndedSeq ==
    ASSUME NEW seq \in Seq(Entry), NEW K, NEW e \in Nat
    PROVE  LET new == Ended(seq, K, e)
           IN  /\ new \in Seq(Entry) /\ DOMAIN new = DOMAIN seq
               /\ \A i \in DOMAIN seq : new[i].key = seq[i].key /\ new[i].end = seq[i].end
               /\ \A i \in DOMAIN seq : seq[i].key \notin K => new[i] = seq[i]
<1> DEFINE g == [i \in DOMAIN seq |-> IF seq[i].key \in K THEN [seq[i] EXCEPT !.expires = e] ELSE seq[i]]
<1>1. \A i \in DOMAIN seq : g[i] \in Entry /\ g[i].key = seq[i].key /\ g[i].end = seq[i].end
  <2> SUFFICES ASSUME NEW i \in DOMAIN seq
               PROVE  g[i] \in Entry /\ g[i].key = seq[i].key /\ g[i].end = seq[i].end
    OBVIOUS
  <2>1. seq[i] \in Entry
    BY EntryOfSeq
  <2>2. QED
    BY <2>1 DEF Entry
<1> HIDE DEF g
<1>2. [i \in DOMAIN seq |-> g[i]] \in Seq(Entry)
  BY <1>1, MappedSeq
<1>3. g = [i \in DOMAIN seq |-> g[i]] /\ DOMAIN g = DOMAIN seq
  BY DEF g
<1>4. g \in Seq(Entry) /\ DOMAIN g = DOMAIN seq /\ \A i \in DOMAIN seq : g[i].key = seq[i].key /\ g[i].end = seq[i].end
  BY <1>1, <1>2, <1>3
<1>5. g = Ended(seq, K, e) /\ \A i \in DOMAIN seq : seq[i].key \notin K => g[i] = seq[i]
  BY DEF g, Ended
<1>6. QED
  BY <1>4, <1>5

LEMMA FirstEndedSeq ==
    ASSUME NEW seq \in Seq(Entry), seq # <<>>, NEW e \in Nat
    PROVE  LET new == [seq EXCEPT ![1].expires = e]
           IN  /\ 1 \in DOMAIN seq
               /\ new \in Seq(Entry) /\ DOMAIN new = DOMAIN seq
               /\ \A i \in DOMAIN seq : new[i].key = seq[i].key /\ new[i].end = seq[i].end
               /\ \A i \in DOMAIN seq : i # 1 => new[i] = seq[i]
<1>1. 1 \in 1 .. Len(seq) /\ DOMAIN seq = 1 .. Len(seq)
  BY EmptySeq, LenProperties
<1>2. seq[1] \in Entry
  BY <1>1, EntryOfSeq
<1> DEFINE n == [seq[1] EXCEPT !.expires = e]
<1>3. n \in Entry /\ n.key = seq[1].key /\ n.end = seq[1].end
  BY <1>2 DEF Entry
<1>4. [seq EXCEPT ![1].expires = e] = [seq EXCEPT ![1] = n]
  OBVIOUS
<1> HIDE DEF n
<1> DEFINE new == [seq EXCEPT ![1] = n]
<1>5. /\ new \in Seq(Entry) /\ Len(new) = Len(seq)
      /\ \A i \in 1 .. Len(seq) : new[i] = IF i = 1 THEN n ELSE seq[i]
  BY <1>1, <1>3, ExceptSeq
<1>6. DOMAIN new = DOMAIN seq
  BY <1>1, <1>5, LenProperties
<1> HIDE DEF new
<1>7. /\ 1 \in DOMAIN seq /\ new \in Seq(Entry) /\ DOMAIN new = DOMAIN seq
      /\ \A i \in DOMAIN seq : new[i].key = seq[i].key /\ new[i].end = seq[i].end
      /\ \A i \in DOMAIN seq : i # 1 => new[i] = seq[i]
  BY <1>1, <1>3, <1>5, <1>6
<1>8. new = [seq EXCEPT ![1].expires = e]
  BY <1>4 DEF new
<1>9. QED
  BY <1>7, <1>8, Zenon

LEMMA WriteSound ==
    ASSUME Sound, NEW p \in Procs, WriteCancelled(p) \/ WriteUpdated(p) \/ WriteDeleted(p)
    PROVE  Sound'
<1>1. /\ proc[p].pc = "write" /\ proc[p].pc \in OfSub /\ Finish(p)
      /\ UNCHANGED <<ledger, world, faults, collected, guessed>> /\ ended \subseteq ended'
  BY OfEach DEF WriteCancelled, WriteUpdated, WriteDeleted
<1>2. Later /\ ProcsOK'
  <2>1. Later
    BY <1>1 DEF Later, Sound, WorldOK
  <2>2. QED
    BY <1>1, <2>1, Finishes
<1>3. /\ AllGranted(proc[p].copy) /\ proc[p].copy \in Seq(Entry)
      /\ clock \in Nat /\ clock + 1 \in Nat
      /\ Fit(p, proc[p], stripe, faults, guessed, ended)
  BY SeenGranted, HeldRecord DEF Sound, WorldOK
<1>4. active' \subseteq Subs
  BY DEF WriteCancelled, WriteUpdated, WriteDeleted, Sound, DocOK
<1>5. CASE WriteCancelled(p)
  <2>1. PICK e \in {clock, clock + 1} :
           Overwrite(p, [i \in DOMAIN proc[p].copy |->
               IF proc[p].copy[i].key \in SamePlan(KeyOf(p)) THEN [proc[p].copy[i] EXCEPT !.expires = e]
               ELSE proc[p].copy[i]])
    BY <1>5 DEF WriteCancelled
  <2>2. /\ subs' = [i \in DOMAIN proc[p].copy |->
               IF proc[p].copy[i].key \in SamePlan(KeyOf(p)) THEN [proc[p].copy[i] EXCEPT !.expires = e]
               ELSE proc[p].copy[i]]
        /\ GhostsOK'
    <3>1. ended' = ended \cup SamePlan(KeyOf(p)) /\ ended' \subseteq Keys
      <4>1. ended' = ended \cup SamePlan(KeyOf(p)) /\ ended \subseteq Keys
        BY <1>5 DEF WriteCancelled, Sound, GhostsOK
      <4>2. QED
        BY <4>1 DEF SamePlan
    <3>2. QED
      BY <1>5, <2>1, <3>1, OverwriteSound DEF WriteCancelled
  <2>3. e \in Nat
    BY <1>3
  <2> DEFINE seen == proc[p].copy
             plan == SamePlan(KeyOf(p))
             new == Ended(seen, plan, e)
  <2>a. subs' = new /\ seen \in Seq(Entry)
    BY <1>3, <2>2 DEF Ended
  <2> HIDE DEF seen, plan
  <2>b. /\ new \in Seq(Entry) /\ DOMAIN new = DOMAIN seen
        /\ \A i \in DOMAIN seen : new[i].key = seen[i].key /\ new[i].end = seen[i].end
        /\ \A i \in DOMAIN seen : seen[i].key \notin plan => new[i] = seen[i]
    BY <2>a, <2>3, EndedSeq
  <2> HIDE DEF new
  <2>4. AllGives(new, stripe, faults, guessed, ended \cup plan)
    <3>1. AllGranted(seen)
      BY <1>3 DEF seen
    <3>2. \A i \in DOMAIN seen : new[i].expires = seen[i].expires \/ new[i].key \in plan
      BY <2>b
    <3>3. QED
      BY <2>b, <3>1, <3>2, EndedGranted
  <2>5. AllGives(subs', stripe', faults', guessed', ended')
    <3>1. stripe' = stripe /\ ended' = ended \cup plan
      BY <1>1, <1>5 DEF WriteCancelled, world, plan
    <3>2. QED
      BY <1>1, <2>a, <2>4, <3>1
  <2>6. QED
    BY <1>1, <1>2, <1>4, <2>2, <2>5, UserStep
<1>6. CASE WriteUpdated(p)
  <2>1. /\ KeyOf(p) \in Keys /\ JobOf(p).end \in Nat /\ JobOf(p).status \in StripeStatus
        /\ Gives(NewEntry(KeyOf(p), JobOf(p).end, JobOf(p).status), stripe, faults, guessed, ended)
    BY <1>1, HeldKey, HeldRecord
  <2>2. subs' = SetAndAdd(proc[p].copy, KeyOf(p), JobOf(p).end, JobOf(p).status) /\ GhostsOK'
    <3>1. ended' = ended /\ ended' \subseteq Keys
      BY <1>6 DEF WriteUpdated, Sound, GhostsOK
    <3>2. QED
      BY <1>6, <3>1, OverwriteSound DEF WriteUpdated
  <2>3. AllGranted(subs')
    BY <1>3, <2>1, <2>2, ArrayGranted
  <2>4. QED
    BY <1>1, <1>2, <1>4, <2>2, <2>3, UserStep
<1>7. CASE WriteDeleted(p)
  <2>1. proc[p].copy # <<>>
    BY <1>1, <1>3, <1>7 DEF WriteDeleted, Fit
  <2>2. subs' = [proc[p].copy EXCEPT ![1].expires = clock + 1]
    BY <1>7 DEF WriteDeleted, Overwrite
  <2>3. /\ subs' \in Seq(Entry) /\ DOMAIN subs' = DOMAIN proc[p].copy
        /\ \A i \in DOMAIN proc[p].copy :
              /\ subs'[i].key = proc[p].copy[i].key /\ subs'[i].end = proc[p].copy[i].end
              /\ i # 1 => subs'[i] = proc[p].copy[i]
        /\ 1 \in DOMAIN proc[p].copy
    BY <1>3, <2>1, <2>2, FirstEndedSeq
  <2> DEFINE K == {proc[p].copy[1].key}
  <2>a. AllGives(subs', stripe, faults, guessed, ended \cup K)
    <3>1. \A i \in DOMAIN proc[p].copy : subs'[i].expires = proc[p].copy[i].expires \/ subs'[i].key \in K
      BY <2>3
    <3>2. QED
      BY <1>3, <2>3, <3>1, EndedGranted
  <2>4. AllGives(subs', stripe', faults', guessed', ended')
    <3>1. stripe' = stripe /\ ended' = ended \cup K
      BY <1>1, <1>7 DEF WriteDeleted, world
    <3>2. QED
      BY <1>1, <2>a, <3>1
  <2>5. proc[p].copy[1].key \in Keys
    BY <1>3, <2>3, EntryOfSeq
  <2>6. GhostsOK'
    BY <1>7, <2>5 DEF WriteDeleted, Overwrite, Changed, Sound, GhostsOK
  <2>7. QED
    BY <1>1, <1>2, <1>4, <2>4, <2>6, UserStep
<1>8. QED
  BY <1>5, <1>6, <1>7

-----------------------------------------------------------------------------
\* The steps that leave the array alone.

LEMMA StillStep ==
    ASSUME Sound, UNCHANGED <<userDoc, world, collected, guessed, ended>>, faults' = faults \/ faults' = faults + 1,
           LedgerOK', GhostsOK', ProcsOK'
    PROVE  Sound'
<1>1. Later
  BY StillLater
<1>2. DocOK'
  BY <1>1, KeptSound
<1>3. WorldOK'
  BY DEF Sound, WorldOK
<1>4. QED
  BY <1>2, <1>3 DEF Sound

LEMMA StillLedger ==
    ASSUME Sound, UNCHANGED <<world, guessed, ended>>, faults' = faults \/ faults' = faults + 1
    PROVE  /\ UNCHANGED ledger => LedgerOK'
           /\ UNCHANGED ghosts => GhostsOK'
           /\ Later
<1>1. Later
  BY StillLater
<1>2. QED
  BY <1>1, KeptSound

LEMMA SavedSeq ==
    ASSUME NEW w \in Seq(Statuses)
    PROVE  [w EXCEPT ![1] = "failed"] \in Seq(Statuses)
<1>1. CASE w = <<>>
  <2>1. [w EXCEPT ![1] = "failed"] = w
    BY <1>1
  <2>2. QED
    BY <2>1
<1>2. CASE w # <<>>
  <2>1. 1 \in 1 .. Len(w) /\ "failed" \in Statuses
    BY <1>2, EmptySeq DEF Statuses
  <2>2. QED
    BY <2>1, ExceptSeq
<1>3. QED
  BY <1>1, <1>2

LEMMA LedgerSound ==
    ASSUME Sound, NEW p \in Procs,
           RecordSale(p) \/ Dedupe(p) \/ Insert(p) \/ RecordRenewal(p) \/ SaveFailed(p)
    PROVE  Sound'
<1>1. /\ proc[p].pc \in OfSub /\ proc[p].pc \notin MayLackEnd
      /\ UNCHANGED <<userDoc, world, faults, ghosts>> /\ UNCHANGED <<guessed, ended>>
  BY OfEach DEF ghosts, RecordSale, Dedupe, Insert, RecordRenewal, SaveFailed
<1>2. InvoiceOf(p) \in Invoices /\ Issued(InvoiceOf(p), stripe) /\ stripe' = stripe
  BY <1>1, HeldKey
<1>3. Later /\ GhostsOK'
  BY <1>1, StillLedger
<1>4. GoesOn(p)
  BY <1>1 DEF RecordSale, Dedupe, Insert, RecordRenewal, SaveFailed, GoesOn, OfSub, MayLackEnd
<1>5. LedgerOK'
  <2> DEFINE v == InvoiceOf(p)
  <2>1. LedgerOK /\ LookBack \in Nat
    BY BoundsAssumption DEF Sound
  <2>2. /\ [looks EXCEPT ![v] = LookBack] \in [Invoices -> 0 .. LookBack]
        /\ \A w \in Invoices : [looks EXCEPT ![v] = LookBack][w] > 0 => Issued(w, stripe)
    <3>1. v \in Invoices /\ Issued(v, stripe)
      BY <1>2
    <3> HIDE DEF v
    <3>2. \A w \in Invoices : [looks EXCEPT ![v] = LookBack][w] = IF w = v THEN LookBack ELSE looks[w]
      BY <2>1 DEF LedgerOK
    <3>3. QED
      BY <2>1, <3>1, <3>2 DEF LedgerOK
  <2>3. /\ [tx EXCEPT ![v] = Append(@, "succeeded")] \in [Invoices -> Seq(Statuses)]
        /\ [tx EXCEPT ![v] = Append(@, "failed")] \in [Invoices -> Seq(Statuses)]
    <3>1. \A w \in Seq(Statuses) : Append(w, "succeeded") \in Seq(Statuses) /\ Append(w, "failed") \in Seq(Statuses)
      BY AppendProperties DEF Statuses
    <3>2. QED
      BY <1>2, <2>1, <3>1 DEF LedgerOK
  <2>4. [tx EXCEPT ![v][1] = "failed"] \in [Invoices -> Seq(Statuses)]
    BY <1>2, <2>1, SavedSeq DEF LedgerOK
  <2> HIDE DEF v
  <2>5. /\ tx' \in [Invoices -> Seq(Statuses)]
        /\ looks' = looks \/ looks' = [looks EXCEPT ![v] = LookBack]
        /\ \A w \in Invoices \ {v} : tx'[w] = tx[w]
        /\ sales' \subseteq Invoices /\ renewed' \subseteq Invoices
    BY <1>2, <2>1, <2>3, <2>4 DEF RecordSale, Dedupe, Insert, RecordRenewal, SaveFailed, LedgerOK, v
  <2>6. \A w \in Invoices : looks'[w] > 0 \/ tx'[w] # <<>> => Issued(w, stripe)
    <3>1. v \in Invoices /\ Issued(v, stripe)
      BY <1>2 DEF v
    <3>2. \A w \in Invoices : looks'[w] > 0 => Issued(w, stripe)
      BY <2>1, <2>2, <2>5 DEF LedgerOK
    <3>3. \A w \in Invoices : tx'[w] # <<>> => Issued(w, stripe)
      BY <2>1, <2>5, <3>1 DEF LedgerOK
    <3>4. QED
      BY <3>2, <3>3
  <2>7. QED
    BY <1>2, <2>1, <2>2, <2>5, <2>6 DEF LedgerOK
<1>6. QED
  BY <1>1, <1>3, <1>4, <1>5, GoesOnSound, StillStep

\* The period comes from Stripe, or is left out after a fault.
LEMMA FetchSound ==
    ASSUME Sound, NEW p \in Handlers, Fetch(p) \/ FetchRejected(p) \/ ExtendRejected(p)
    PROVE  Sound'
<1>1. /\ UNCHANGED <<userDoc, ledger, world, ghosts>>
      /\ faults' = faults \/ faults' = faults + 1
      /\ faults \in Nat /\ p \in Procs /\ p # "sync" /\ p # "sweep"
  BY HandlersAssumption DEF Fetch, FetchRejected, ExtendRejected, Fault, Sound, WorldOK, Procs
<1>2. Later /\ LedgerOK' /\ GhostsOK'
  BY <1>1, StillLedger
<1>3. CASE ExtendRejected(p)
  <2>1. GoesOn(p)
    BY <1>3, OfEach DEF ExtendRejected, GoesOn, OfSub, MayLackEnd, At
  <2>2. QED
    BY <1>1, <1>2, <2>1, GoesOnSound, StillStep
<1>4. CASE Fetch(p) \/ FetchRejected(p)
  <2>1. proc[p].pc \in OfSub
    BY <1>4, OfEach DEF Fetch, FetchRejected
  <2>2. /\ KeyOf(p) \in Subs /\ KeyOf(p) \in Keys /\ Never \in Nat /\ stripe[KeyOf(p)].status # "none"
        /\ stripe \in [Subs -> [status : StripeStatus, end : Nat]] /\ stripe' = stripe
    BY <1>1, <2>1, HeldKey, NeverIsNat DEF Sound, WorldOK
  <2>3. \E e \in Nat, s \in StripeStatus :
           /\ Turn(p, "upsert", NewJob("checkout", KeyOf(p), e, s))
           /\ e <= stripe[KeyOf(p)].end \/ (e = Never /\ faults' > 0)
    <3>1. CASE Fetch(p)
      <4>1. /\ Turn(p, "upsert", NewJob("checkout", KeyOf(p), stripe[KeyOf(p)].end, stripe[KeyOf(p)].status))
            /\ stripe[KeyOf(p)].end \in Nat /\ stripe[KeyOf(p)].status \in StripeStatus
        BY <2>2, <3>1 DEF Fetch
      <4>2. stripe[KeyOf(p)].end <= stripe[KeyOf(p)].end
        BY <4>1
      <4>3. QED
        BY <4>1, <4>2
    <3>2. CASE FetchRejected(p)
      <4>1. /\ Turn(p, "upsert", NewJob("checkout", KeyOf(p), Never, "active"))
            /\ "active" \in StripeStatus /\ faults' > 0
        BY <1>1, <3>2 DEF FetchRejected, Fault, StripeStatus
      <4>2. QED
        BY <2>2, <4>1
    <3>3. QED
      BY <1>4, <3>1, <3>2
  <2>4. PICK e \in Nat, s \in StripeStatus :
           /\ Turn(p, "upsert", NewJob("checkout", KeyOf(p), e, s))
           /\ e <= stripe[KeyOf(p)].end \/ (e = Never /\ faults' > 0)
    BY <2>3
  <2> DEFINE j == NewJob("checkout", KeyOf(p), e, s)
  <2>5. j \in Job /\ Granted(j, stripe', faults', guessed') /\ j.key \in Subs /\ j.type = "checkout"
    BY <2>2, <2>4 DEF Job, JobTypes, EventTypes, Granted, EndOf
  <2> HIDE DEF j
  <2>6. /\ \A i \in DOMAIN proc[p].copy : Gives(proc[p].copy[i], stripe', faults', guessed', ended')
        /\ \A v \in proc[p].todo : Issued(v, stripe')
        /\ proc[p].copy \in Seq(Entry) /\ proc[p].todo \in SUBSET Invoices
    <3>1. Fit(p, proc[p], stripe', faults', guessed', ended')
      BY <1>1, <1>2, LaterFit DEF Sound, ProcsOK
    <3>2. QED
      BY <1>1, <3>1, HeldRecord DEF Fit
  <2>7. "upsert" \in PCs /\ "upsert" \in MayLackEnd /\ "upsert" \notin OfCourse /\ "upsert" # "revoke" /\ "upsert" # "write"
    BY DEF PCs, MayLackEnd, OfCourse
  <2>8. Fit(p, [pc |-> "upsert", job |-> j, copy |-> proc[p].copy, todo |-> proc[p].todo], stripe', faults', guessed', ended')
    BY <1>1, <2>5, <2>6, <2>7, FitRecord
  <2>9. Become(p, "upsert", j, proc[p].copy, proc[p].todo)
    BY <2>4 DEF Turn, j
  <2>10. QED
    BY <1>1, <1>2, <2>8, <2>9, Becomes, StillStep
<1>5. QED
  BY <1>3, <1>4

-----------------------------------------------------------------------------
\* Deliveries and requests.

\* A handler starts.
LEMMA Begins ==
    ASSUME Sound, Later, NEW p \in Procs, NEW l \in PCs, NEW j \in Job, NEW c, NEW t \in SUBSET Invoices,
           AllGranted(c), \A v \in t : Issued(v, stripe'),
           l \in OfSub \/ OfInvoice(l, j.type) => j.key \in Subs /\ Issued(<<j.key, j.end>>, stripe'),
           l \in OfCourse => j.key \in Courses,
           l = "revoke" /\ j.type = "buy" => j.key \in Keys,
           l = "write" /\ j.type = "deleted" => c # <<>>,
           p = "sync" => j.type \in {"none", "hourly", "daily"},
           p = "sweep" => j.type \in {"none", "sweep"},
           Begin(p, l, j, c, t)
    PROVE  ProcsOK'
<1>1. Become(p, l, j, c, t)
  BY DEF Begin
<1>2. c \in Seq(Entry) /\ WorldOK
  BY DEF AllGranted, Sound
<1>3. \A i \in DOMAIN c : c[i] \in Entry /\ Gives(c[i], stripe, faults, guessed, ended)
  BY <1>2, EntryOfSeq DEF AllGranted
<1>4. \A i \in DOMAIN c : Gives(c[i], stripe', faults', guessed', ended')
  BY <1>2, <1>3, LaterGives
<1>5. l \in OfSub => Granted(j, stripe', faults', guessed')
  BY DEF Granted, EndOf, Issued
<1>6. Fit(p, [pc |-> l, job |-> j, copy |-> c, todo |-> t], stripe', faults', guessed', ended')
  BY <1>2, <1>4, <1>5, FitRecord
<1>7. QED
  BY <1>1, <1>6, Becomes

LEMMA NothingGranted == AllGranted(<<>>)
BY EmptySeq DEF AllGranted

LEMMA DeliverSound ==
    ASSUME Sound, NEW h \in Handlers, NEW n \in events, Deliver(h, n)
    PROVE  Sound'
<1>1. /\ h \in Procs /\ h # "sync" /\ h # "sweep" /\ events' = events \ {n}
      /\ UNCHANGED <<userDoc, ledger, stripe, unpaid, sessions, clock, requests, declines, faults, ghosts>>
  BY HandlersAssumption DEF Deliver, Procs
<1>2. Later /\ WorldOK' /\ stripe' = stripe
  BY <1>1, StillLater DEF Sound, WorldOK
<1>3. DocOK' /\ LedgerOK' /\ GhostsOK'
  BY <1>1, <1>2, KeptSound
<1>4. /\ n \in Job /\ n.key \in Keys /\ n.end \in Nat /\ n.type \in EventTypes
      /\ n.type # "checkout" => n.key \in Subs
      /\ n.key \in Subs => <<n.key, n.end>> \in Invoices /\ Issued(<<n.key, n.end>>, stripe)
      /\ clock \in Nat /\ Never \in Nat
  BY IssuedIsInvoice, NeverIsNat DEF Sound, WorldOK, Announced, Job
<1>5. AllGranted(subs) /\ AllGranted(<<>>)
  BY SeenGranted, NothingGranted
<1>6. /\ "sale" \in PCs /\ "pull" \in PCs /\ "dedupe" \in PCs /\ "insert" \in PCs /\ "save" \in PCs /\ "write" \in PCs
      /\ "pull" \notin OfSub /\ "dedupe" \in OfSub
      /\ "sale" \notin OfCourse /\ "dedupe" \notin OfCourse /\ "insert" \notin OfCourse
      /\ "save" \notin OfCourse /\ "write" \notin OfCourse
      /\ {} \in SUBSET Invoices
  BY DEF PCs, OfSub, OfCourse
<1> DEFINE k == n.key
           v == <<n.key, n.end>>
           expiry == IF k \in Courses /\ Term[k] # Never THEN clock + Term[k] ELSE Never
<1>7. \/ n.type = "checkout" /\ k \in Subs /\ Begin(h, "sale", n, <<>>, {})
      \/ n.type = "checkout" /\ k \in Courses /\ Begin(h, "pull", [n EXCEPT !.end = expiry], <<>>, {})
      \/ n.type = "paid" /\ Begin(h, "dedupe", n, <<>>, {v} \ {w \in Invoices : w[1] \in active})
      \/ n.type = "failed" /\ Begin(h, "insert", n, <<>>, {})
      \/ n.type = "intent" /\ Begin(h, "save", n, <<>>, {})
      \/ n.type = "updated" /\ Begin(h, "write", n, subs, {})
      \/ n.type = "deleted" /\ subs # <<>> /\ Begin(h, "write", n, subs, {})
      \/ UNCHANGED proc
  BY DEF Deliver
<1>8. ProcsOK'
  <2>1. CASE n.type = "checkout" /\ k \in Subs /\ Begin(h, "sale", n, <<>>, {})
    BY <1>1, <1>2, <1>4, <1>5, <1>6, <2>1, Begins
  <2>2. CASE n.type = "checkout" /\ k \in Courses /\ Begin(h, "pull", [n EXCEPT !.end = expiry], <<>>, {})
    <3>1. expiry \in Nat
      BY <1>4, TermAssumption
    <3> HIDE DEF expiry
    <3> DEFINE j == [n EXCEPT !.end = expiry]
    <3>2. j \in Job /\ j.key = n.key /\ j.type = "checkout"
      BY <1>4, <2>2, <3>1 DEF Job
    <3> HIDE DEF j
    <3>3. Begin(h, "pull", j, <<>>, {})
      BY <2>2 DEF j
    <3>4. QED
      BY <1>1, <1>2, <1>5, <1>6, <2>2, <3>2, <3>3, Begins
  <2>3. CASE n.type = "paid" /\ Begin(h, "dedupe", n, <<>>, {v} \ {w \in Invoices : w[1] \in active})
    <3> DEFINE t == {v} \ {w \in Invoices : w[1] \in active}
    <3>1. t \in SUBSET Invoices /\ \A w \in t : Issued(w, stripe')
      BY <1>2, <1>4, <2>3
    <3> HIDE DEF t
    <3>2. Begin(h, "dedupe", n, <<>>, t)
      BY <2>3 DEF t
    <3>3. n.key \in Subs /\ Issued(<<n.key, n.end>>, stripe')
      BY <1>2, <1>4, <2>3
    <3>4. QED
      BY <1>1, <1>2, <1>4, <1>5, <1>6, <2>3, <3>1, <3>2, <3>3, Begins
  <2>4. CASE n.type = "failed" /\ Begin(h, "insert", n, <<>>, {})
    BY <1>1, <1>2, <1>4, <1>5, <1>6, <2>4, Begins
  <2>5. CASE n.type = "intent" /\ Begin(h, "save", n, <<>>, {})
    BY <1>1, <1>2, <1>4, <1>5, <1>6, <2>5, Begins
  <2>6. CASE n.type = "updated" /\ Begin(h, "write", n, subs, {})
    BY <1>1, <1>2, <1>4, <1>5, <1>6, <2>6, Begins
  <2>7. CASE n.type = "deleted" /\ subs # <<>> /\ Begin(h, "write", n, subs, {})
    BY <1>1, <1>2, <1>4, <1>5, <1>6, <2>7, Begins
  <2>8. CASE UNCHANGED proc
    BY <1>2, <2>8, KeptSound
  <2>9. QED
    BY <1>7, <2>1, <2>2, <2>3, <2>4, <2>5, <2>6, <2>7, <2>8
<1>9. QED
  BY <1>2, <1>3, <1>8 DEF Sound

LEMMA HeldGranted ==
    ASSUME NEW seq, AllGranted(seq), NEW s \in Subs, Holds(seq, s)
    PROVE  stripe[s].status # "none"
BY DEF AllGranted, Gives, Granted, Holds

\* The keys of the subscriptions of a plan, as invoices of no period.
LEMMA NoPeriod ==
    ASSUME Sound, NEW T \in SUBSET Subs, \A s \in T : stripe[s].status # "none"
    PROVE  {<<s, 0>> : s \in T} \in SUBSET Invoices /\ \A v \in {<<s, 0>> : s \in T} : Issued(v, stripe)
BY NeverIsNat DEF Invoices, Issued, Sound, WorldOK

LEMMA RequestSound ==
    ASSUME Sound, NEW h \in Handlers, NEW k \in Keys, Buy(h, k) \/ Cancel(h, k)
    PROVE  Sound'
<1>1. /\ h \in Procs /\ h # "sync" /\ h # "sweep" /\ requests' = requests + 1 /\ sessions' \subseteq Keys
      /\ UNCHANGED <<userDoc, ledger, stripe, unpaid, events, clock, declines, faults, ghosts>>
  BY HandlersAssumption DEF Buy, Cancel, Request, Procs, Sound, WorldOK
<1>2. Later /\ WorldOK' /\ stripe' = stripe
  BY <1>1, StillLater DEF Sound, WorldOK
<1>3. DocOK' /\ LedgerOK' /\ GhostsOK'
  BY <1>1, <1>2, KeptSound
<1>4. AllGranted(subs) /\ AllGranted(<<>>)
  BY SeenGranted, NothingGranted
<1>5. /\ "revoke" \in PCs /\ "pull" \in PCs /\ "revoke" \notin OfSub /\ "pull" \notin OfSub /\ "revoke" \notin OfCourse
      /\ NewJob("buy", k, 0, "none") \in Job /\ NewJob("cancel", k, 0, "none") \in Job
      /\ {} \in SUBSET Invoices
  BY DEF PCs, OfSub, OfCourse, Job, JobTypes, StripeStatus
<1>6. ProcsOK'
  <2>1. CASE Buy(h, k)
    <3> DEFINE old == Only(subs, SamePlan(k))
               T == {j \in Subs : Holds(old, j)}
               t == {<<s, 0>> : s \in T}
    <3>1. UNCHANGED proc \/ Begin(h, "revoke", NewJob("buy", k, 0, "none"), subs, t)
      BY <2>1 DEF Buy
    <3>a. old = Selected(subs, {i \in DOMAIN subs : subs[i].key \in SamePlan(k)})
      BY DEF Only
    <3>b. AllGranted(old)
      BY <1>4, <3>a, SelectedGranted
    <3>c. \A s \in T : stripe[s].status # "none"
      BY <3>b, HeldGranted
    <3>2. t \in SUBSET Invoices /\ \A v \in t : Issued(v, stripe')
      BY <1>2, <3>c, NoPeriod
    <3> HIDE DEF t
    <3>3. CASE UNCHANGED proc
      BY <1>2, <3>3, KeptSound
    <3>4. CASE Begin(h, "revoke", NewJob("buy", k, 0, "none"), subs, t)
      BY <1>1, <1>2, <1>4, <1>5, <3>2, <3>4, Begins
    <3>5. QED
      BY <3>1, <3>3, <3>4
  <2>2. CASE Cancel(h, k) /\ k \in Subs
    <3> DEFINE t == {<<k, 0>>}
    <3>1. Begin(h, "revoke", NewJob("cancel", k, 0, "none"), subs, t)
      BY <2>2 DEF Cancel
    <3>2. t = {<<s, 0>> : s \in {k}}
      OBVIOUS
    <3>a. stripe[k].status # "none"
      BY <1>4, <2>2, HeldGranted DEF Cancel
    <3>3. t \in SUBSET Invoices /\ \A v \in t : Issued(v, stripe')
      <4>1. {k} \in SUBSET Subs /\ \A s \in {k} : stripe[s].status # "none"
        BY <2>2, <3>a
      <4>2. {<<s, 0>> : s \in {k}} \in SUBSET Invoices /\ \A v \in {<<s, 0>> : s \in {k}} : Issued(v, stripe)
        BY <4>1, NoPeriod
      <4>3. QED
        BY <1>2, <3>2, <4>2
    <3>b. Issued(<<k, 0>>, stripe')
      BY <1>2, <3>2, <3>3
    <3> HIDE DEF t
    <3>4. QED
      BY <1>1, <1>2, <1>4, <1>5, <2>2, <3>1, <3>3, <3>b, Begins
  <2>3. CASE Cancel(h, k) /\ k \notin Subs
    <3>1. Begin(h, "pull", NewJob("cancel", k, 0, "none"), <<>>, {}) /\ k \in Courses
      BY <2>3 DEF Cancel, Keys
    <3>2. QED
      BY <1>1, <1>2, <1>4, <1>5, <3>1, Begins
  <2>4. QED
    BY <2>1, <2>2, <2>3
<1>7. QED
  BY <1>2, <1>3, <1>6 DEF Sound

\* Stripe cancels, and announces it.
LEMMA CancelSound ==
    ASSUME Sound, NEW s \in Subs, CancelAtStripe(s),
           UNCHANGED <<unpaid, sessions, clock, requests, declines, faults, collected, guessed, ended>>
    PROVE  Later /\ WorldOK'
<1>1. WorldOK /\ stripe[s].end \in Nat /\ stripe[s].end <= clock + 1
  BY DEF Sound, WorldOK
<1>2. CASE UNCHANGED <<stripe, events>>
  BY <1>2, StillLater DEF Sound, WorldOK
<1>3. CASE ~UNCHANGED <<stripe, events>>
  <2>1. /\ stripe' = [stripe EXCEPT ![s].status = "canceled"]
        /\ events' = events \cup {NewJob("deleted", s, stripe[s].end, "canceled")}
    BY <1>3 DEF CancelAtStripe
  <2>2. /\ stripe' \in [Subs -> [status : StripeStatus, end : Nat]]
        /\ stripe'[s].end = stripe[s].end /\ stripe'[s].status # "none"
        /\ \A r \in Subs \ {s} : stripe'[r] = stripe[r]
        /\ "deleted" \in EventTypes /\ "canceled" \in StripeStatus
    BY <1>1, <2>1 DEF WorldOK, StripeStatus, EventTypes
  <2>3. Later /\ \A r \in Subs : stripe'[r].end <= clock + 1
    BY <1>1, <2>2, StripeChanges
  <2>4. Announced(NewJob("deleted", s, stripe[s].end, "canceled"), stripe')
    BY <1>1, <2>2, NewEvent
  <2>5. \A n \in events' : Announced(n, stripe')
    BY <1>1, <2>1, <2>3, <2>4, LaterAnnounced DEF WorldOK
  <2>6. \A v \in unpaid \cup collected : Issued(v, stripe')
    BY <1>1, <2>3, LaterIssued DEF WorldOK
  <2>7. QED
    BY <1>1, <2>2, <2>3, <2>5, <2>6 DEF WorldOK
<1>4. QED
  BY <1>2, <1>3
\* The same record with fewer things to do.
LEMMA LeftSound ==
    ASSUME Sound, Later, NEW p \in Procs, NEW t \in SUBSET proc[p].todo, Left(p, t)
    PROVE  ProcsOK'
<1>1. Fit(p, proc[p], stripe', faults', guessed', ended')
  BY LaterFit DEF Sound, ProcsOK
<1>2. Fit(p, [pc |-> proc[p].pc, job |-> JobOf(p), copy |-> proc[p].copy, todo |-> t], stripe', faults', guessed', ended')
  BY <1>1 DEF Fit, ProcRecords
<1>3. QED
  BY <1>2, Becomes DEF Left

LEMMA RevokeSound ==
    ASSUME Sound, NEW p \in Procs, NEW s \in Subs, Revoke(p, s) \/ RevokeRejected(p, s)
    PROVE  Sound'
<1>1. proc[p].pc = "revoke" /\ UNCHANGED <<userDoc, ledger, ghosts>>
  BY DEF Revoke, RevokeRejected, At
<1>2. CASE Revoke(p, s)
  <2>1. CancelAtStripe(s) /\ UNCHANGED <<unpaid, sessions, clock, requests, declines, faults, collected, guessed, ended>>
    BY <1>2 DEF Revoke
  <2>2. Later /\ WorldOK'
    BY <2>1, CancelSound
  <2>3. DocOK' /\ LedgerOK' /\ GhostsOK'
    BY <1>1, <2>2, KeptSound
  <2>4. CASE JobOf(p).type # "cancel"
    <3>1. Left(p, proc[p].todo \ {<<s, 0>>})
      BY <1>2, <2>4 DEF Revoke
    <3>2. ProcsOK'
      BY <2>2, <3>1, LeftSound
    <3>3. QED
      BY <2>2, <2>3, <3>2 DEF Sound
  <2>5. CASE JobOf(p).type = "cancel" /\ stripe[s].status = "canceled"
    <3>1. Finish(p)
      BY <1>2, <2>5 DEF Revoke
    <3>2. ProcsOK'
      BY <2>2, <3>1, Finishes
    <3>3. QED
      BY <2>2, <2>3, <3>2 DEF Sound
  <2>6. CASE JobOf(p).type = "cancel" /\ stripe[s].status # "canceled"
    <3>1. Become(p, "write", JobOf(p), proc[p].copy, {})
      BY <1>2, <2>6 DEF Revoke
    <3>2. /\ JobOf(p) \in Job /\ proc[p].copy \in Seq(Entry)
          /\ Fit(p, proc[p], stripe', faults', guessed', ended')
      BY <2>2, LaterFit, HeldRecord DEF Sound, ProcsOK
    <3>3. /\ KeyOf(p) \in Subs /\ JobOf(p).type = "cancel" /\ Issued(<<KeyOf(p), JobOf(p).end>>, stripe')
          /\ p # "sync" /\ p # "sweep"
      BY <1>1, <2>6, <3>2 DEF Fit
    <3>4. Granted(JobOf(p), stripe', faults', guessed')
      BY <3>3 DEF Granted, Issued, EndOf
    <3>5. /\ "write" \in PCs /\ "write" \notin OfCourse /\ {} \in SUBSET Invoices
          /\ \A i \in DOMAIN proc[p].copy : Gives(proc[p].copy[i], stripe', faults', guessed', ended')
      BY <3>2 DEF PCs, OfCourse, Fit
    <3>6. Fit(p, [pc |-> "write", job |-> JobOf(p), copy |-> proc[p].copy, todo |-> {}], stripe', faults', guessed', ended')
      BY <3>2, <3>3, <3>4, <3>5, FitRecord
    <3>7. ProcsOK'
      BY <2>2, <3>1, <3>6, Becomes
    <3>8. QED
      BY <2>2, <2>3, <3>7 DEF Sound
  <2>7. QED
    BY <2>4, <2>5, <2>6
<1>3. CASE RevokeRejected(p, s)
  <2>1. UNCHANGED world /\ faults' = faults + 1 /\ Left(p, proc[p].todo \ {<<s, 0>>})
    BY <1>3 DEF RevokeRejected, Fault
  <2>2. Later /\ LedgerOK' /\ GhostsOK'
    BY <1>1, <2>1, StillLedger
  <2>3. ProcsOK'
    BY <2>1, <2>2, LeftSound
  <2>4. QED
    BY <1>1, <2>1, <2>2, <2>3, StillStep
<1>4. QED
  BY <1>2, <1>3

LEMMA CleanUpSound ==
    ASSUME Sound, NEW h \in Procs, CleanUp(h)
    PROVE  Sound'
<1>1. /\ proc[h].pc = "revoke" /\ JobOf(h).type = "buy" /\ Finish(h)
      /\ sessions' = sessions \cup {KeyOf(h)}
      /\ UNCHANGED <<ledger, stripe, unpaid, events, clock, requests, declines, faults,
                     ended, guessed, echoed, owned, collected, dropped>>
  BY DEF CleanUp, At
<1>2. KeyOf(h) \in Keys
  BY <1>1, HeldRecord DEF Fit
<1>3. Later /\ WorldOK'
  BY <1>1, <1>2, StillLater DEF Sound, WorldOK
<1>4. LedgerOK' /\ ProcsOK'
  BY <1>1, <1>3, KeptSound, Finishes
<1>5. GhostsOK'
  BY <1>1 DEF CleanUp, SamePlan, Sound, GhostsOK
<1>6. subs' = Selected(subs, {i \in DOMAIN subs : subs[i].key \notin SamePlan(KeyOf(h))}) /\ active' \subseteq Subs
  BY DEF CleanUp, Without, Sound, DocOK
<1>7. AllGranted(subs')
  BY <1>6, SeenGranted, SelectedGranted
<1>8. DocOK'
  BY <1>1, <1>6, <1>7 DEF AllGranted, DocOK
<1>9. QED
  BY <1>3, <1>4, <1>5, <1>8 DEF Sound

-----------------------------------------------------------------------------
\* The jobs.

LEMMA SweepSound ==
    ASSUME Sound, SweepStart \/ SweepWrite
    PROVE  Sound'
<1>1. "sweep" \in Procs /\ UNCHANGED <<ledger, world, faults, collected, guessed, ended>>
  BY DEF SweepStart, SweepWrite, Procs
<1>2. Later /\ stripe' = stripe
  BY <1>1, StillLater
<1>3. CASE SweepStart
  <2> DEFINE T == {j \in Subs : \E i \in DOMAIN subs : subs[i].key = j /\ Lapsed(subs[i], clock)}
             t == {<<s, 0>> : s \in T}
  <2>1. Begin("sweep", "revoke", NewJob("sweep", NoKey, clock, "none"), subs, t) /\ UNCHANGED <<userDoc, ghosts>>
    BY <1>3 DEF SweepStart
  <2>a. \A s \in T : stripe[s].status # "none"
    BY SeenGranted DEF AllGranted, Gives, Granted
  <2>2. t \in SUBSET Invoices /\ \A v \in t : Issued(v, stripe')
    BY <1>2, <2>a, NoPeriod
  <2> HIDE DEF t
  <2>3. NewJob("sweep", NoKey, clock, "none") \in Job /\ "revoke" \in PCs /\ "revoke" \notin OfSub /\ "revoke" \notin OfCourse
    BY DEF Job, JobTypes, PCs, OfSub, OfCourse, StripeStatus, Sound, WorldOK
  <2>4. ProcsOK'
    BY <1>1, <1>2, <2>1, <2>2, <2>3, SeenGranted, Begins
  <2>5. LedgerOK' /\ GhostsOK'
    BY <1>1, <2>1, StillLedger
  <2>6. QED
    BY <1>1, <2>1, <2>4, <2>5, StillStep
<1>4. CASE SweepWrite
  <2> DEFINE seen == proc["sweep"].copy
             I == {i \in DOMAIN seen : ~Lapsed(seen[i], JobOf("sweep").end)}
  <2>1. Overwrite("sweep", Selected(seen, I)) /\ Finish("sweep") /\ active' \subseteq active
    BY <1>4 DEF SweepWrite
  <2>2. UNCHANGED <<ended, guessed, echoed, owned, collected, dropped>> /\ ended' \subseteq Keys
    BY <1>4 DEF SweepWrite, Sound, GhostsOK
  <2>3. subs' = Selected(seen, I) /\ GhostsOK'
    BY <1>1, <2>1, <2>2, OverwriteSound
  <2>4. I \in SUBSET DOMAIN seen /\ AllGranted(seen)
    BY <1>1, SeenGranted
  <2> HIDE DEF I
  <2>5. AllGranted(subs')
    BY <2>3, <2>4, SelectedGranted
  <2>6. ProcsOK'
    BY <1>1, <1>2, <2>1, Finishes
  <2>7. active' \subseteq Subs
    BY <2>1 DEF Sound, DocOK
  <2>8. QED
    BY <1>1, <1>2, <2>3, <2>5, <2>6, <2>7, UserStep
<1>5. QED
  BY <1>3, <1>4

\* Back to the loop over the transactions.
LEMMA NextSound ==
    ASSUME Sound, Later, NextTransaction
    PROVE  ProcsOK'
<1>1. "sync" \in Procs /\ JobOf("sync").type \in JobTypes /\ proc["sync"].todo \in SUBSET Invoices
  BY HeldRecord DEF Procs
<1> DEFINE j == NewJob(JobOf("sync").type, NoKey, 0, "active")
<1>2. j \in Job /\ j.type \in {"none", "hourly", "daily"} /\ "each" \in PCs /\ "each" \notin OfSub /\ "each" \notin OfCourse
  BY <1>1, HeldRecord DEF Job, PCs, OfSub, OfCourse, StripeStatus
<1> HIDE DEF j
<1>3. \A v \in proc["sync"].todo : Issued(v, stripe')
  BY <1>1, HeldRecord, LaterIssued DEF Sound
<1>4. \A i \in DOMAIN <<>> : Gives(<<>>[i], stripe', faults', guessed', ended')
  OBVIOUS
<1>5. Fit("sync", [pc |-> "each", job |-> j, copy |-> <<>>, todo |-> proc["sync"].todo], stripe', faults', guessed', ended')
  BY <1>1, <1>2, <1>3, <1>4, EmptySeq, FitRecord
<1>6. QED
  BY <1>1, <1>5, Becomes DEF NextTransaction, j
\* What the synchronisation does to the array.
LEMMA SyncArraySound ==
    ASSUME Sound, SyncApply \/ SyncAdd \/ SyncWrite \/ \E v \in Invoices : SyncAdjust(v)
    PROVE  Sound'
<1>1. "sync" \in Procs /\ UNCHANGED <<ledger, world, faults, collected, guessed, ended>>
  BY DEF SyncApply, SyncAdd, SyncWrite, SyncAdjust, Procs
<1>2. Later
  BY <1>1, StillLater
<1>3. AllGranted(subs) /\ AllGranted(proc["sync"].copy) /\ "active" \in StripeStatus
  BY <1>1, SeenGranted DEF StripeStatus
<1>4. CASE SyncApply \/ SyncAdd \/ SyncWrite
  <2>1. proc["sync"].pc \in OfSub
    BY <1>4, OfEach DEF SyncApply, SyncAdd, SyncWrite
  <2>2. /\ KeyOf("sync") \in Subs /\ KeyOf("sync") \in Keys /\ JobOf("sync").end \in Nat
        /\ Gives(NewEntry(KeyOf("sync"), JobOf("sync").end, "active"), stripe, faults, guessed, ended)
    BY <1>1, <2>1, HeldKey, HeldRecord
  <2>3. /\ Holds(subs, KeyOf("sync")) => AllGranted(SetFirst(subs, KeyOf("sync"), JobOf("sync").end, "active"))
        /\ AllGranted(Append(subs, NewEntry(KeyOf("sync"), JobOf("sync").end, "active")))
        /\ AllGranted(SetOrAdd(proc["sync"].copy, KeyOf("sync"), JobOf("sync").end, "active"))
    BY <1>3, <2>2, ArrayGranted
  <2>4. AllGranted(subs')
    BY <1>3, <1>4, <2>3 DEF SyncApply, SyncAdd, SyncWrite, PushUnguarded, Overwrite
  <2>5. active' \subseteq Subs
    BY <1>4, <2>2 DEF SyncApply, SyncAdd, SyncWrite, Sound, DocOK
  <2>6. GhostsOK'
    BY <1>4, <2>2 DEF SyncApply, SyncAdd, SyncWrite, PushUnguarded, Overwrite, Changed, NewEntry, Sound, GhostsOK
  <2>7. NextTransaction \/ Goto("sync", "force")
    BY <1>4 DEF SyncApply, SyncAdd, SyncWrite
  <2>8. CASE NextTransaction
    BY <1>1, <1>2, <2>4, <2>5, <2>6, <2>8, NextSound, UserStep
  <2>9. CASE Goto("sync", "force")
    <3>1. "force" \in OfSub \ {"write"} /\ "force" \in MayLackEnd
      BY DEF OfSub, MayLackEnd
    <3>2. ProcsOK'
      BY <1>1, <1>2, <2>1, <2>9, <3>1, Goes
    <3>3. QED
      BY <1>1, <1>2, <2>4, <2>5, <2>6, <3>2, UserStep
  <2>10. QED
    BY <2>7, <2>8, <2>9
<1>5. ASSUME NEW v \in Invoices, SyncAdjust(v) PROVE Sound'
  <2>1. /\ v \in proc["sync"].todo /\ Left("sync", proc["sync"].todo \ {v}) /\ UNCHANGED <<active, ghosts>>
        /\ subs' \in {subs, SetFirst(subs, v[1], v[2], "active")}
        /\ subs' # subs => Holds(subs, v[1])
    BY <1>5 DEF SyncAdjust
  <2>2. /\ v[1] \in Subs /\ v[1] \in Keys /\ v[2] \in Nat
        /\ Issued(v, stripe)
    BY <1>1, <2>1, HeldRecord, NeverIsNat DEF Invoices, Keys
  <2>3. Gives(NewEntry(v[1], v[2], "active"), stripe, faults, guessed, ended)
    BY <2>2 DEF Granted, Gives, EndOf, NewEntry, Issued
  <2>4. Holds(subs, v[1]) => AllGranted(SetFirst(subs, v[1], v[2], "active"))
    BY <1>3, <2>2, <2>3, ArrayGranted
  <2>5. AllGranted(subs')
    BY <1>3, <2>1, <2>4
  <2>6. ProcsOK'
    BY <1>1, <1>2, <2>1, LeftSound
  <2>7. active' \subseteq Subs /\ GhostsOK'
    BY <2>1 DEF Sound, DocOK, GhostsOK
  <2>8. QED
    BY <1>1, <1>2, <2>5, <2>6, <2>7, UserStep
<1>6. QED
  BY <1>4, <1>5

\* The other steps of the synchronisation.
LEMMA SyncSound ==
    ASSUME Sound,
           \/ \E kind \in {"hourly", "daily"} : SyncStart(kind)
           \/ \E v \in Invoices : SyncRead(v)
           \/ SyncForce \/ SyncLoaded \/ SyncList \/ SyncDone
    PROVE  Sound'
<1>1. "sync" \in Procs /\ "sync" # "sweep" /\ UNCHANGED <<userDoc, world, faults, collected>>
  BY DEF SyncStart, SyncRead, SyncForce, SyncLoaded, SyncList, SyncDone, Procs
<1>2. stripe' = stripe /\ faults' = faults
  BY <1>1
<1>a. UNCHANGED ghosts => Later /\ GhostsOK' /\ UNCHANGED <<guessed, ended>>
  BY <1>1, StillLater, StillLedger
<1>3. /\ AllGranted(subs) /\ AllGranted(proc["sync"].copy) /\ AllGranted(<<>>) /\ "active" \in StripeStatus
      /\ JobOf("sync") \in Job /\ JobOf("sync").type \in {"none", "hourly", "daily"} /\ "sync" # "sweep"
      /\ JobOf("sync").end \in Nat
      /\ proc["sync"].todo \in SUBSET Invoices /\ \A v \in proc["sync"].todo : Issued(v, stripe)
  BY <1>1, SeenGranted, HeldRecord, NothingGranted DEF StripeStatus
<1>4. ASSUME NEW kind \in {"hourly", "daily"}, SyncStart(kind) PROVE Sound'
  <2>1. /\ Begin("sync", "each", NewJob(kind, NoKey, 0, "active"), <<>>, Load(kind))
        /\ looks' = [v \in Invoices |-> IF v \in Recent(kind) THEN looks[v] - 1 ELSE looks[v]]
        /\ UNCHANGED <<tx, sales, renewed>> /\ UNCHANGED ghosts
    BY <1>4 DEF SyncStart
  <2>0. Later /\ GhostsOK' /\ UNCHANGED <<guessed, ended>>
    BY <1>a, <2>1
  <2>2. \A v \in Recent(kind) : v \in Invoices /\ looks[v] > 0
    BY DEF Recent
  <2>3. Load(kind) \in SUBSET Invoices /\ \A v \in Load(kind) : Issued(v, stripe')
    <3> SUFFICES ASSUME NEW v \in Load(kind) PROVE v \in Invoices /\ Issued(v, stripe')
      OBVIOUS
    <3>1. \A w \in Recent(kind) : w \in Invoices /\ Issued(w, stripe')
      BY <1>2, <2>2 DEF Sound, LedgerOK
    <3>2. v \in Recent(kind) \/ \E w \in Recent(kind) : v = <<w[1], 0>>
      BY DEF Load
    <3>3. \A w \in Recent(kind) : <<w[1], 0>> \in Invoices /\ Issued(<<w[1], 0>>, stripe')
      BY <1>2, <3>1, NeverIsNat DEF Invoices, Issued, Sound, WorldOK
    <3>4. QED
      BY <3>1, <3>2, <3>3
  <2>4. \A v \in Invoices : looks'[v] \in 0 .. LookBack /\ (looks'[v] > 0 => looks[v] > 0)
    <3>1. \A v \in Invoices : looks[v] \in 0 .. LookBack /\ LookBack \in Nat
      BY BoundsAssumption DEF Sound, LedgerOK
    <3>2. QED
      BY <2>1, <2>2, <3>1
  <2>5. LedgerOK'
    BY <1>2, <2>1, <2>4 DEF Sound, LedgerOK
  <2>6. NewJob(kind, NoKey, 0, "active") \in Job /\ "each" \in PCs /\ "each" \notin OfSub /\ "each" \notin OfCourse
    BY <1>3 DEF Job, JobTypes, PCs, OfSub, OfCourse
  <2>7. ProcsOK'
    BY <1>1, <1>2, <2>0, <1>3, <2>1, <2>3, <2>6, Begins
  <2>8. QED
    BY <1>1, <1>2, <2>0, <2>5, <2>7, StillStep
<1>5. ASSUME NEW v \in Invoices, SyncRead(v) PROVE Sound'
  <2>1. PICK e \in Ends(v), ahead \in BOOLEAN, l \in {"apply", "add"} :
           /\ Become("sync", IF ahead THEN "each" ELSE l,
                     NewJob(JobOf("sync").type, IF ahead THEN NoKey ELSE v[1], IF ahead THEN 0 ELSE e, "active"),
                     <<>>, proc["sync"].todo \ {v})
           /\ guessed' = guessed \cup {s \in {v[1]} : v[2] = 0 /\ ~ahead}
    BY <1>5 DEF SyncRead
  <2>2. v \in proc["sync"].todo /\ UNCHANGED ledger /\ UNCHANGED <<clobbered, ended, echoed, owned, collected, dropped>>
    BY <1>5 DEF SyncRead
  <2>3. v[1] \in Subs /\ v[1] \in Keys /\ v[2] \in Nat /\ v = <<v[1], v[2]>> /\ Issued(v, stripe)
    BY <1>3, <2>2, NeverIsNat DEF Invoices, Keys
  <2>0. Later /\ GhostsOK'
    BY <1>1, <1>2, <2>1, <2>2, <2>3 DEF Sound, WorldOK, Later, GhostsOK
  <2>4. DocOK' /\ LedgerOK' /\ WorldOK'
    BY <1>1, <2>0, <2>2, KeptSound
  <2> DEFINE pc == IF ahead THEN "each" ELSE l
             j == NewJob(JobOf("sync").type, IF ahead THEN NoKey ELSE v[1], IF ahead THEN 0 ELSE e, "active")
  <2>5. e \in Nat /\ (v[2] # 0 => e = v[2])
    BY <2>3 DEF Ends, Sound, WorldOK
  <2>6. /\ j \in Job /\ j.type = JobOf("sync").type
        /\ ~ahead => j.key \in Subs /\ Granted(j, stripe', faults', guessed')
    <3>1. j \in Job /\ j.type = JobOf("sync").type
      BY <1>3, <2>3, <2>5 DEF Job
    <3>2. ASSUME ~ahead PROVE j.key \in Subs /\ Granted(j, stripe', faults', guessed')
      <4>1. j.key = v[1] /\ j.end = e
        BY <3>2
      <4>2. stripe'[v[1]].status # "none" /\ (e <= stripe'[v[1]].end \/ v[1] \in guessed')
        BY <1>2, <2>1, <2>3, <2>5, <3>2 DEF Issued
      <4>3. QED
        BY <2>3, <4>1, <4>2 DEF Granted, EndOf
    <3>3. QED
      BY <3>1, <3>2
  <2>7. /\ pc \in PCs /\ pc \notin OfCourse /\ pc # "revoke" /\ pc # "write"
        /\ pc \in OfSub => ~ahead
        /\ pc \notin OfSub \ MayLackEnd
    BY DEF PCs, OfCourse, OfSub, MayLackEnd
  <2>8. proc["sync"].todo \ {v} \in SUBSET Invoices /\ \A w \in proc["sync"].todo \ {v} : Issued(w, stripe')
    BY <1>2, <1>3
  <2>9. Become("sync", pc, j, <<>>, proc["sync"].todo \ {v})
    BY <2>1
  <2> HIDE DEF j, pc
  <2>10. ~OfInvoice(pc, j.type) /\ <<>> \in Seq(Entry)
         /\ \A i \in DOMAIN <<>> : Gives(<<>>[i], stripe', faults', guessed', ended')
    BY <1>3, <2>6, <2>7, EmptySeq
  <2>11. Fit("sync", [pc |-> pc, job |-> j, copy |-> <<>>, todo |-> proc["sync"].todo \ {v}], stripe', faults', guessed', ended')
    BY <1>1, <1>3, <2>6, <2>7, <2>8, <2>10, FitRecord
  <2>12. ProcsOK'
    BY <1>1, <2>0, <2>9, <2>11, Becomes
  <2>13. QED
    BY <2>0, <2>4, <2>12 DEF Sound
<1>6. CASE SyncForce \/ SyncLoaded \/ SyncList \/ SyncDone
  <2>0. Later /\ GhostsOK' /\ UNCHANGED <<guessed, ended>>
    <3>1. UNCHANGED ghosts
      BY <1>6 DEF SyncForce, SyncLoaded, SyncList, SyncDone
    <3>2. QED
      BY <1>a, <3>1
  <2>1. LedgerOK' /\ UNCHANGED ledger
    BY <1>1, <1>6, <2>0, StillLedger DEF SyncForce, SyncLoaded, SyncList, SyncDone
  <2> DEFINE t == {<<s, stripe[s].end>> : s \in {j \in Subs : stripe[j].status = "active"}}
  <2>2. \/ Finish("sync")
        \/ proc["sync"].pc = "force" /\ Become("sync", "write", JobOf("sync"), subs, proc["sync"].todo)
        \/ Become("sync", "list", JobOf("sync"), subs, {})
        \/ Become("sync", "adjust", JobOf("sync"), proc["sync"].copy, t)
    BY <1>6 DEF SyncForce, SyncLoaded, SyncList, SyncDone, At
  <2>3. t \in SUBSET Invoices /\ \A v \in t : Issued(v, stripe')
    <3>1. \A s \in Subs : stripe[s].end \in 0 .. MaxClock + 1
      BY NeverIsNat DEF Sound, WorldOK
    <3>2. QED
      BY <1>2, <3>1 DEF Invoices, Issued
  <2> HIDE DEF t
  <2>4. /\ \A i \in DOMAIN subs : Gives(subs[i], stripe', faults', guessed', ended')
        /\ \A i \in DOMAIN proc["sync"].copy : Gives(proc["sync"].copy[i], stripe', faults', guessed', ended')
        /\ subs \in Seq(Entry) /\ proc["sync"].copy \in Seq(Entry)
    BY <1>2, <1>3, <2>0 DEF AllGranted
  <2>5. /\ {} \in SUBSET Invoices /\ \A l \in {"write", "list", "adjust"} : l \in PCs /\ l \notin OfCourse
        /\ "list" \notin OfSub /\ "adjust" \notin OfSub /\ "write" \in MayLackEnd
    BY DEF PCs, OfCourse, OfSub, MayLackEnd
  <2>6. ProcsOK'
    <3>1. CASE Finish("sync")
      BY <1>1, <1>2, <2>0, <3>1, Finishes
    <3>2. CASE proc["sync"].pc = "force" /\ Become("sync", "write", JobOf("sync"), subs, proc["sync"].todo)
      <4>1. JobOf("sync").key \in Subs /\ Granted(JobOf("sync"), stripe', faults', guessed')
        BY <1>1, <1>2, <2>0, <3>2, HeldRecord DEF Fit, OfSub
      <4>2. Fit("sync", [pc |-> "write", job |-> JobOf("sync"), copy |-> subs, todo |-> proc["sync"].todo],
                stripe', faults', guessed', ended')
        BY <1>1, <1>2, <1>3, <2>4, <2>5, <4>1, FitRecord
      <4>3. QED
        BY <1>1, <1>2, <2>0, <3>2, <4>2, Becomes
    <3>3. CASE Become("sync", "list", JobOf("sync"), subs, {})
      <4>1. Fit("sync", [pc |-> "list", job |-> JobOf("sync"), copy |-> subs, todo |-> {}], stripe', faults', guessed', ended')
        BY <1>1, <1>3, <2>4, <2>5, FitRecord
      <4>2. QED
        BY <1>1, <1>2, <2>0, <3>3, <4>1, Becomes
    <3>4. CASE Become("sync", "adjust", JobOf("sync"), proc["sync"].copy, t)
      <4>1. Fit("sync", [pc |-> "adjust", job |-> JobOf("sync"), copy |-> proc["sync"].copy, todo |-> t],
                stripe', faults', guessed', ended')
        BY <1>1, <1>3, <2>3, <2>4, <2>5, FitRecord
      <4>2. QED
        BY <1>1, <1>2, <2>0, <3>4, <4>1, Becomes
    <3>5. QED
      BY <2>2, <3>1, <3>2, <3>3, <3>4
  <2>7. QED
    BY <1>1, <1>2, <2>0, <2>1, <2>6, StillStep
<1>7. QED
  BY <1>4, <1>5, <1>6

-----------------------------------------------------------------------------

LEMMA FaultSound ==
    ASSUME Sound, Crash \/ \E p \in Procs : CallRejected(p)
    PROVE  Sound'
<1>1. UNCHANGED <<userDoc, ledger, world, collected, clobbered, ended, guessed, echoed, owned>> /\ faults' = faults + 1
  BY DEF Crash, CallRejected, Fault
<1>2. Later /\ LedgerOK'
  BY <1>1, StillLedger
<1>3. ASSUME NEW p \in Procs PROVE Unpaid(p) \subseteq Invoices
  <2>1. JobOf(p).type = "paid" => InvoiceOf(p) \in Invoices
    BY HeldRecord, IssuedIsInvoice DEF Sound, Fit
  <2>2. QED
    BY <2>1 DEF Unpaid
<1>4. GhostsOK'
  <2>1. dropped' \subseteq Invoices
    BY <1>3 DEF Crash, CallRejected, Sound, GhostsOK
  <2>2. QED
    BY <1>1, <2>1 DEF Sound, GhostsOK
<1>5. ProcsOK'
  <2>1. ASSUME NEW p \in Procs, CallRejected(p) PROVE ProcsOK'
    BY <1>2, <2>1, Finishes DEF CallRejected
  <2>2. CASE Crash
    BY <2>2, FitIdle DEF Crash, ProcsOK, ProcsAreRecords
  <2>3. QED
    BY <2>1, <2>2
<1>6. QED
  BY <1>1, <1>2, <1>4, <1>5, StillStep

LEMMA SoundInductive ==
    ASSUME Sound, [Next]_vars
    PROVE  Sound'
<1>1. CASE UNCHANGED vars
  <2>1. Later
    BY <1>1, StillLater
  <2>2. QED
    BY <1>1, <2>1, KeptSound DEF Sound
<1>2. ASSUME NEW h \in Handlers, HandlerStep(h) PROVE Sound'
  <2>1. h \in Procs
    BY DEF Procs
  <2>2. QED
    BY <1>2, <2>1, RevokeSound, CleanUpSound, WriteSound, LedgerSound, FetchSound, PutSound, CourseSound
    DEF HandlerStep
<1>3. CASE Sweep
  BY <1>3, SweepSound, RevokeSound DEF Sweep, Procs
<1>4. CASE Sync \/ \E kind \in {"hourly", "daily"} : SyncStart(kind)
  BY <1>4, SyncSound, SyncArraySound DEF Sync
<1>5. CASE User
  BY <1>5, StripeSound, RequestSound DEF User
<1>6. CASE Faulty
  BY <1>6, FaultSound, RevokeSound, FetchSound DEF Faulty, Procs
<1>7. QED
  BY <1>1, <1>2, <1>3, <1>4, <1>5, <1>6, StripeSound, DeliverSound DEF Next

\* No step of a handler, a job, Stripe or the user, and no rejected call or
\* crash, leaves in the array, an event, the ledger or a process a value of
\* another type, or the name of a period that Stripe has not opened, except
\* for a subscription whose end syncSubscriptionDates made up from a checkout
\* transaction (guessed) and, for the access only, one that a deletion or a
\* cancellation gave an end to (ended).
THEOREM AlwaysSound == Spec => []Sound
<1>1. QED
  BY SoundInit, SoundInductive, PTL DEF Spec

\* Whatever the handlers, the jobs, Stripe and the user do, and whatever calls
\* fail: every document, event and process keeps its type.
THEOREM TypesHold == Spec => []TypeOK
<1>1. QED
  BY AlwaysSound, SoundIsTyped, PTL

\* No writer of the array, with however old a copy, sets the period of an element
\* or the access it gives beyond what Stripe has issued, but for a date that the
\* daily job made up and the access that a deletion or a cancellation set; an
\* element without an end has a fault behind it.
THEOREM OnlyIssuedPeriods == Spec => []EndsWereIssued
<1>1. QED
  BY AlwaysSound, SoundIsTyped, PTL

-----------------------------------------------------------------------------
(***************************************************************************)
(* 3. The array                                                            *)
(***************************************************************************)
Buying(p) == proc[p].pc = "revoke" /\ JobOf(p).type = "buy"

\* Stripe collects the subscription no more.
Over(s) == stripe[s].status = "canceled"

\* A session, or a clean-up that leads to one, is for a subscription that has
\* not been paid for yet, and no two requests ask for the same one.
Checkouts ==
    /\ \A s \in sessions \cap Subs : stripe[s].status = "none"
    /\ \A p \in Procs : Buying(p) /\ KeyOf(p) \in Subs =>
          /\ stripe[KeyOf(p)].status = "none" /\ KeyOf(p) \notin sessions
          /\ \A q \in Procs : Buying(q) /\ KeyOf(q) = KeyOf(p) => q = p

\* A job that revokes has seen only what is over.
Revoked(p, n) == n.key \in Subs /\ faults = 0 => <<n.key, 0>> \in proc[p].todo \/ Over(n.key)

\* The clean-up of a plan has seen only elements that are not live.
BuysAfter(p) ==
    Buying(p) =>
        \A i \in DOMAIN proc[p].copy :
            LET n == proc[p].copy[i]
            IN  n.key \in SamePlan(KeyOf(p)) => ~Live(n) /\ Revoked(p, n)

\* So has the midnight job, of those it takes for lapsed.
SweepsAfter ==
    proc["sweep"].pc = "revoke" =>
        /\ JobOf("sweep").end <= clock
        /\ \A i \in DOMAIN proc["sweep"].copy :
              LET n == proc["sweep"].copy[i]
              IN  Lapsed(n, JobOf("sweep").end) => Revoked("sweep", n)

Revoking == SweepsAfter /\ \A p \in Procs : BuysAfter(p)

\* Courses without a term.
ForGood(c) == c \in Courses /\ Term[c] = Never

Brings(p) ==
    proc[p].pc = "append" \/ (proc[p].pc = "pull" /\ JobOf(p).type = "checkout") =>
        (ForGood(KeyOf(p)) => JobOf(p).end = Never)

\* They are in the array once bought, and never with an end.
LastingCourses ==
    \A c \in Courses \ (clobbered \cup ended) : ForGood(c) =>
        /\ \A i \in DOMAIN subs : subs[i].key = c => subs[i].end = Never
        /\ c \in owned => \E i \in DOMAIN subs : subs[i].key = c /\ subs[i].expires = Never

Lasting == LastingCourses /\ \A p \in Procs : Brings(p)

\* The elements of k in b are some of those in a.
Thinned(a, b, k) == \A j \in DOMAIN b : b[j].key = k => \E i \in DOMAIN a : a[i] = b[j]

\* They are the same.
Keeps(a, b, k) ==
    /\ Thinned(a, b, k)
    /\ \A i \in DOMAIN a : a[i].key = k => \E j \in DOMAIN b : b[j] = a[i]

LEMMA KeepsItself ==
    ASSUME NEW a, NEW k
    PROVE  Keeps(a, a, k)
BY DEF Keeps, Thinned

LEMMA KeepsThinned ==
    ASSUME NEW a, NEW b, NEW c, NEW k, Keeps(a, b, k)
    PROVE  /\ Thinned(b, c, k) => Thinned(a, c, k)
           /\ Keeps(b, c, k) => Keeps(a, c, k)
BY DEF Keeps, Thinned

LEMMA KeepsHeld ==
    ASSUME NEW a, NEW b, NEW k, Keeps(a, b, k), Holds(a, k)
    PROVE  Holds(b, k)
BY DEF Keeps, Thinned, Holds

\* What Only tells of an array.
Collects(seq, k, only) ==
    /\ \A i \in DOMAIN seq : seq[i].key = k => \E j \in DOMAIN only : only[j] = seq[i]
    /\ \A j \in DOMAIN only : \E i \in DOMAIN seq : seq[i].key = k /\ seq[i] = only[j]

LEMMA OnlyOf ==
    ASSUME NEW seq \in Seq(Entry), NEW k
    PROVE  Collects(seq, k, Only(seq, {k}))
<1> DEFINE I == {i \in DOMAIN seq : seq[i].key \in {k}}
           n == Cardinality(I)
           only == Selected(seq, I)
<1>1. Only(seq, {k}) = Selected(seq, I)
  BY DEF Only
<1>2. I \in SUBSET DOMAIN seq
  OBVIOUS
<1> HIDE DEF I
<1>a. /\ Len(Selected(seq, I)) = Cardinality(I) /\ Cardinality(I) \in Nat
      /\ IsFiniteSet(I) /\ DOMAIN Selected(seq, I) = 1 .. Cardinality(I)
      /\ \A i \in I : \E j \in 1 .. Cardinality(I) : Selected(seq, I)[j] = seq[i]
      /\ \E pick \in [1 .. Cardinality(I) -> I] :
            /\ \A j \in 1 .. Cardinality(I) : Selected(seq, I)[j] = seq[pick[j]]
            /\ \A j, l \in 1 .. Cardinality(I) : pick[j] = pick[l] => j = l
  BY <1>2, SelectedSeq
<1>3. /\ Len(only) = n /\ n \in Nat /\ IsFiniteSet(I) /\ DOMAIN only = 1 .. n
      /\ \A i \in I : \E j \in 1 .. n : only[j] = seq[i]
      /\ \E pick \in [1 .. n -> I] :
            /\ \A j \in 1 .. n : only[j] = seq[pick[j]]
            /\ \A j, l \in 1 .. n : pick[j] = pick[l] => j = l
  BY <1>a
<1> HIDE DEF n, only
<1>4. PICK pick \in [1 .. n -> I] :
         /\ \A j \in 1 .. n : only[j] = seq[pick[j]]
         /\ \A j, l \in 1 .. n : pick[j] = pick[l] => j = l
  BY <1>3
<1>5. \A i : i \in I <=> i \in DOMAIN seq /\ seq[i].key = k
  BY DEF I
<1>6. \A i \in DOMAIN seq : seq[i].key = k => \E j \in DOMAIN only : only[j] = seq[i]
  BY <1>3, <1>5
<1>7. \A j \in DOMAIN only : \E i \in DOMAIN seq : seq[i].key = k /\ seq[i] = only[j]
  <2> SUFFICES ASSUME NEW j \in DOMAIN only PROVE \E i \in DOMAIN seq : seq[i].key = k /\ seq[i] = only[j]
    OBVIOUS
  <2>1. pick[j] \in I /\ only[j] = seq[pick[j]]
    BY <1>3, <1>4
  <2>2. QED
    BY <1>5, <2>1
<1>8. QED
  BY <1>1, <1>6, <1>7 DEF only, Collects

LEMMA OnlySame ==
    ASSUME NEW a \in Seq(Entry), NEW b \in Seq(Entry), NEW k, Only(a, {k}) = Only(b, {k})
    PROVE  Keeps(a, b, k)
<1> DEFINE only == Only(a, {k})
<1>1. Collects(a, k, only) /\ Collects(b, k, only)
  BY OnlyOf
<1> HIDE DEF only
<1>2. \A j \in DOMAIN b : b[j].key = k => \E i \in DOMAIN a : a[i] = b[j]
  BY <1>1 DEF Collects
<1>3. \A i \in DOMAIN a : a[i].key = k => \E j \in DOMAIN b : b[j] = a[i]
  BY <1>1 DEF Collects
<1>4. QED
  BY <1>2, <1>3 DEF Keeps, Thinned

\* The elements at some positions.
LEMMA SelectedThinned ==
    ASSUME NEW seq \in Seq(Entry), NEW I \in SUBSET DOMAIN seq, NEW k
    PROVE  LET new == Selected(seq, I)
           IN  /\ Thinned(seq, new, k)
               /\ \A i \in I : \E j \in DOMAIN new : new[j] = seq[i]
               /\ \A j \in DOMAIN new : \E i \in I : new[j] = seq[i]
<1> DEFINE new == Selected(seq, I)
           n == Cardinality(I)
<1>a. /\ DOMAIN Selected(seq, I) = 1 .. Cardinality(I)
      /\ \A i \in I : \E j \in 1 .. Cardinality(I) : Selected(seq, I)[j] = seq[i]
      /\ \E pick \in [1 .. Cardinality(I) -> I] :
            /\ \A j \in 1 .. Cardinality(I) : Selected(seq, I)[j] = seq[pick[j]]
            /\ \A j, l \in 1 .. Cardinality(I) : pick[j] = pick[l] => j = l
  <2>1. \A J \in SUBSET DOMAIN seq :
           /\ DOMAIN Selected(seq, J) = 1 .. Cardinality(J)
           /\ \A i \in J : \E j \in 1 .. Cardinality(J) : Selected(seq, J)[j] = seq[i]
           /\ \E pick \in [1 .. Cardinality(J) -> J] :
                 /\ \A j \in 1 .. Cardinality(J) : Selected(seq, J)[j] = seq[pick[j]]
                 /\ \A j, l \in 1 .. Cardinality(J) : pick[j] = pick[l] => j = l
    BY SelectedSeq
  <2>2. QED
    BY <2>1, Zenon
<1>3. /\ DOMAIN new = 1 .. n
      /\ \A i \in I : \E j \in 1 .. n : new[j] = seq[i]
      /\ \E pick \in [1 .. n -> I] :
            /\ \A j \in 1 .. n : new[j] = seq[pick[j]]
            /\ \A j, l \in 1 .. n : pick[j] = pick[l] => j = l
  BY <1>a
<1> HIDE DEF n, new
<1>4. PICK pick \in [1 .. n -> I] :
         /\ \A j \in 1 .. n : new[j] = seq[pick[j]]
         /\ \A j, l \in 1 .. n : pick[j] = pick[l] => j = l
  BY <1>3
<1>5. \A j \in DOMAIN new : pick[j] \in I /\ new[j] = seq[pick[j]]
  BY <1>3, <1>4
<1>6. QED
  BY <1>3, <1>5 DEF Thinned, new

\* One element is renewed, or added when there was none.
Renewed(a, b, k) ==
    /\ Holds(b, k)
    /\ \A j : j # k => Keeps(a, b, j)

LEMMA SetFirstRenewed ==
    ASSUME NEW seq \in Seq(Entry), NEW k \in Keys, NEW e \in Nat, NEW s \in StripeStatus, Holds(seq, k)
    PROVE  Renewed(seq, SetFirst(seq, k, e, s), k)
<1> DEFINE new == SetFirst(seq, k, e, s)
<1>1. /\ DOMAIN new = DOMAIN seq
      /\ \A i \in DOMAIN seq : new[i] \in {seq[i], NewEntry(k, e, s)} /\ new[i].key = seq[i].key
  BY SetFirstSeq
<1> HIDE DEF new
<1>2. NewEntry(k, e, s).key = k
  BY DEF NewEntry
<1>3. \A i \in DOMAIN seq : seq[i].key # k => new[i] = seq[i]
  BY <1>1, <1>2
<1>4. Renewed(seq, new, k)
  BY <1>1, <1>3 DEF Renewed, Keeps, Thinned, Holds
<1>5. QED
  BY <1>4 DEF new

LEMMA AppendRenewed ==
    ASSUME NEW seq \in Seq(Entry), NEW n \in Entry, ~Holds(seq, n.key)
    PROVE  Renewed(seq, Append(seq, n), n.key)
<1> DEFINE new == Append(seq, n)
<1>1. /\ DOMAIN new = DOMAIN seq \cup {Len(seq) + 1} /\ Len(seq) + 1 \notin DOMAIN seq
      /\ new[Len(seq) + 1] = n /\ \A i \in DOMAIN seq : new[i] = seq[i]
  BY AppendedSeq
<1> HIDE DEF new
<1>2. Renewed(seq, new, n.key)
  BY <1>1 DEF Renewed, Keeps, Thinned, Holds
<1>3. QED
  BY <1>2 DEF new

LEMMA SetAndAddRenewed ==
    ASSUME NEW seq \in Seq(Entry), NEW k \in Keys, NEW e \in Nat, NEW s \in StripeStatus
    PROVE  Renewed(seq, SetAndAdd(seq, k, e, s), k) /\ Renewed(seq, SetOrAdd(seq, k, e, s), k)
<1> DEFINE set == SetAll(seq, k, e, s)
           n == NewEntry(k, e, s)
<1>1. /\ set \in Seq(Entry) /\ DOMAIN set = DOMAIN seq /\ n \in Entry /\ n.key = k
      /\ \A i \in DOMAIN seq : set[i] = IF seq[i].key = k THEN n ELSE seq[i]
  BY SetAllSeq
<1> DEFINE both == Append(set, n)
<1>2. SetAndAdd(seq, k, e, s) = both /\ SetOrAdd(seq, k, e, s) = IF Holds(seq, k) THEN set ELSE Append(seq, n)
  BY DEF SetAndAdd, SetOrAdd
<1>3. ~Holds(seq, k) => Renewed(seq, Append(seq, n), k)
  BY <1>1, AppendRenewed
<1>4. /\ DOMAIN both = DOMAIN set \cup {Len(set) + 1} /\ Len(set) + 1 \notin DOMAIN set
      /\ both[Len(set) + 1] = n /\ \A i \in DOMAIN set : both[i] = set[i]
  BY <1>1, AppendedSeq
<1> HIDE DEF set, n, both
<1>5. \A i \in DOMAIN seq : set[i].key = seq[i].key
  BY <1>1
<1>6. Holds(seq, k) => Renewed(seq, set, k)
  BY <1>1, <1>5 DEF Renewed, Keeps, Thinned, Holds
<1>7. Renewed(seq, both, k)
  BY <1>1, <1>4, <1>5 DEF Renewed, Keeps, Thinned, Holds
<1>8. QED
  BY <1>2, <1>3, <1>6, <1>7

-----------------------------------------------------------------------------
\* What a step may do to the elements of a key that no write clobbers.

Gone(k, n) ==
    \/ k \in Courses /\ k \notin owned'
    \/ ~Live(n) /\ (k \in Subs => k \notin active' /\ (faults = 0 => Over(k)))

Thinning(k) ==
    /\ Thinned(subs, subs', k)
    /\ \A i \in DOMAIN subs : subs[i].key = k => (\E j \in DOMAIN subs' : subs'[j] = subs[i]) \/ Gone(k, subs[i])

Revived(k) ==
    /\ k \in Subs \/ k \in ended'
    /\ Holds(subs', k)

Bought(k) ==
    /\ k \in Courses
    /\ Holds(subs', k)
    /\ ForGood(k) => \A j \in DOMAIN subs' : subs'[j].key = k => subs'[j].end = Never /\ subs'[j].expires = Never

Fate(k) == Thinning(k) \/ Revived(k) \/ Bought(k)

Fates ==
    /\ clobbered \subseteq clobbered' /\ ended \subseteq ended' /\ echoed \subseteq echoed'
    /\ \A k \in Keys \ clobbered' : Fate(k)
    /\ \A s \in active' : s \in active \/ Holds(subs', s) \/ s \in echoed'
    /\ \A c \in owned' \ clobbered' : c \in owned \/ Bought(c)

LEMMA KeptFate ==
    ASSUME NEW k, Keeps(subs, subs', k)
    PROVE  Fate(k)
BY DEF Keeps, Fate, Thinning

LEMMA SameFates ==
    ASSUME UNCHANGED <<subs, active, clobbered, ended, echoed, owned>>
    PROVE  Fates
<1>1. \A k : Keeps(subs, subs', k)
  BY KeepsItself
<1>2. QED
  BY <1>1, KeptFate DEF Fates

LEMMA RenewedFates ==
    ASSUME NEW k \in Subs, Renewed(subs, subs', k)
    PROVE  \A j \in Keys : Fate(j)
<1>1. Revived(k)
  BY DEF Renewed, Revived
<1>2. \A j \in Keys \ {k} : Fate(j)
  BY KeptFate DEF Renewed
<1>3. QED
  BY <1>1, <1>2 DEF Fate

LEMMA PutFates ==
    ASSUME Sound, NEW p \in Procs,
           Upsert(p) \/ PushIfAbsent(p) \/ Extend(p) \/ Direct(p) \/ Ensure(p)
    PROVE  Fates
<1>1. proc[p].pc \in OfSub
  BY OfEach DEF Upsert, PushIfAbsent, Extend, Direct, Ensure
<1>2. /\ KeyOf(p) \in Subs /\ KeyOf(p) \in Keys /\ JobOf(p).end \in Nat /\ JobOf(p).status \in StripeStatus
      /\ "active" \in StripeStatus /\ subs \in Seq(Entry)
  BY <1>1, HeldKey, HeldRecord DEF StripeStatus, Sound, DocOK
<1> DEFINE k == KeyOf(p)
           e == JobOf(p).end
           s == JobOf(p).status
<1>3. /\ Holds(subs, k) => /\ Renewed(subs, SetFirst(subs, k, e, s), k)
                           /\ Renewed(subs, SetFirst(subs, k, e, "active"), k)
      /\ ~Holds(subs, k) => Renewed(subs, Append(subs, NewEntry(k, e, s)), k)
  <2>1. NewEntry(k, e, s) \in Entry /\ NewEntry(k, e, s).key = k
    BY <1>2 DEF NewEntry, Entry
  <2>2. QED
    BY <1>2, <2>1, SetFirstRenewed, AppendRenewed
<1>4. /\ subs' = subs \/ Renewed(subs, subs', k)
      /\ UNCHANGED <<clobbered, ended, guessed, owned>>
      /\ echoed \subseteq echoed'
      /\ \A r \in active' : r \in active \/ (r = k /\ Renewed(subs, subs', k)) \/ Holds(subs', r) \/ r \in echoed'
  BY <1>3 DEF Upsert, PushIfAbsent, Extend, Direct, Ensure
<1>5. \A j \in Keys : Fate(j)
  <2>1. CASE subs' = subs
    BY <2>1, KeepsItself, KeptFate
  <2>2. CASE Renewed(subs, subs', k)
    BY <1>2, <2>2, RenewedFates
  <2>3. QED
    BY <1>4, <2>1, <2>2
<1>6. QED
  BY <1>4, <1>5 DEF Fates, Renewed

\* A course is bought, or given up, with the elements of its plan.
LEMMA CourseFates ==
    ASSUME Sound, Lasting, NEW p \in Procs, Pull(p) \/ AppendCourse(p)
    PROVE  Fates
<1>1. proc[p].pc \in OfCourse
  BY DEF Pull, AppendCourse, At, OfCourse
<1>2. /\ KeyOf(p) \in Courses /\ KeyOf(p) \in Keys /\ KeyOf(p) \notin Subs
      /\ JobOf(p).end \in Nat /\ subs \in Seq(Entry) /\ "active" \in StripeStatus
      /\ owned \subseteq Courses
  BY <1>1, HeldRecord, KeysAssumption DEF Fit, Keys, Sound, DocOK, GhostsOK, StripeStatus
<1>3. CASE Pull(p)
  <2> DEFINE plan == SamePlan(KeyOf(p))
             I == {i \in DOMAIN subs : subs[i].key \notin plan}
  <2>1. subs' = Selected(subs, I) /\ owned' = owned \ plan /\ UNCHANGED <<active, clobbered, ended, guessed, echoed>>
    BY <1>3 DEF Pull, Without
  <2>2. \A k \in plan : k \in Courses
    BY <1>2, PlanAssumption DEF SamePlan, Keys
  <2>3. I \in SUBSET DOMAIN subs /\ \A i \in DOMAIN subs : subs[i].key \notin plan => i \in I
    OBVIOUS
  <2> HIDE DEF I, plan
  <2>4. \A k : Thinned(subs, subs', k)
    BY <1>2, <2>1, <2>3, SelectedThinned
  <2>5. \A i \in I : \E j \in DOMAIN subs' : subs'[j] = subs[i]
    BY <1>2, <2>1, <2>3, SelectedThinned
  <2>6. \A k \in Keys : Thinning(k)
    BY <2>1, <2>2, <2>3, <2>4, <2>5 DEF Thinning, Gone
  <2>7. QED
    BY <2>1, <2>6 DEF Fates, Fate
<1>4. CASE AppendCourse(p)
  <2> DEFINE c == KeyOf(p)
             n == NewEntry(c, JobOf(p).end, "active")
  <2>1. /\ subs' = Append(subs, n) /\ clobbered' = clobbered \cup {k \in {n.key} : Holds(subs, k)}
        /\ owned' = owned \cup {c} /\ UNCHANGED <<active, ended, guessed, echoed>>
        /\ proc[p].pc = "append"
    BY <1>4 DEF AppendCourse, PushUnguarded, At
  <2>2. n \in Entry /\ n.key = c /\ n.end = JobOf(p).end /\ n.expires = JobOf(p).end
    BY <1>2 DEF NewEntry, Entry
  <2>3. ForGood(c) => n.end = Never /\ n.expires = Never
    BY <2>1, <2>2 DEF Lasting, Brings
  <2> HIDE DEF n
  <2>4. CASE Holds(subs, c)
    <3>1. c \in clobbered'
      BY <2>1, <2>2, <2>4
    <3>2. /\ DOMAIN subs' = DOMAIN subs \cup {Len(subs) + 1}
          /\ Len(subs) + 1 \notin DOMAIN subs
          /\ subs'[Len(subs) + 1] = n
          /\ \A i \in DOMAIN subs : subs'[i] = subs[i]
      BY <1>2, <2>1, <2>2, AppendedSeq
    <3>3. \A k \in Keys \ {c} : Keeps(subs, subs', k)
      BY <2>2, <3>2 DEF Keeps, Thinned
    <3>4. \A k \in Keys \ {c} : Fate(k)
      BY <3>3, KeptFate
    <3>5. QED
      BY <2>1, <3>1, <3>4 DEF Fates
  <2>5. CASE ~Holds(subs, c)
    <3>1. Renewed(subs, subs', c)
      BY <1>2, <2>1, <2>2, <2>5, AppendRenewed
    <3>2. \A k \in Keys \ {c} : Fate(k)
      BY <3>1, KeptFate DEF Renewed
    <3>3. /\ DOMAIN subs' = DOMAIN subs \cup {Len(subs) + 1}
          /\ subs'[Len(subs) + 1] = n
          /\ \A i \in DOMAIN subs : subs'[i] = subs[i]
      BY <1>2, <2>1, <2>2, AppendedSeq
    <3>4. \A j \in DOMAIN subs' : subs'[j].key = c => subs'[j] = n
      BY <2>5, <3>3 DEF Holds
    <3>5. Bought(c)
      BY <1>2, <2>3, <3>1, <3>4 DEF Bought, Renewed
    <3>6. QED
      BY <2>1, <3>2, <3>5 DEF Fates, Fate
  <2>6. QED
    BY <2>4, <2>5
<1>5. QED
  BY <1>3, <1>4

-----------------------------------------------------------------------------
\* The writers of whole arrays: a key that is not clobbered has in the copy
\* the elements that it has in the array.

LEMMA SeenKept ==
    ASSUME Sound, NEW p \in Procs, NEW k \in Keys, k \notin Changed(proc[p].copy)
    PROVE  Keeps(subs, proc[p].copy, k) /\ Keeps(proc[p].copy, subs, k)
<1>1. subs \in Seq(Entry) /\ proc[p].copy \in Seq(Entry)
  BY HeldRecord DEF Sound, DocOK
<1>2. Only(proc[p].copy, {k}) = Only(subs, {k})
  BY DEF Changed
<1>3. QED
  BY <1>1, <1>2, OnlySame

\* New last dates, the same keys.
LEMMA EndedFate ==
    ASSUME NEW seen, NEW k, Keeps(subs, seen, k), DOMAIN subs' = DOMAIN seen,
           \A i \in DOMAIN seen : subs'[i].key = seen[i].key,
           \/ k \in Subs \/ k \in ended'
           \/ \A i \in DOMAIN seen : seen[i].key = k => subs'[i] = seen[i]
    PROVE  Fate(k)
<1>1. CASE \A i \in DOMAIN seen : seen[i].key = k => subs'[i] = seen[i]
  <2>1. Keeps(seen, subs', k)
    BY <1>1 DEF Keeps, Thinned
  <2>2. QED
    BY <2>1, KeepsThinned, KeptFate
<1>2. CASE k \in Subs \/ k \in ended'
  <2>2. CASE Holds(subs, k)
    <3>1. Holds(seen, k)
      BY <2>2, KeepsHeld
    <3>2. Holds(subs', k)
      BY <3>1 DEF Holds
    <3>3. QED
      BY <1>2, <3>2 DEF Fate, Revived
  <2>3. CASE ~Holds(subs, k)
    <3>1. \A i \in DOMAIN seen : seen[i].key # k
      BY <2>3 DEF Holds, Keeps, Thinned
    <3>2. \A i \in DOMAIN subs' : subs'[i].key # k
      BY <3>1
    <3>3. Keeps(subs, subs', k)
      BY <2>3, <3>2 DEF Keeps, Thinned, Holds
    <3>4. QED
      BY <3>3, KeptFate
  <2>4. QED
    BY <2>2, <2>3
<1>3. QED
  BY <1>1, <1>2

\* One element of the copy is renewed or added.
LEMMA CopyRenewedFates ==
    ASSUME Sound, NEW p \in Procs, NEW k \in Subs, NEW e \in Nat, NEW s \in StripeStatus,
           Overwrite(p, SetOrAdd(proc[p].copy, k, e, s)) \/ Overwrite(p, SetAndAdd(proc[p].copy, k, e, s))
    PROVE  \A j \in Keys \ clobbered' : Fate(j)
<1> SUFFICES ASSUME NEW j \in Keys \ clobbered' PROVE Fate(j)
  OBVIOUS
<1>1. /\ subs' \in {SetOrAdd(proc[p].copy, k, e, s), SetAndAdd(proc[p].copy, k, e, s)}
      /\ j \notin Changed(proc[p].copy)
  BY DEF Overwrite
<1>2. k \in Keys /\ proc[p].copy \in Seq(Entry)
  BY HeldRecord DEF Keys
<1>3. Renewed(proc[p].copy, subs', k)
  BY <1>1, <1>2, SetAndAddRenewed
<1>4. Keeps(subs, proc[p].copy, j)
  BY <1>1, SeenKept
<1>5. CASE j # k
  <2>1. Keeps(subs, subs', j)
    BY <1>3, <1>4, <1>5, KeepsThinned DEF Renewed
  <2>2. QED
    BY <2>1, KeptFate
<1>6. CASE j = k
  BY <1>3, <1>4, <1>6 DEF Renewed, Keeps, Thinned, Fate, Revived
<1>7. QED
  BY <1>5, <1>6

LEMMA WriteFates ==
    ASSUME Sound, NEW p \in Procs, WriteCancelled(p) \/ WriteUpdated(p) \/ WriteDeleted(p)
    PROVE  Fates
<1>1. /\ proc[p].pc = "write" /\ proc[p].pc \in OfSub /\ active' \subseteq active
      /\ clobbered \subseteq clobbered' /\ ended \subseteq ended' /\ UNCHANGED <<echoed, owned>>
  BY OfEach DEF WriteCancelled, WriteUpdated, WriteDeleted, Overwrite
<1>2. /\ KeyOf(p) \in Subs /\ JobOf(p).end \in Nat /\ JobOf(p).status \in StripeStatus
      /\ proc[p].copy \in Seq(Entry) /\ Fit(p, proc[p], stripe, faults, guessed, ended)
      /\ clock \in Nat /\ clock + 1 \in Nat
  <2>1. clock \in Nat /\ clock + 1 \in Nat
    BY BoundsAssumption DEF Sound, WorldOK
  <2>2. Fit(p, proc[p], stripe, faults, guessed, ended)
    BY DEF Sound, ProcsOK
  <2>3. QED
    BY <1>1, <2>1, <2>2, HeldKey, HeldRecord
<1> DEFINE seen == proc[p].copy
<1>3. CASE WriteUpdated(p)
  <2>1. Overwrite(p, SetAndAdd(seen, KeyOf(p), JobOf(p).end, JobOf(p).status))
    BY <1>3 DEF WriteUpdated
  <2>2. \A j \in Keys \ clobbered' : Fate(j)
    BY <1>2, <2>1, CopyRenewedFates
  <2>3. QED
    BY <1>1, <2>2 DEF Fates
<1>4. CASE WriteCancelled(p)
  <2> DEFINE plan == SamePlan(KeyOf(p))
  <2>1. PICK e \in {clock, clock + 1} :
           Overwrite(p, [i \in DOMAIN seen |-> IF seen[i].key \in plan THEN [seen[i] EXCEPT !.expires = e] ELSE seen[i]])
    BY <1>4 DEF WriteCancelled
  <2> DEFINE new == Ended(seen, plan, e)
  <2>2. subs' = new /\ clobbered' = clobbered \cup Changed(seen)
    BY <2>1 DEF Overwrite, Ended
  <2>3. \A k \in plan : k \in Subs
    BY <1>2, PlanAssumption DEF SamePlan, Keys
  <2> HIDE DEF seen, plan
  <2>4. DOMAIN new = DOMAIN seen /\ \A i \in DOMAIN seen : seen[i].key \notin plan => new[i] = seen[i]
    BY DEF Ended
  <2>5. \A i \in DOMAIN seen : new[i].key = seen[i].key
    BY <1>2, <2>1, EndedSeq DEF seen
  <2> HIDE DEF new
  <2>6. ASSUME NEW k \in Keys \ clobbered' PROVE Fate(k)
    <3>1. Keeps(subs, seen, k)
      BY <2>2, SeenKept DEF seen
    <3>2. k \in Subs \/ \A i \in DOMAIN seen : seen[i].key = k => new[i] = seen[i]
      BY <2>3, <2>4
    <3>3. QED
      BY <2>2, <2>4, <2>5, <3>1, <3>2, EndedFate
  <2>7. QED
    BY <1>1, <2>6 DEF Fates
<1>5. CASE WriteDeleted(p)
  <2>1. seen # <<>>
    BY <1>1, <1>2, <1>5 DEF WriteDeleted, Fit
  <2>2. /\ subs' = [seen EXCEPT ![1].expires = clock + 1] /\ clobbered' = clobbered \cup Changed(seen)
        /\ ended' = ended \cup {seen[1].key}
    BY <1>5 DEF WriteDeleted, Overwrite
  <2> HIDE DEF seen
  <2>3. /\ DOMAIN subs' = DOMAIN seen
        /\ \A i \in DOMAIN seen : subs'[i].key = seen[i].key
        /\ \A i \in DOMAIN seen : i # 1 => subs'[i] = seen[i]
    BY <1>2, <2>1, <2>2, FirstEndedSeq DEF seen
  <2>4. ASSUME NEW k \in Keys \ clobbered' PROVE Fate(k)
    <3>1. Keeps(subs, seen, k)
      BY <2>2, SeenKept DEF seen
    <3>2. k \in ended' \/ \A i \in DOMAIN seen : seen[i].key = k => subs'[i] = seen[i]
      BY <2>2, <2>3
    <3>3. QED
      BY <2>3, <3>1, <3>2, EndedFate
  <2>5. QED
    BY <1>1, <2>4 DEF Fates
<1>6. QED
  BY <1>3, <1>4, <1>5

\* What is thrown out was not live and, in the absence of faults, is cancelled
\* at Stripe.
LEMMA CleanUpFates ==
    ASSUME Sound, Revoking, NEW h \in Procs, CleanUp(h)
    PROVE  Fates
<1> DEFINE plan == SamePlan(KeyOf(h))
           seen == proc[h].copy
           I == {i \in DOMAIN subs : subs[i].key \notin plan}
<1>1. /\ subs' = Selected(subs, I)
      /\ active' = active \ {s \in plan : Holds(seen, s)}
      /\ clobbered' = clobbered \cup (plan \cap Changed(seen))
      /\ Buying(h) /\ proc[h].todo = {}
      /\ UNCHANGED <<ended, guessed, echoed, owned>>
  BY DEF CleanUp, At, Buying, Without
<1>2. subs \in Seq(Entry) /\ I \in SUBSET DOMAIN subs
  BY DEF Sound, DocOK
<1>3. \A i \in DOMAIN seen : seen[i].key \in plan => ~Live(seen[i]) /\ Revoked(h, seen[i])
  BY <1>1 DEF Revoking, BuysAfter, SweepsAfter
<1>4. \A i \in DOMAIN subs : subs[i].key \notin plan => i \in I
  OBVIOUS
<1> HIDE DEF I, plan
<1>5. /\ \A k : Thinned(subs, subs', k)
      /\ \A i \in I : \E j \in DOMAIN subs' : subs'[j] = subs[i]
  BY <1>1, <1>2, SelectedThinned
<1>6. ASSUME NEW k \in Keys \ clobbered', NEW i \in DOMAIN subs, subs[i].key = k, k \in plan
      PROVE  Gone(k, subs[i])
  <2>1. Keeps(subs, seen, k)
    BY <1>1, <1>6, SeenKept
  <2>2. PICK j \in DOMAIN seen : seen[j] = subs[i]
    BY <1>6, <2>1 DEF Keeps
  <2>3. ~Live(subs[i]) /\ Revoked(h, subs[i]) /\ Holds(seen, k)
    BY <1>3, <1>6, <2>2 DEF Holds
  <2>4. QED
    BY <1>1, <1>6, <2>3 DEF Gone, Revoked
<1>7. \A k \in Keys \ clobbered' : Thinning(k)
  BY <1>4, <1>5, <1>6 DEF Thinning
<1>8. QED
  BY <1>1, <1>7 DEF Fates, Fate

LEMMA SweepFates ==
    ASSUME Sound, Revoking, SweepWrite
    PROVE  Fates
<1> DEFINE seen == proc["sweep"].copy
           now == JobOf("sweep").end
           I == {i \in DOMAIN seen : ~Lapsed(seen[i], now)}
<1>0. "sweep" \in Procs
  BY DEF Procs
<1>1. /\ subs' = Selected(seen, I)
      /\ clobbered' = clobbered \cup Changed(seen)
      /\ active' = active \ {k \in Subs : \E i \in DOMAIN seen : seen[i].key = k /\ Lapsed(seen[i], now)}
      /\ proc["sweep"].pc = "revoke" /\ proc["sweep"].todo = {}
      /\ UNCHANGED <<ended, guessed, echoed, owned>>
  BY DEF SweepWrite, At, Overwrite
<1>2. /\ subs \in Seq(Entry) /\ seen \in Seq(Entry) /\ I \in SUBSET DOMAIN seen
      /\ now \in Nat /\ clock \in Nat
  BY <1>0, HeldRecord DEF Sound, DocOK, WorldOK
<1>3. now <= clock /\ \A i \in DOMAIN seen : Lapsed(seen[i], now) => Revoked("sweep", seen[i])
  BY <1>1 DEF Revoking, BuysAfter, SweepsAfter
<1>4. \A i \in DOMAIN seen : Lapsed(seen[i], now) => ~Live(seen[i])
  <2> SUFFICES ASSUME NEW i \in DOMAIN seen, Lapsed(seen[i], now) PROVE ~Live(seen[i])
    OBVIOUS
  <2>1. seen[i].end \in Nat /\ seen[i].expires \in Nat
    BY <1>2, EntryOfSeq
  <2>2. seen[i].end <= now \/ seen[i].expires <= now
    BY DEF Lapsed
  <2>3. QED
    BY <1>2, <1>3, <2>1, <2>2 DEF Live
<1>5. \A i \in DOMAIN seen : i \in I \/ Lapsed(seen[i], now)
  OBVIOUS
<1> HIDE DEF I, now
<1>6. /\ \A k : Thinned(seen, subs', k)
      /\ \A i \in I : \E j \in DOMAIN subs' : subs'[j] = seen[i]
  BY <1>1, <1>2, SelectedThinned
<1>7. ASSUME NEW k \in Keys \ clobbered' PROVE Thinning(k)
  <2>1. Keeps(subs, seen, k)
    BY <1>0, <1>1, SeenKept
  <2>2. Thinned(subs, subs', k)
    BY <1>6, <2>1, KeepsThinned
  <2>3. ASSUME NEW i \in DOMAIN subs, subs[i].key = k
        PROVE  (\E j \in DOMAIN subs' : subs'[j] = subs[i]) \/ Gone(k, subs[i])
    <3>1. PICK j \in DOMAIN seen : seen[j] = subs[i]
      BY <2>1, <2>3 DEF Keeps
    <3>2. CASE j \in I
      BY <1>6, <3>1, <3>2
    <3>3. CASE j \notin I
      <4>1. Lapsed(seen[j], now)
        BY <1>5, <3>3
      <4>2. ~Live(subs[i]) /\ Revoked("sweep", subs[i])
        BY <1>3, <1>4, <3>1, <4>1
      <4>3. k \in Subs => k \notin active'
        BY <1>1, <2>3, <3>1, <4>1
      <4>4. QED
        BY <1>1, <2>3, <4>2, <4>3 DEF Gone, Revoked
    <3>4. QED
      BY <3>2, <3>3
  <2>4. QED
    BY <2>2, <2>3 DEF Thinning
<1>8. QED
  BY <1>1, <1>7 DEF Fates, Fate
\* The synchronisation renews one element; it may add one that is there already.
LEMMA SyncFates ==
    ASSUME Sound, SyncApply \/ SyncAdd \/ SyncWrite \/ \E v \in Invoices : SyncAdjust(v)
    PROVE  Fates
<1> DEFINE k == KeyOf("sync")
           e == JobOf("sync").end
<1>1. "sync" \in Procs /\ subs \in Seq(Entry) /\ "active" \in StripeStatus
  BY DEF Procs, Sound, DocOK, StripeStatus
<1>2. CASE SyncApply \/ SyncAdd \/ SyncWrite
  <2>1. proc["sync"].pc \in OfSub
    BY <1>2, OfEach DEF SyncApply, SyncAdd, SyncWrite
  <2>2. k \in Subs /\ k \in Keys /\ e \in Nat
    BY <1>1, <2>1, HeldKey, HeldRecord
  <2>3. CASE SyncApply
    <3>1. UNCHANGED <<active, clobbered, ended, guessed, echoed, owned>>
      BY <2>3 DEF SyncApply
    <3>2. subs' = subs \/ (Holds(subs, k) /\ subs' = SetFirst(subs, k, e, "active"))
      BY <2>3 DEF SyncApply
    <3>3. \A j \in Keys : Fate(j)
      BY <1>1, <2>2, <3>2, KeepsItself, KeptFate, SetFirstRenewed, RenewedFates
    <3>4. QED
      BY <3>1, <3>3 DEF Fates
  <2>4. CASE SyncWrite
    <3>1. /\ Overwrite("sync", SetOrAdd(proc["sync"].copy, k, e, "active"))
          /\ UNCHANGED <<active, ended, guessed, echoed, owned>>
      BY <2>4 DEF SyncWrite
    <3>2. \A j \in Keys \ clobbered' : Fate(j)
      BY <1>1, <2>2, <3>1, CopyRenewedFates
    <3>3. clobbered \subseteq clobbered'
      BY <3>1 DEF Overwrite
    <3>4. QED
      BY <3>1, <3>2, <3>3 DEF Fates
  <2>5. CASE SyncAdd
    <3> DEFINE n == NewEntry(k, e, "active")
    <3>1. /\ subs' = Append(subs, n) /\ clobbered' = clobbered \cup {j \in {n.key} : Holds(subs, j)}
          /\ active' = active \cup {k} /\ UNCHANGED <<ended, guessed, echoed, owned>>
      BY <2>5 DEF SyncAdd, PushUnguarded
    <3>2. n \in Entry /\ n.key = k
      BY <1>1, <2>2 DEF NewEntry, Entry
    <3> HIDE DEF n
    <3>3. /\ DOMAIN subs' = DOMAIN subs \cup {Len(subs) + 1}
          /\ Len(subs) + 1 \notin DOMAIN subs
          /\ subs'[Len(subs) + 1] = n
          /\ \A i \in DOMAIN subs : subs'[i] = subs[i]
      BY <1>1, <3>1, <3>2, AppendedSeq
    <3>4. Holds(subs', k)
      BY <3>2, <3>3 DEF Holds
    <3>5. \A j \in Keys \ {k} : Fate(j)
      <4>1. \A j \in Keys \ {k} : Keeps(subs, subs', j)
        BY <3>2, <3>3 DEF Keeps, Thinned
      <4>2. QED
        BY <4>1, KeptFate
    <3>6. k \in clobbered' \/ Fate(k)
      BY <1>1, <2>2, <3>1, <3>2, AppendRenewed, RenewedFates
    <3>7. QED
      BY <3>1, <3>4, <3>5, <3>6 DEF Fates
  <2>6. QED
    BY <1>2, <2>3, <2>4, <2>5
<1>3. ASSUME NEW v \in Invoices, SyncAdjust(v) PROVE Fates
  <2>1. UNCHANGED <<active, clobbered, ended, guessed, echoed, owned>>
    BY <1>3 DEF SyncAdjust
  <2>2. subs' = subs \/ (Holds(subs, v[1]) /\ subs' = SetFirst(subs, v[1], v[2], "active"))
    BY <1>3 DEF SyncAdjust
  <2>3. v[1] \in Subs /\ v[1] \in Keys /\ v[2] \in Nat
    BY NeverIsNat DEF Invoices, Keys
  <2>4. \A j \in Keys : Fate(j)
    BY <1>1, <2>2, <2>3, KeepsItself, KeptFate, SetFirstRenewed, RenewedFates
  <2>5. QED
    BY <2>1, <2>4 DEF Fates
<1>4. QED
  BY <1>2, <1>3

LEMMA StepFates ==
    ASSUME Sound, Revoking, Lasting, [Next]_vars
    PROVE  Fates
<1>1. CASE UNCHANGED vars
  BY <1>1, SameFates
<1>2. CASE Tick \/ Stripe \/ (\E k \in Keys : Pay(k)) \/ Faulty
  <2>1. UNCHANGED <<subs, active, clobbered, ended, echoed, owned>>
    BY <1>2 DEF Tick, Stripe, Pay, Roll, GiveUp, Collect, Decline, Faulty, CallRejected, Crash,
                RevokeRejected, FetchRejected, ExtendRejected
  <2>2. QED
    BY <2>1, SameFates
<1>3. ASSUME NEW h \in Handlers, NEW k, Buy(h, k) \/ Cancel(h, k) \/ Deliver(h, k) PROVE Fates
  BY <1>3, SameFates DEF Buy, Cancel, Deliver
<1>4. ASSUME NEW h \in Handlers, HandlerStep(h) PROVE Fates
  <2>1. h \in Procs
    BY DEF Procs
  <2>2. CASE Upsert(h) \/ PushIfAbsent(h) \/ Extend(h) \/ Direct(h) \/ Ensure(h)
    BY <2>1, <2>2, PutFates
  <2>3. CASE Pull(h) \/ AppendCourse(h)
    BY <2>1, <2>3, CourseFates
  <2>4. CASE WriteCancelled(h) \/ WriteUpdated(h) \/ WriteDeleted(h)
    BY <2>1, <2>4, WriteFates
  <2>5. CASE CleanUp(h)
    BY <2>1, <2>5, CleanUpFates
  <2>6. CASE (\E s \in Subs : Revoke(h, s)) \/ RecordSale(h) \/ Fetch(h) \/ Dedupe(h) \/ Insert(h)
             \/ RecordRenewal(h) \/ SaveFailed(h)
    <3>1. CASE (\E s \in Subs : Revoke(h, s)) \/ RecordSale(h) \/ Fetch(h)
      <4>0. userDoc' = userDoc /\ ghosts' = ghosts
        BY <3>1 DEF Revoke, RecordSale, Fetch
      <4>1. UNCHANGED <<subs, active, clobbered, ended, echoed, owned>>
        BY <4>0
      <4>2. QED
        BY <4>1, SameFates
    <3>2. CASE Dedupe(h) \/ Insert(h) \/ RecordRenewal(h) \/ SaveFailed(h)
      <4>0. userDoc' = userDoc /\ ghosts' = ghosts
        BY <3>2 DEF Dedupe, Insert, RecordRenewal, SaveFailed
      <4>1. UNCHANGED <<subs, active, clobbered, ended, echoed, owned>>
        BY <4>0
      <4>2. QED
        BY <4>1, SameFates
    <3>3. QED
      BY <2>6, <3>1, <3>2
  <2>7. QED
    BY <1>4, <2>2, <2>3, <2>4, <2>5, <2>6 DEF HandlerStep
<1>5. CASE Sweep
  <2>1. CASE SweepWrite
    BY <2>1, SweepFates
  <2>2. CASE SweepStart \/ \E s \in Subs : Revoke("sweep", s)
    <3>1. UNCHANGED <<subs, active, clobbered, ended, echoed, owned>>
      BY <2>2 DEF SweepStart, Revoke
    <3>2. QED
      BY <3>1, SameFates
  <2>3. QED
    BY <1>5, <2>1, <2>2 DEF Sweep
<1>6. CASE Sync \/ \E kind \in {"hourly", "daily"} : SyncStart(kind)
  <2>1. CASE SyncApply \/ SyncAdd \/ SyncWrite \/ \E v \in Invoices : SyncAdjust(v)
    BY <2>1, SyncFates
  <2>2. CASE \/ \E v \in Invoices : SyncRead(v)
             \/ SyncForce \/ SyncLoaded \/ SyncList \/ SyncDone
             \/ \E kind \in {"hourly", "daily"} : SyncStart(kind)
    <3>1. UNCHANGED <<subs, active, clobbered, ended, echoed, owned>>
      BY <2>2 DEF SyncRead, SyncForce, SyncLoaded, SyncList, SyncDone, SyncStart
    <3>2. QED
      BY <3>1, SameFates
  <2>3. QED
    BY <1>6, <2>1, <2>2 DEF Sync
<1>7. QED
  BY <1>1, <1>2, <1>3, <1>4, <1>5, <1>6 DEF Next, User

-----------------------------------------------------------------------------
\* What the processes have in hand.

Quiet(q) == proc'[q] = proc[q] \/ proc'[q].pc \notin {"revoke", "append", "pull"}

LEMMA QuietMove ==
    ASSUME Sound, NEW p \in Procs, NEW x, x.pc \notin {"revoke", "append", "pull"},
           proc' = [proc EXCEPT ![p] = x]
    PROVE  \A q \in Procs : Quiet(q)
<1>1. Elsewhere(p) /\ proc'[p] = x
  BY Moves DEF Sound, ProcsOK
<1>2. QED
  BY <1>1 DEF Elsewhere, Quiet

LEMMA QuietEnd ==
    ASSUME Sound, NEW p \in Procs, Finish(p)
    PROVE  \A q \in Procs : Quiet(q)
<1>1. Idle.pc \notin {"revoke", "append", "pull"}
  BY DEF Idle
<1>2. QED
  BY <1>1, QuietMove DEF Finish

LEMMA QuietGoing ==
    ASSUME Sound, NEW p \in Procs, NEW l, NEW j, NEW c, NEW t, Become(p, l, j, c, t),
           l \notin {"revoke", "append", "pull"}
    PROVE  \A q \in Procs : Quiet(q)
<1> DEFINE x == [pc |-> l, job |-> j, copy |-> c, todo |-> t]
<1>1. proc' = [proc EXCEPT ![p] = x] /\ x.pc \notin {"revoke", "append", "pull"}
  BY DEF Become
<1> HIDE DEF x
<1>2. QED
  BY <1>1, QuietMove

LEMMA QuietHandler ==
    ASSUME Sound, NEW h \in Procs,
           \/ CleanUp(h) \/ WriteCancelled(h) \/ WriteUpdated(h) \/ WriteDeleted(h) \/ SaveFailed(h)
           \/ RecordSale(h) \/ Fetch(h) \/ FetchRejected(h) \/ Upsert(h) \/ PushIfAbsent(h) \/ AppendCourse(h)
           \/ Dedupe(h) \/ Insert(h) \/ RecordRenewal(h) \/ Extend(h) \/ ExtendRejected(h) \/ Direct(h)
           \/ Ensure(h) \/ CallRejected(h)
    PROVE  \A q \in Procs : Quiet(q)
<1>1. \/ Finish(h)
      \/ \E l \in {"fetch", "push", "ensure", "insert", "history", "extend", "direct"} : Goto(h, l)
      \/ Fetch(h) \/ FetchRejected(h)
  BY DEF CleanUp, WriteCancelled, WriteUpdated, WriteDeleted, SaveFailed, RecordSale, Upsert, PushIfAbsent,
         AppendCourse, Dedupe, Insert, RecordRenewal, Extend, ExtendRejected, Direct, Ensure, CallRejected
<1>2. CASE Finish(h)
  BY <1>2, QuietEnd
<1>3. CASE \E l \in {"fetch", "push", "ensure", "insert", "history", "extend", "direct"} : Goto(h, l)
  BY <1>3, QuietGoing DEF Goto
<1>4. CASE Fetch(h) \/ FetchRejected(h)
  BY <1>4, QuietGoing DEF Fetch, FetchRejected, Turn
<1>5. QED
  BY <1>1, <1>2, <1>3, <1>4

LEMMA QuietSync ==
    ASSUME Sound,
           \/ \E kind \in {"hourly", "daily"} : SyncStart(kind)
           \/ \E v \in Invoices : SyncRead(v) \/ SyncAdjust(v)
           \/ SyncApply \/ SyncAdd \/ SyncForce \/ SyncWrite \/ SyncLoaded \/ SyncList \/ SyncDone
    PROVE  \A q \in Procs : Quiet(q)
<1>0. "sync" \in Procs
  BY DEF Procs
<1>1. \/ Finish("sync") \/ Goto("sync", "force") \/ NextTransaction
      \/ \E kind \in {"hourly", "daily"} : SyncStart(kind)
      \/ \E v \in Invoices : SyncRead(v) \/ SyncAdjust(v)
      \/ SyncForce \/ SyncList \/ Become("sync", "list", JobOf("sync"), subs, {})
  BY DEF SyncApply, SyncAdd, SyncWrite, SyncLoaded, SyncDone
<1>2. CASE Finish("sync")
  BY <1>0, <1>2, QuietEnd
<1>3. CASE Goto("sync", "force") \/ NextTransaction \/ SyncForce \/ SyncList
           \/ Become("sync", "list", JobOf("sync"), subs, {})
  BY <1>0, <1>3, QuietGoing DEF Goto, NextTransaction, SyncForce, SyncList
<1>4. ASSUME NEW kind, SyncStart(kind) PROVE \A q \in Procs : Quiet(q)
  BY <1>0, <1>4, QuietGoing DEF SyncStart, Begin
<1>5. ASSUME NEW v, SyncAdjust(v) PROVE \A q \in Procs : Quiet(q)
  BY <1>0, <1>5, QuietGoing DEF SyncAdjust, Left, At
<1>6. ASSUME NEW v, SyncRead(v) PROVE \A q \in Procs : Quiet(q)
  <2>1. PICK l \in {"each", "apply", "add"} : \E j : Become("sync", l, j, <<>>, proc["sync"].todo \ {v})
    BY <1>6 DEF SyncRead
  <2>2. l \notin {"revoke", "append", "pull"}
    OBVIOUS
  <2>3. QED
    BY <1>0, <2>1, <2>2, QuietGoing
<1>7. QED
  BY <1>1, <1>2, <1>3, <1>4, <1>5, <1>6

-----------------------------------------------------------------------------
\* Nothing goes back.
Progress ==
    /\ clock <= clock'
    /\ faults' = 0 => faults = 0
    /\ \A s \in Subs : Over(s) => Over(s)'

FirstPaid(s) == s \in sessions /\ sessions' = sessions \ {s} /\ UNCHANGED proc

StillNone == \A s \in Subs : stripe[s].status = "none" => stripe'[s].status = "none" \/ FirstPaid(s)

LEMMA StillProgress ==
    ASSUME Sound, stripe' = stripe, clock' = clock, faults' = faults
    PROVE  Progress /\ StillNone
BY BoundsAssumption DEF Sound, WorldOK, Progress, Over, StillNone

LEMMA ChangedProgress ==
    ASSUME Sound, NEW s \in Subs, NEW x, stripe' = [stripe EXCEPT ![s] = x],
           stripe[s].status # "canceled" \/ x.status = "canceled",
           stripe[s].status # "none" \/ FirstPaid(s),
           clock' = clock, faults' = faults
    PROVE  Progress /\ StillNone
<1>1. clock \in Nat /\ \A r \in Subs : stripe'[r] = IF r = s THEN x ELSE stripe[r]
  BY BoundsAssumption DEF Sound, WorldOK
<1>2. QED
  BY <1>1 DEF Progress, Over, StillNone

LEMMA CancelProgress ==
    ASSUME Sound, NEW s \in Subs, CancelAtStripe(s), clock' = clock, faults' = faults
    PROVE  Progress /\ StillNone /\ (stripe[s].status # "none" => Over(s)')
<1>1. CASE stripe[s].status \in {"active", "past_due"}
  <2> DEFINE x == [stripe[s] EXCEPT !.status = "canceled"]
  <2>1. stripe[s] \in [status : StripeStatus, end : Nat]
    BY DEF Sound, WorldOK
  <2>2. x.status = "canceled"
    BY <2>1
  <2>3. stripe' = [stripe EXCEPT ![s] = x]
    BY <1>1 DEF CancelAtStripe
  <2> HIDE DEF x
  <2>4. Over(s)'
    BY <2>2, <2>3 DEF Over, Sound, WorldOK
  <2>5. QED
    BY <1>1, <2>2, <2>3, <2>4, ChangedProgress
<1>2. CASE stripe[s].status \notin {"active", "past_due"}
  <2>1. stripe' = stripe
    BY <1>2 DEF CancelAtStripe
  <2>2. stripe[s].status # "none" => Over(s)
    BY <1>2 DEF Over, Sound, WorldOK, StripeStatus
  <2>3. QED
    BY <2>1, <2>2, StillProgress DEF Over
<1>3. QED
  BY <1>1, <1>2

LEMMA StripeProgress ==
    ASSUME Sound, Checkouts, Stripe \/ \E k \in Keys : Pay(k)
    PROVE  Progress /\ StillNone
<1>0. \A s \in Subs : stripe[s] \in [status : StripeStatus, end : Nat]
  BY DEF Sound, WorldOK
<1>1. ASSUME NEW s \in Subs, Roll(s) PROVE Progress /\ StillNone
  <2>1. stripe' = [stripe EXCEPT ![s] = [stripe[s] EXCEPT !.end = stripe[s].end + 1]]
    BY <1>1 DEF Roll
  <2>2. QED
    BY <1>1, <2>1, ChangedProgress DEF Roll
<1>2. ASSUME NEW s \in Subs, GiveUp(s) PROVE Progress /\ StillNone
  BY <1>2, CancelProgress DEF GiveUp
<1>3. ASSUME NEW v \in Invoices, Collect(v[1], v[2]) \/ Decline(v[1], v[2]) PROVE Progress /\ StillNone
  <2>1. v[1] \in Subs
    BY DEF Invoices
  <2>2. \E t \in StripeStatus : stripe' = [stripe EXCEPT ![v[1]] = [stripe[v[1]] EXCEPT !.status = t]]
    BY <1>3 DEF Collect, Decline, StripeStatus
  <2>3. PICK t \in StripeStatus : stripe' = [stripe EXCEPT ![v[1]] = [stripe[v[1]] EXCEPT !.status = t]]
    BY <2>2
  <2>4. stripe[v[1]].status \in {"active", "past_due"} /\ clock' = clock /\ faults' = faults
    BY <1>3 DEF Collect, Decline
  <2>5. QED
    BY <2>1, <2>3, <2>4, ChangedProgress
<1>4. ASSUME NEW k \in Keys, Pay(k) PROVE Progress /\ StillNone
  <2>1. CASE k \in Subs
    <3>1. /\ stripe' = [stripe EXCEPT ![k] = [status |-> "active", end |-> clock + 1]]
          /\ k \in sessions /\ FirstPaid(k) /\ clock' = clock /\ faults' = faults
      BY <1>4, <2>1 DEF Pay, FirstPaid
    <3>2. stripe[k].status = "none"
      BY <2>1, <3>1 DEF Checkouts
    <3>3. QED
      BY <2>1, <3>1, <3>2, ChangedProgress
  <2>2. CASE k \notin Subs
    BY <1>4, <2>2, StillProgress DEF Pay
  <2>3. QED
    BY <2>1, <2>2
<1>5. QED
  BY <1>1, <1>2, <1>3, <1>4 DEF Stripe

LEMMA StepProgress ==
    ASSUME Sound, Checkouts, [Next]_vars
    PROVE  Progress /\ StillNone
<1>1. CASE UNCHANGED vars
  BY <1>1, StillProgress
<1>2. CASE Tick
  BY <1>2, BoundsAssumption DEF Tick, Sound, WorldOK, Progress, StillNone, Over
<1>3. ASSUME NEW p \in Procs, NEW s \in Subs, Revoke(p, s) PROVE Progress /\ StillNone
  BY <1>3, CancelProgress DEF Revoke
<1>4. CASE Faulty
  <2>1. stripe' = stripe /\ clock' = clock /\ faults' = faults + 1
    BY <1>4 DEF Faulty, CallRejected, RevokeRejected, FetchRejected, ExtendRejected, Crash, Fault
  <2>2. clock \in Nat /\ faults \in Nat
    BY BoundsAssumption DEF Sound, WorldOK
  <2>3. QED
    BY <2>1, <2>2 DEF Progress, StillNone, Over
<1>5. ASSUME NEW h \in Handlers, NEW k, Buy(h, k) \/ Cancel(h, k) \/ Deliver(h, k) PROVE Progress /\ StillNone
  BY <1>5, StillProgress DEF Buy, Cancel, Deliver
<1>6. ASSUME NEW h \in Handlers, HandlerStep(h) PROVE Progress /\ StillNone
  <2>1. h \in Procs
    BY DEF Procs
  <2>2. CASE \E s \in Subs : Revoke(h, s)
    BY <1>3, <2>1, <2>2
  <2>3. CASE ~\E s \in Subs : Revoke(h, s)
    <3>1. UNCHANGED <<stripe, clock, faults>>
      BY <1>6, <2>3 DEF HandlerStep, CleanUp, WriteCancelled, RecordSale, Fetch, Upsert, PushIfAbsent, Pull,
         AppendCourse, Dedupe, Insert, RecordRenewal, Extend, Direct, Ensure, WriteUpdated, WriteDeleted, SaveFailed
    <3>2. QED
      BY <3>1, StillProgress
  <2>4. QED
    BY <2>2, <2>3
<1>7. CASE Sweep
  <2>1. CASE SweepStart \/ SweepWrite
    BY <2>1, StillProgress DEF SweepStart, SweepWrite
  <2>2. QED
    BY <1>3, <1>7, <2>1 DEF Sweep, Procs
<1>8. CASE Sync \/ \E kind \in {"hourly", "daily"} : SyncStart(kind)
  <2>1. UNCHANGED <<stripe, clock, faults>>
    BY <1>8 DEF Sync, SyncStart, SyncRead, SyncAdjust, SyncApply, SyncAdd, SyncForce, SyncWrite, SyncLoaded,
                SyncList, SyncDone
  <2>2. QED
    BY <2>1, StillProgress
<1>9. QED
  BY <1>1, <1>2, <1>4, <1>5, <1>6, <1>7, <1>8, StripeProgress DEF Next, User

-----------------------------------------------------------------------------
\* A process that revokes goes on with what it has seen.
Steady(q) ==
    proc'[q].pc = "revoke" =>
        /\ proc[q].pc = "revoke" /\ proc'[q].job = proc[q].job /\ proc'[q].copy = proc[q].copy
        /\ \A s \in Subs : <<s, 0>> \in proc[q].todo => <<s, 0>> \in proc'[q].todo \/ Over(s)' \/ faults' # 0

\* No process takes up a checkout that needs a clean-up first.
Same(q) == Buying(q)' => Buying(q) /\ KeyOf(q)' = KeyOf(q)

\* The conditions on what a process has in hand, after a step.
Ready(q) == BuysAfter(q)' /\ Brings(q)' /\ (q = "sweep" => SweepsAfter')

RevokedNext(q, n) == n.key \in Subs /\ faults' = 0 => <<n.key, 0>> \in proc'[q].todo \/ stripe'[n.key].status = "canceled"
LiveNext(n) == n.expires > clock' /\ n.end > clock'

LEMMA SteadyReady ==
    ASSUME Sound, Sound', Revoking, Progress, NEW q \in Procs, Steady(q)
    PROVE  /\ BuysAfter(q)'
           /\ q = "sweep" => SweepsAfter'
           /\ Same(q)
<1>1. clock \in Nat /\ clock' \in Nat /\ clock <= clock' /\ (faults' = 0 => faults = 0)
  BY BoundsAssumption DEF Progress, Sound, WorldOK
<1>2. ASSUME proc'[q].pc = "revoke"
      PROVE  /\ proc[q].pc = "revoke" /\ proc'[q].job = proc[q].job /\ proc'[q].copy = proc[q].copy
             /\ \A n : Revoked(q, n) => RevokedNext(q, n)
             /\ \A i \in DOMAIN proc[q].copy : ~Live(proc[q].copy[i]) => ~LiveNext(proc[q].copy[i])
  <2>1. \A i \in DOMAIN proc[q].copy : proc[q].copy[i].end \in Nat /\ proc[q].copy[i].expires \in Nat
    BY HeldRecord, EntryOfSeq
  <2>2. \A i \in DOMAIN proc[q].copy : ~Live(proc[q].copy[i]) => ~LiveNext(proc[q].copy[i])
    BY <1>1, <2>1 DEF Live, LiveNext
  <2>3. \A n : Revoked(q, n) => RevokedNext(q, n)
    BY <1>1, <1>2 DEF Revoked, RevokedNext, Steady, Progress, Over
  <2>4. QED
    BY <1>2, <2>2, <2>3 DEF Steady
<1>3. BuysAfter(q)' /\ Same(q)
  <2>1. ASSUME Buying(q)' PROVE Buying(q) /\ KeyOf(q)' = KeyOf(q)
    BY <1>2, <2>1 DEF Buying
  <2>2. ASSUME Buying(q)', NEW i \in DOMAIN proc'[q].copy, proc'[q].copy[i].key \in SamePlan(proc'[q].job.key)
        PROVE  ~LiveNext(proc'[q].copy[i]) /\ RevokedNext(q, proc'[q].copy[i])
    <3>1. i \in DOMAIN proc[q].copy /\ proc'[q].copy[i] = proc[q].copy[i] /\ KeyOf(q)' = KeyOf(q) /\ Buying(q)
      BY <1>2, <2>1, <2>2 DEF Buying
    <3>2. ~Live(proc[q].copy[i]) /\ Revoked(q, proc[q].copy[i])
      BY <2>2, <3>1 DEF Revoking, BuysAfter
    <3>3. QED
      BY <1>2, <2>2, <3>1, <3>2 DEF Buying
  <2>3. BuysAfter(q)'
    BY <2>2 DEF BuysAfter, Live, LiveNext, Revoked, RevokedNext, Over
  <2>4. QED
    BY <2>1, <2>3 DEF Same
<1>4. ASSUME q = "sweep" PROVE SweepsAfter'
  <2> SUFFICES ASSUME proc'[q].pc = "revoke" PROVE SweepsAfter'
    BY <1>4 DEF SweepsAfter
  <2>2. /\ proc'[q].job = proc[q].job /\ proc'[q].copy = proc[q].copy
        /\ JobOf(q).end <= clock /\ JobOf(q).end \in Nat
        /\ \A i \in DOMAIN proc[q].copy : Lapsed(proc[q].copy[i], JobOf(q).end) => Revoked(q, proc[q].copy[i])
    BY <1>2, <1>4, HeldRecord DEF Revoking, SweepsAfter
  <2>3. proc'[q].job.end <= clock'
    BY <1>1, <2>2
  <2>4. ASSUME NEW i \in DOMAIN proc'[q].copy, Lapsed(proc'[q].copy[i], proc'[q].job.end)
        PROVE  RevokedNext(q, proc'[q].copy[i])
    <3>1. Revoked(q, proc[q].copy[i]) /\ proc'[q].copy[i] = proc[q].copy[i]
      BY <2>2, <2>4
    <3>2. QED
      BY <1>2, <3>1
  <2>5. QED
    BY <1>4, <2>3, <2>4 DEF SweepsAfter, Lapsed, Revoked, RevokedNext, Over
<1>5. QED
  BY <1>3, <1>4

LEMMA QuietReady ==
    ASSUME Sound, Sound', Revoking, Lasting, Progress, NEW q \in Procs, Quiet(q)
    PROVE  Ready(q) /\ Same(q)
<1>1. Steady(q)
  BY DEF Quiet, Steady
<1>2. Brings(q)'
  BY DEF Quiet, Brings, Lasting, ForGood
<1>3. QED
  BY <1>1, <1>2, SteadyReady DEF Ready

LEMMA BuysNext ==
    ASSUME NEW q,
           \A i \in DOMAIN proc'[q].copy :
              proc'[q].copy[i].key \in SamePlan(proc'[q].job.key) =>
                 ~LiveNext(proc'[q].copy[i]) /\ RevokedNext(q, proc'[q].copy[i])
    PROVE  BuysAfter(q)'
BY DEF BuysAfter, Live, LiveNext, Revoked, RevokedNext, Over

LEMMA RevokeReady ==
    ASSUME Sound, Sound', Revoking, Lasting, Progress, NEW p \in Procs, NEW s \in Subs,
           Revoke(p, s) \/ RevokeRejected(p, s)
    PROVE  \A q \in Procs : Ready(q) /\ Same(q)
<1>0. proc[p].pc = "revoke" /\ <<s, 0>> \in proc[p].todo /\ stripe[s].status # "none"
  BY HeldRecord DEF Revoke, RevokeRejected, At, Issued
<1>1. Over(s)' \/ faults' # 0
  <2>1. CASE Revoke(p, s)
    BY <1>0, <2>1, CancelProgress DEF Revoke
  <2>2. CASE RevokeRejected(p, s)
    BY <2>2 DEF RevokeRejected, Fault, Sound, WorldOK
  <2>3. QED
    BY <2>1, <2>2
<1>2. CASE Left(p, proc[p].todo \ {<<s, 0>>})
  <2>1. /\ Elsewhere(p)
        /\ proc'[p] = [pc |-> proc[p].pc, job |-> proc[p].job, copy |-> proc[p].copy, todo |-> proc[p].todo \ {<<s, 0>>}]
    BY <1>2, Moves DEF Left, Become, Sound, ProcsOK
  <2>2. Steady(p)
    BY <1>0, <1>1, <2>1 DEF Steady
  <2>3. Ready(p) /\ Same(p)
    BY <1>0, <2>1, <2>2, SteadyReady DEF Ready, Brings
  <2>4. ASSUME NEW q \in Procs, q # p PROVE Ready(q) /\ Same(q)
    BY <2>1, <2>4, QuietReady DEF Elsewhere, Quiet
  <2>5. QED
    BY <2>3, <2>4
<1>3. CASE Finish(p) \/ Become(p, "write", JobOf(p), proc[p].copy, {})
  BY <1>3, QuietEnd, QuietGoing, QuietReady
<1>4. QED
  BY <1>2, <1>3 DEF Revoke, RevokeRejected

LEMMA PullReady ==
    ASSUME Sound, Sound', Revoking, Lasting, Progress, NEW p \in Procs, Pull(p)
    PROVE  \A q \in Procs : Ready(q) /\ Same(q)
<1>1. CASE Finish(p)
  BY <1>1, QuietEnd, QuietReady
<1>2. CASE JobOf(p).type = "checkout" /\ Goto(p, "append")
  <2>1. /\ Elsewhere(p)
        /\ proc'[p] = [pc |-> "append", job |-> proc[p].job, copy |-> proc[p].copy, todo |-> proc[p].todo]
    BY <1>2, Moves DEF Goto, Become, Sound, ProcsOK
  <2>2. Steady(p)
    BY <2>1 DEF Steady
  <2>3. Brings(p)'
    BY <1>2, <2>1 DEF Pull, At, Lasting, Brings, ForGood
  <2>4. Ready(p) /\ Same(p)
    BY <2>2, <2>3, SteadyReady DEF Ready
  <2>5. ASSUME NEW q \in Procs, q # p PROVE Ready(q) /\ Same(q)
    BY <2>1, <2>5, QuietReady DEF Elsewhere, Quiet
  <2>6. QED
    BY <2>4, <2>5
<1>3. QED
  BY <1>1, <1>2 DEF Pull

LEMMA DeliverReady ==
    ASSUME Sound, Sound', Revoking, Lasting, Progress, NEW h \in Handlers, NEW n \in events, Deliver(h, n)
    PROVE  \A q \in Procs : Ready(q) /\ Same(q)
<1> DEFINE k == n.key
           expiry == IF k \in Courses /\ Term[k] # Never THEN clock + Term[k] ELSE Never
           j == [n EXCEPT !.end = expiry]
<1>1. \/ \E l \in {"sale", "dedupe", "insert", "save", "write"} : \E c, t : Become(h, l, n, c, t)
      \/ k \in Courses /\ Become(h, "pull", j, <<>>, {})
      \/ UNCHANGED proc
  BY DEF Deliver, Begin
<1>2. h \in Procs
  BY DEF Procs
<1>3. CASE UNCHANGED proc
  BY <1>3, QuietReady DEF Quiet
<1>4. CASE k \in Courses /\ Become(h, "pull", j, <<>>, {})
  <2>1. Elsewhere(h) /\ proc'[h] = [pc |-> "pull", job |-> j, copy |-> <<>>, todo |-> {}]
    BY <1>2, <1>4, Moves DEF Become, Sound, ProcsOK
  <2>2. n \in Job
    BY DEF Sound, WorldOK, Announced
  <2>3. j.key = k /\ j.end = expiry
    BY <2>2 DEF Job
  <2>4. ForGood(k) => expiry = Never
    BY DEF ForGood
  <2> HIDE DEF j, expiry
  <2>5. Brings(h)' /\ Steady(h)
    BY <2>1, <2>3, <2>4 DEF Brings, Steady, ForGood
  <2>6. Ready(h) /\ Same(h)
    BY <1>2, <2>5, SteadyReady DEF Ready
  <2>7. ASSUME NEW q \in Procs, q # h PROVE Ready(q) /\ Same(q)
    BY <2>1, <2>7, QuietReady DEF Elsewhere, Quiet
  <2>8. QED
    BY <2>6, <2>7
<1>5. CASE \E l \in {"sale", "dedupe", "insert", "save", "write"} : \E c, t : Become(h, l, n, c, t)
  BY <1>2, <1>5, QuietGoing, QuietReady
<1>6. QED
  BY <1>1, <1>3, <1>4, <1>5
\* A clean-up is asked for when no element of the plan is live, and it is for
\* Stripe to cancel them all.
LEMMA BuyReady ==
    ASSUME Sound, Sound', Revoking, Lasting, Progress, NEW h \in Handlers, NEW k \in Keys, Buy(h, k)
    PROVE  (\A q \in Procs : Ready(q)) /\ (\A q \in Procs \ {h} : Same(q))
<1> DEFINE plan == SamePlan(k)
           I == {i \in DOMAIN subs : subs[i].key \in plan}
           old == Selected(subs, I)
           t == {<<s, 0>> : s \in {j \in Subs : Holds(old, j)}}
           b == NewJob("buy", k, 0, "none")
<1>1. /\ h \in Procs /\ h # "sweep" /\ subs \in Seq(Entry) /\ I \in SUBSET DOMAIN subs
      /\ stripe' = stripe /\ clock' = clock /\ faults' = faults
  BY HandlersAssumption DEF Procs, Sound, DocOK, Buy
<1>2. \A i \in DOMAIN old : ~Live(old[i])
  BY DEF Buy, Only
<1>3. \A i \in I : \E j \in DOMAIN old : old[j] = subs[i]
  BY <1>1, SelectedThinned
<1>4. proc' = proc \/ Become(h, "revoke", b, subs, t)
  BY DEF Buy, Begin, Only
<1>5. CASE proc' = proc
  BY <1>5, QuietReady DEF Quiet
<1>6. CASE Become(h, "revoke", b, subs, t)
  <2>1. \A i \in DOMAIN subs : subs[i].key \in plan => i \in I
    OBVIOUS
  <2>2. b.key = k
    OBVIOUS
  <2> HIDE DEF I, plan
  <2>3. ASSUME NEW i \in DOMAIN subs, subs[i].key \in plan
        PROVE  ~Live(subs[i]) /\ (subs[i].key \in Subs => <<subs[i].key, 0>> \in t)
    <3>1. PICK j \in DOMAIN old : old[j] = subs[i]
      BY <1>3, <2>1, <2>3
    <3>2. Holds(old, subs[i].key)
      BY <3>1 DEF Holds
    <3>3. QED
      BY <1>2, <3>1, <3>2
  <2> HIDE DEF t, b
  <2>4. Elsewhere(h) /\ proc'[h] = [pc |-> "revoke", job |-> b, copy |-> subs, todo |-> t]
    BY <1>1, <1>6, Moves DEF Become, Sound, ProcsOK
  <2>5. BuysAfter(h)'
    <3>1. ASSUME NEW i \in DOMAIN proc'[h].copy, proc'[h].copy[i].key \in SamePlan(proc'[h].job.key)
          PROVE  ~LiveNext(proc'[h].copy[i]) /\ RevokedNext(h, proc'[h].copy[i])
      BY <1>1, <2>2, <2>3, <2>4, <3>1 DEF plan, Live, LiveNext, RevokedNext
    <3>2. QED
      BY <3>1, BuysNext
  <2>6. Ready(h)
    BY <1>1, <2>4, <2>5 DEF Ready, Brings
  <2>7. ASSUME NEW q \in Procs, q # h PROVE Ready(q) /\ Same(q)
    BY <2>4, <2>7, QuietReady DEF Elsewhere, Quiet
  <2>8. QED
    BY <2>6, <2>7
<1>7. QED
  BY <1>4, <1>5, <1>6

LEMMA CancelReady ==
    ASSUME Sound, Sound', Revoking, Lasting, Progress, NEW h \in Handlers, NEW k \in Keys, Cancel(h, k)
    PROVE  \A q \in Procs : Ready(q) /\ Same(q)
<1>1. h \in Procs /\ h # "sweep"
  BY HandlersAssumption DEF Procs
<1>2. \E l \in {"revoke", "pull"} : \E c, t : Become(h, l, NewJob("cancel", k, 0, "none"), c, t)
  BY DEF Cancel, Begin
<1>a. PICK l \in {"revoke", "pull"} : \E c, t : Become(h, l, NewJob("cancel", k, 0, "none"), c, t)
  BY <1>2
<1>3. PICK c, t : Become(h, l, NewJob("cancel", k, 0, "none"), c, t)
  BY <1>a
<1>4. /\ Elsewhere(h)
      /\ proc'[h] = [pc |-> l, job |-> NewJob("cancel", k, 0, "none"), copy |-> c, todo |-> t]
  BY <1>1, <1>3, Moves DEF Become, Sound, ProcsOK
<1>5. Ready(h) /\ Same(h)
  BY <1>1, <1>4 DEF Ready, Brings, BuysAfter, Same, Buying
<1>6. ASSUME NEW q \in Procs, q # h PROVE Ready(q) /\ Same(q)
  BY <1>4, <1>6, QuietReady DEF Elsewhere, Quiet
<1>7. QED
  BY <1>5, <1>6

LEMMA SweepReady ==
    ASSUME Sound, Sound', Revoking, Lasting, Progress, SweepStart
    PROVE  \A q \in Procs : Ready(q) /\ Same(q)
<1> DEFINE T == {j \in Subs : \E i \in DOMAIN subs : subs[i].key = j /\ Lapsed(subs[i], clock)}
           t == {<<s, 0>> : s \in T}
           j == NewJob("sweep", NoKey, clock, "none")
<1>1. "sweep" \in Procs /\ stripe' = stripe /\ clock' = clock /\ faults' = faults /\ clock \in Nat
  BY BoundsAssumption DEF Procs, SweepStart, Sound, WorldOK
<1>2. Become("sweep", "revoke", j, subs, t)
  BY DEF SweepStart, Begin
<1>3. Elsewhere("sweep") /\ proc'["sweep"] = [pc |-> "revoke", job |-> j, copy |-> subs, todo |-> t]
  BY <1>1, <1>2, Moves DEF Become, Sound, ProcsOK
<1>4. \A i \in DOMAIN subs : subs[i].key \in Subs /\ Lapsed(subs[i], clock) => <<subs[i].key, 0>> \in t
  OBVIOUS
<1>5. j.end = clock /\ j.type = "sweep"
  OBVIOUS
<1> HIDE DEF t, j
<1>6. SweepsAfter'
  <2>1. proc'["sweep"].job.end <= clock'
    BY <1>1, <1>3, <1>5
  <2>2. \A i \in DOMAIN proc'["sweep"].copy :
           Lapsed(proc'["sweep"].copy[i], proc'["sweep"].job.end) => RevokedNext("sweep", proc'["sweep"].copy[i])
    BY <1>1, <1>3, <1>4, <1>5 DEF RevokedNext
  <2>3. QED
    BY <2>1, <2>2 DEF SweepsAfter, Lapsed, Revoked, RevokedNext, Over
<1>7. Ready("sweep") /\ Same("sweep")
  BY <1>3, <1>5, <1>6 DEF Ready, Brings, BuysAfter, Same, Buying
<1>8. ASSUME NEW q \in Procs, q # "sweep" PROVE Ready(q) /\ Same(q)
  BY <1>3, <1>8, QuietReady DEF Elsewhere, Quiet
<1>9. QED
  BY <1>7, <1>8

LEMMA StepReady ==
    ASSUME Sound, Sound', Revoking, Lasting, Progress, [Next]_vars
    PROVE  /\ \A q \in Procs : Ready(q)
           /\ \A q \in Procs : Same(q) \/ \E k \in Keys : q \in Handlers /\ Buy(q, k)
<1> DEFINE OK == \A q \in Procs : Ready(q) /\ Same(q)
<1> HIDE DEF OK
<1>a. (\A q \in Procs : Quiet(q)) => OK
  BY QuietReady DEF OK
<1>1. CASE UNCHANGED vars \/ Tick \/ Stripe \/ \E k \in Keys : Pay(k)
  <2>1. proc' = proc
    BY <1>1 DEF Tick, Stripe, Pay, Roll, GiveUp, Collect, Decline
  <2>2. OK
    BY <1>a, <2>1 DEF Quiet
  <2>3. QED
    BY <2>2 DEF OK
<1>2. CASE Faulty
  <2>1. CASE Crash
    <3>1. \A q \in Procs : Quiet(q)
      BY <2>1 DEF Crash, Quiet, Idle
    <3>2. QED
      BY <1>a, <3>1 DEF OK
  <2>2. ASSUME NEW p \in Procs, CallRejected(p) \/ FetchRejected(p) \/ ExtendRejected(p) PROVE OK
    BY <1>a, <2>2, QuietHandler
  <2>3. ASSUME NEW p \in Procs, NEW s \in Subs, RevokeRejected(p, s) PROVE OK
    BY <2>3, RevokeReady DEF OK
  <2>4. QED
    BY <1>2, <2>1, <2>2, <2>3 DEF Faulty, Procs, OK
<1>3. ASSUME NEW h \in Handlers, NEW k \in Keys, Buy(h, k)
      PROVE  /\ \A q \in Procs : Ready(q)
             /\ \A q \in Procs : Same(q) \/ \E j \in Keys : q \in Handlers /\ Buy(q, j)
  BY <1>3, BuyReady
<1>4. ASSUME NEW h \in Handlers, NEW k \in Keys, Cancel(h, k) PROVE OK
  BY <1>4, CancelReady DEF OK
<1>5. ASSUME NEW h \in Handlers, NEW n \in events, Deliver(h, n) PROVE OK
  BY <1>5, DeliverReady DEF OK
<1>6. ASSUME NEW h \in Handlers, HandlerStep(h) PROVE OK
  <2>1. h \in Procs
    BY DEF Procs
  <2>2. CASE \E s \in Subs : Revoke(h, s)
    BY <2>1, <2>2, RevokeReady DEF OK
  <2>3. CASE Pull(h)
    BY <2>1, <2>3, PullReady DEF OK
  <2>4. CASE ~((\E s \in Subs : Revoke(h, s)) \/ Pull(h))
    BY <1>6, <1>a, <2>1, <2>4, QuietHandler DEF HandlerStep
  <2>5. QED
    BY <2>2, <2>3, <2>4
<1>7. CASE Sweep
  <2>1. "sweep" \in Procs
    BY DEF Procs
  <2>2. CASE SweepWrite
    BY <1>a, <2>1, <2>2, QuietEnd DEF SweepWrite, OK
  <2>3. QED
    BY <1>7, <2>1, <2>2, SweepReady, RevokeReady DEF Sweep, OK
<1>8. CASE Sync \/ \E kind \in {"hourly", "daily"} : SyncStart(kind)
  <2>1. \A q \in Procs : Quiet(q)
    BY <1>8, QuietSync DEF Sync
  <2>2. OK
    BY <1>a, <2>1
  <2>3. QED
    BY <2>2 DEF OK
<1>9. QED
  BY <1>1, <1>2, <1>3, <1>4, <1>5, <1>6, <1>7, <1>8 DEF Next, User, OK

-----------------------------------------------------------------------------
\* A subscription is bought once: while its checkout is open or prepared,
\* Stripe knows nothing of it.

LEMMA CheckoutsKept ==
    ASSUME Checkouts, StillNone, \A q \in Procs : Same(q), sessions' \subseteq sessions
    PROVE  Checkouts'
<1>1. \A s \in sessions' \cap Subs : stripe'[s].status = "none"
  BY DEF Checkouts, StillNone, FirstPaid
<1>2. ASSUME NEW p \in Procs, Buying(p)', KeyOf(p)' \in Subs
      PROVE  /\ stripe'[KeyOf(p)'].status = "none" /\ KeyOf(p)' \notin sessions'
             /\ \A q \in Procs : Buying(q)' /\ KeyOf(q)' = KeyOf(p)' => q = p
  <2>1. Buying(p) /\ proc'[p].job.key = proc[p].job.key /\ proc[p].job.key \in Subs
    BY <1>2 DEF Same
  <2>2. /\ stripe[proc[p].job.key].status = "none" /\ proc[p].job.key \notin sessions
        /\ \A q \in Procs : Buying(q) /\ proc[q].job.key = proc[p].job.key => q = p
    BY <2>1 DEF Checkouts
  <2>3. stripe'[proc[p].job.key].status = "none"
    BY <2>1, <2>2 DEF StillNone, FirstPaid
  <2>4. QED
    BY <2>1, <2>2, <2>3 DEF Same
<1>3. QED
  BY <1>1, <1>2 DEF Checkouts

LEMMA CleanUpCheckouts ==
    ASSUME Sound, Checkouts, NEW h \in Procs, CleanUp(h)
    PROVE  Checkouts'
<1>1. /\ Buying(h) /\ sessions' = sessions \cup {proc[h].job.key} /\ stripe' = stripe
      /\ Elsewhere(h) /\ proc'[h] = Idle
  BY Moves DEF CleanUp, Buying, At, Finish, Sound, ProcsOK
<1>2. \A q \in Procs : Buying(q)' => q # h /\ Buying(q) /\ proc'[q].job.key = proc[q].job.key
  BY <1>1 DEF Buying, Elsewhere, Idle
<1>3. \A s \in sessions' \cap Subs : stripe'[s].status = "none"
  BY <1>1 DEF Checkouts
<1>4. ASSUME NEW p \in Procs, Buying(p)', KeyOf(p)' \in Subs
      PROVE  /\ stripe'[KeyOf(p)'].status = "none" /\ KeyOf(p)' \notin sessions'
             /\ \A q \in Procs : Buying(q)' /\ KeyOf(q)' = KeyOf(p)' => q = p
  <2>1. p # h /\ Buying(p) /\ proc'[p].job.key = proc[p].job.key
    BY <1>2, <1>4
  <2>2. /\ stripe[proc[p].job.key].status = "none" /\ proc[p].job.key \notin sessions
        /\ \A q \in Procs : Buying(q) /\ proc[q].job.key = proc[p].job.key => q = p
    BY <1>4, <2>1 DEF Checkouts
  <2>3. QED
    BY <1>1, <1>2, <2>1, <2>2
<1>5. QED
  BY <1>3, <1>4 DEF Checkouts

LEMMA BuyCheckouts ==
    ASSUME Sound, Sound', Revoking, Lasting, Progress, Checkouts, NEW h \in Handlers, NEW k \in Keys, Buy(h, k)
    PROVE  Checkouts'
<1>1. /\ h \in Procs /\ stripe' = stripe /\ k \notin sessions
      /\ k \in Subs => stripe[k].status = "none" /\ \A p \in Procs : proc[p].job.key # k
  BY DEF Procs, Buy
<1>2. CASE sessions' = sessions \cup {k} /\ UNCHANGED proc
  BY <1>1, <1>2 DEF Checkouts, Buying
<1>3. CASE sessions' = sessions /\ \E c, t : Become(h, "revoke", NewJob("buy", k, 0, "none"), c, t)
  <2> DEFINE j == NewJob("buy", k, 0, "none")
  <2>a. PICK c, t : Become(h, "revoke", j, c, t)
    BY <1>3
  <2>b. j.key = k
    OBVIOUS
  <2> HIDE DEF j
  <2>1. Elsewhere(h) /\ proc'[h].job.key = k
    <3> DEFINE x == [pc |-> "revoke", job |-> j, copy |-> c, todo |-> t]
    <3>1. proc' = [proc EXCEPT ![h] = x] /\ x.job = j
      BY <2>a DEF Become
    <3> HIDE DEF x
    <3>2. Elsewhere(h) /\ proc'[h] = x
      BY <1>1, <3>1, Moves DEF Sound, ProcsOK
    <3>3. QED
      BY <2>b, <3>1, <3>2
  <2>2. \A q \in Procs : Buying(q)' /\ q # h => Buying(q) /\ proc'[q].job.key = proc[q].job.key
    BY <2>1 DEF Elsewhere, Buying
  <2>3. \A s \in sessions' \cap Subs : stripe'[s].status = "none"
    BY <1>1, <1>3 DEF Checkouts
  <2>4. ASSUME NEW p \in Procs, Buying(p)', KeyOf(p)' \in Subs
        PROVE  /\ stripe'[KeyOf(p)'].status = "none" /\ KeyOf(p)' \notin sessions'
               /\ \A q \in Procs : Buying(q)' /\ KeyOf(q)' = KeyOf(p)' => q = p
    <3>1. CASE p = h
      BY <1>1, <1>3, <2>1, <2>2, <2>4, <3>1
    <3>2. CASE p # h
      <4>1. Buying(p) /\ proc'[p].job.key = proc[p].job.key
        BY <2>2, <2>4, <3>2
      <4>2. /\ stripe[proc[p].job.key].status = "none" /\ proc[p].job.key \notin sessions
            /\ \A q \in Procs : Buying(q) /\ proc[q].job.key = proc[p].job.key => q = p
        BY <2>4, <4>1 DEF Checkouts
      <4>3. QED
        BY <1>1, <1>3, <2>1, <2>2, <2>4, <4>1, <4>2
    <3>3. QED
      BY <3>1, <3>2
  <2>5. QED
    BY <2>3, <2>4 DEF Checkouts
<1>4. QED
  BY <1>2, <1>3 DEF Buy, Begin

LEMMA StepCheckouts ==
    ASSUME Sound, Sound', Revoking, Lasting, Checkouts, [Next]_vars
    PROVE  Checkouts'
<1>0. Progress /\ StillNone
  BY StepProgress
<1>1. ASSUME NEW h \in Handlers, NEW k \in Keys, Buy(h, k) PROVE Checkouts'
  BY <1>0, <1>1, BuyCheckouts
<1>2. ASSUME NEW h \in Handlers, CleanUp(h) PROVE Checkouts'
  BY <1>2, CleanUpCheckouts DEF Procs
<1>3. CASE /\ ~\E h \in Handlers, k \in Keys : Buy(h, k)
           /\ ~\E h \in Handlers : CleanUp(h)
  <2>1. \A q \in Procs : Same(q)
    BY <1>0, <1>3, StepReady
  <2>2. sessions' \subseteq sessions
    <3>1. CASE UNCHANGED vars \/ Tick \/ Stripe \/ User \/ \E h \in Handlers, n \in events : Deliver(h, n)
      BY <1>3, <3>1 DEF Tick, Stripe, User, Pay, Roll, GiveUp, Collect, Decline, Cancel, Deliver
    <3>2. CASE Sweep \/ Sync \/ Faulty \/ \E kind \in {"hourly", "daily"} : SyncStart(kind)
      BY <3>2 DEF Sync, SyncStart, SyncRead, SyncAdjust, SyncApply, SyncAdd, SyncForce, SyncWrite, SyncLoaded,
         SyncList, SyncDone, Sweep, SweepStart, SweepWrite, Revoke,
         Faulty, CallRejected, RevokeRejected, FetchRejected, ExtendRejected, Crash
    <3>3. CASE \E h \in Handlers : HandlerStep(h)
      <4>1. PICK h \in Handlers : HandlerStep(h) /\ ~CleanUp(h)
        BY <1>3, <3>3
      <4>2. CASE (\E s \in Subs : Revoke(h, s)) \/ WriteCancelled(h) \/ RecordSale(h) \/ Fetch(h) \/ Upsert(h)
                 \/ PushIfAbsent(h) \/ Pull(h) \/ AppendCourse(h)
        BY <4>2 DEF Revoke, WriteCancelled, RecordSale, Fetch, Upsert, PushIfAbsent, Pull, AppendCourse
      <4>3. CASE Dedupe(h) \/ Insert(h) \/ RecordRenewal(h) \/ Extend(h) \/ Direct(h) \/ Ensure(h)
                 \/ WriteUpdated(h) \/ WriteDeleted(h) \/ SaveFailed(h)
        BY <4>3 DEF Dedupe, Insert, RecordRenewal, Extend, Direct, Ensure, WriteUpdated, WriteDeleted, SaveFailed
      <4>4. QED
        BY <4>1, <4>2, <4>3 DEF HandlerStep
    <3>4. QED
      BY <3>1, <3>2, <3>3 DEF Next
  <2>3. QED
    BY <1>0, <2>1, <2>2, CheckoutsKept
<1>4. QED
  BY <1>1, <1>2, <1>3

-----------------------------------------------------------------------------
\* Revoking and Lasting keep track of what is in hand, the rest of what is held.
Held == Sound /\ Checkouts /\ Revoking /\ Lasting /\ ActiveIsHeld

LEMMA HeldInit == Init => Held
<1> SUFFICES ASSUME Init PROVE Held
  OBVIOUS
<1>1. Sound
  BY SoundInit
<1>2. \A p \in Procs : proc[p].pc = "idle"
  BY DEF Init, Idle
<1>3. Checkouts /\ Revoking
  BY <1>2 DEF Init, Checkouts, Revoking, Buying, BuysAfter, SweepsAfter, Procs
<1>4. DOMAIN subs = {} /\ active = {} /\ owned = {}
  BY DEF Init
<1>5. Lasting /\ ActiveIsHeld
  BY <1>2, <1>4 DEF Lasting, LastingCourses, Brings, ActiveIsHeld
<1>6. QED
  BY <1>1, <1>3, <1>5 DEF Held

LEMMA ActiveKept ==
    ASSUME Sound, Sound', ActiveIsHeld, Fates
    PROVE  ActiveIsHeld'
<1> SUFFICES ASSUME NEW s \in active' \ (clobbered' \cup echoed'), ~Holds(subs', s) PROVE FALSE
  BY DEF ActiveIsHeld, Holds
<1>1. s \in Subs /\ s \in Keys /\ s \notin Courses
  BY KeysAssumption DEF Sound, DocOK, Keys
<1>2. s \in active /\ s \notin clobbered /\ s \notin echoed
  BY DEF Fates
<1>3. Holds(subs, s)
  BY <1>2 DEF ActiveIsHeld
<1>4. Thinning(s)
  BY <1>1 DEF Fates, Fate, Revived, Bought
<1>5. PICK i \in DOMAIN subs : subs[i].key = s
  BY <1>3 DEF Holds
<1>6. ~Gone(s, subs[i])
  BY <1>1 DEF Gone
<1>7. \E j \in DOMAIN subs' : subs'[j] = subs[i]
  BY <1>4, <1>5, <1>6 DEF Thinning
<1>8. QED
  BY <1>5, <1>7 DEF Holds

LEMMA CoursesKept ==
    ASSUME Sound, LastingCourses, Fates
    PROVE  LastingCourses'
<1> SUFFICES ASSUME NEW c \in Courses \ (clobbered' \cup ended'), ForGood(c)
             PROVE  /\ \A i \in DOMAIN subs' : subs'[i].key = c => subs'[i].end = Never
                    /\ c \in owned' => \E i \in DOMAIN subs' : subs'[i].key = c /\ subs'[i].expires = Never
  BY DEF LastingCourses, ForGood
<1>1. /\ \A i \in DOMAIN subs : subs[i].key = c => subs[i].end = Never
      /\ c \in owned => \E i \in DOMAIN subs : subs[i].key = c /\ subs[i].expires = Never
  BY DEF LastingCourses, Fates
<1>2. c \in Keys /\ c \notin Subs /\ Fate(c) /\ (c \in owned' => c \in owned \/ Bought(c))
  BY KeysAssumption DEF Keys, Fates
<1>3. CASE Bought(c)
  BY <1>3 DEF Bought, Holds
<1>4. CASE ~Bought(c)
  <2>1. Thinning(c)
    BY <1>2, <1>4 DEF Fate, Revived
  <2>2. \A i \in DOMAIN subs' : subs'[i].key = c => subs'[i].end = Never
    BY <1>1, <2>1 DEF Thinning, Thinned
  <2>3. ASSUME c \in owned' PROVE \E i \in DOMAIN subs' : subs'[i].key = c /\ subs'[i].expires = Never
    <3>1. PICK i \in DOMAIN subs : subs[i].key = c /\ subs[i].expires = Never
      BY <1>1, <1>2, <1>4, <2>3
    <3>2. subs[i].end = Never
      BY <1>1, <3>1
    <3>3. Never > clock
      BY NeverIsNat, BoundsAssumption DEF Sound, WorldOK
    <3>4. ~Gone(c, subs[i])
      BY <1>2, <2>3, <3>1, <3>2, <3>3 DEF Gone, Live
    <3>5. PICK j \in DOMAIN subs' : subs'[j] = subs[i]
      BY <2>1, <3>1, <3>4 DEF Thinning
    <3>6. QED
      BY <3>1, <3>5
  <2>4. QED
    BY <2>2, <2>3
<1>5. QED
  BY <1>3, <1>4

LEMMA HeldInductive ==
    ASSUME Held, [Next]_vars
    PROVE  Held' /\ Fates
<1>1. Sound /\ Checkouts /\ Revoking /\ Lasting /\ ActiveIsHeld
  BY DEF Held
<1>2. Sound' /\ Fates
  BY <1>1, SoundInductive, StepFates
<1>3. Checkouts' /\ Progress
  BY <1>1, <1>2, StepCheckouts, StepProgress
<1>4. \A q \in Procs : Ready(q)
  BY <1>1, <1>2, <1>3, StepReady
<1>5. Revoking'
  BY <1>4 DEF Ready, Revoking, Procs
<1>6. LastingCourses'
  BY <1>1, <1>2, CoursesKept DEF Lasting
<1>7. Lasting'
  BY <1>4, <1>6 DEF Ready, Lasting
<1>8. ActiveIsHeld'
  BY <1>1, <1>2, ActiveKept
<1>9. QED
  BY <1>2, <1>3, <1>5, <1>7, <1>8 DEF Held

\* What every step preserves: the types and periods of Sound, what processes
\* have in hand, and what the array then keeps.
THEOREM AlwaysHeld == Spec => []Held
<1>1. QED
  BY HeldInit, HeldInductive, PTL DEF Spec

\* activeSubscriptions and the array are written by separate updates of many
\* writers, yet what the first names the second holds, unless a write
\* overwrote the element or a handler named what was removed meanwhile.
THEOREM ActiveNamesHeld == Spec => []ActiveIsHeld
<1>1. QED
  BY AlwaysHeld, PTL DEF Held

\* A course bought for good stays in the array without an end, for every
\* order of purchases, jobs and events, unless a write overwrote it or the
\* handler of some deletion gave it an end.
THEOREM CoursesLast == Spec => []PurchaseKept
<1>1. Held => PurchaseKept
  BY DEF Held, Lasting, LastingCourses, PurchaseKept, Sound, GhostsOK, ForGood
<1>2. QED
  BY <1>1, AlwaysHeld, PTL

\* No step of any writer removes a subscription whose period and access are
\* not over, unless it overwrites the element with an old copy.
THEOREM LiveIsNotDropped == Spec => DropsOnlyLapsed
<1>1. ASSUME Held, Fates, NEW s \in Subs, Holds(subs, s), ~Holds(subs', s), s \notin clobbered',
             NEW i \in DOMAIN subs, subs[i].key = s
      PROVE  ~Live(subs[i])
  <2>1. s \in Keys /\ s \notin Courses
    BY KeysAssumption DEF Keys
  <2>2. Thinning(s)
    BY <1>1, <2>1 DEF Fates, Fate, Revived, Bought
  <2>3. Gone(s, subs[i])
    BY <1>1, <2>2 DEF Thinning, Holds
  <2>4. QED
    BY <2>1, <2>3 DEF Gone
<1>2. Held /\ [Next]_vars =>
         [\A s \in Subs : Holds(subs, s) /\ ~Holds(subs', s) =>
             \/ s \in clobbered'
             \/ \A i \in DOMAIN subs : subs[i].key = s => ~Live(subs[i])]_vars
  BY <1>1, HeldInductive
<1>3. QED
  BY <1>2, AlwaysHeld, PTL DEF Spec, DropsOnlyLapsed

-----------------------------------------------------------------------------
(***************************************************************************)
(* 4. Access of who is billed                                              *)
(***************************************************************************)
\* The payment of v waits to be delivered.
PaidEvent(v) == NewJob("paid", v[1], v[2], "active") \in events

\* A payment is of one collected invoice, and waits or has one handler.
Once ==
    /\ unpaid \cap collected = {}
    /\ \A v \in Invoices : PaidEvent(v) => v \in collected
    /\ \A v \in Invoices, p \in Procs : Carries(p, v) =>
          v \in collected /\ ~PaidEvent(v) /\ \A q \in Procs : Carries(q, v) => q = p

\* The steps of a handler that leads to an element in the array.
ToGrant == {"insert", "history", "extend", "push"}

UnderWay(p, v) ==
    /\ Carries(p, v)
    /\ proc[p].pc \in ToGrant \/ (proc[p].pc = "dedupe" /\ tx[v] = <<>>)

\* The first payment of s waits or is under way, nothing else of s was ever
\* invoiced, and no failed attempt can take the transaction's place.
First(s) ==
    LET v == <<s, clock + 1>>
    IN  /\ stripe[s].status = "active" /\ stripe[s].end = clock + 1
        /\ \A w \in unpaid : w[1] # s
        /\ \A w \in collected : w[1] = s => w = v
        /\ \A n \in events : n.key = s => n.type # "failed"
        /\ \A p \in Procs : proc[p].pc \in {"dedupe", "insert"} /\ KeyOf(p) = s => JobOf(p).type = "paid"
        /\ (PaidEvent(v) /\ tx[v] = <<>>) \/ \E p \in Procs : UnderWay(p, v)

\* Stripe goes on collecting.
Billed(s) == stripe[s].status \in {"active", "past_due"}

Reached == \A s \in Subs \ clobbered : Billed(s) => Holds(subs, s) \/ First(s)

Paying == faults = 0 => Once /\ Reached

\* How one process moves: a payment it carries after the step it carried
\* before, and goes on to grant the subscription.
MayCarry(p) == Carrying(p)' => Carrying(p) /\ proc'[p].job = proc[p].job

Checks(p) == proc'[p].pc \in {"dedupe", "insert"} =>
    proc[p].pc \in {"dedupe", "insert"} /\ proc'[p].job = proc[p].job

GoesOnWay(p) ==
    \A s \in Subs : UnderWay(p, <<s, clock + 1>>) /\ ~Holds(subs, s) /\ ~Holds(subs', s) =>
        proc'[p].job = proc[p].job /\ proc'[p].pc \in ToGrant

TxStays(p) == \A v \in Invoices : tx[v] = <<>> /\ tx'[v] # <<>> => InvoiceOf(p) = v /\ proc[p].pc = "insert"

Moved(p) == Elsewhere(p) /\ MayCarry(p) /\ Checks(p) /\ GoesOnWay(p) /\ TxStays(p)

\* Stripe may cancel a subscription meanwhile.
Apart ==
    /\ UNCHANGED <<clock, unpaid, collected>>
    /\ (stripe' = stripe /\ events' = events) \/ \E r \in Subs : CancelAtStripe(r)

LEMMA UnmovedMoved ==
    ASSUME ProcsAreRecords, NEW p \in Procs, proc' = proc, tx' = tx, ~Carrying(p)
    PROVE  Moved(p)
BY DEF Moved, Elsewhere, ProcsAreRecords, MayCarry, Carrying, Checks, GoesOnWay, UnderWay, Carries, TxStays

\* Steps that end the job or go on with it, elsewhere.
LEMMA AsideEnd ==
    ASSUME ProcsAreRecords, NEW p \in Procs, tx' = tx, proc[p].pc \notin ToGrant \cup {"dedupe"}, Finish(p)
    PROVE  Moved(p)
<1>1. Elsewhere(p) /\ proc'[p] = Idle
  BY Moves DEF Finish
<1>2. Idle.pc = "idle"
  BY DEF Idle
<1>3. QED
  BY <1>1, <1>2 DEF Moved, MayCarry, Carrying, Checks, GoesOnWay, UnderWay, TxStays

LEMMA AsideMoved ==
    ASSUME ProcsAreRecords, NEW p \in Procs, tx' = tx, proc[p].pc \notin ToGrant \cup {"dedupe"}, proc[p].pc # "idle",
           NEW l, NEW c, NEW t, l \notin {"dedupe", "insert"}, Become(p, l, JobOf(p), c, t)
    PROVE  Moved(p)
<1>1. Elsewhere(p) /\ proc'[p].pc = l /\ proc'[p].job = proc[p].job
  <2>1. Elsewhere(p) /\ proc'[p] = [pc |-> l, job |-> proc[p].job, copy |-> c, todo |-> t]
    BY Moves DEF Become
  <2>2. QED
    BY <2>1
<1>2. QED
  BY <1>1 DEF Moved, MayCarry, Carrying, Checks, GoesOnWay, UnderWay, TxStays

\* Steps that take up another job, which is no payment.
LEMMA OtherMoved ==
    ASSUME ProcsAreRecords, NEW p \in Procs, tx' = tx, proc[p].pc \notin ToGrant \cup {"dedupe"},
           NEW l, NEW j, NEW c, NEW t, l \notin {"dedupe", "insert"}, j.type # "paid",
           Become(p, l, j, c, t)
    PROVE  Moved(p)
<1>1. Elsewhere(p) /\ proc'[p].pc = l /\ proc'[p].job = j
  <2>1. Elsewhere(p) /\ proc'[p] = [pc |-> l, job |-> j, copy |-> c, todo |-> t]
    BY Moves DEF Become
  <2>2. QED
    BY <2>1
<1>2. QED
  BY <1>1 DEF Moved, MayCarry, Carrying, Checks, GoesOnWay, UnderWay, TxStays

LEMMA HandlerAside ==
    ASSUME Sound, NEW h \in Procs,
           \/ CleanUp(h) \/ WriteCancelled(h) \/ WriteUpdated(h) \/ WriteDeleted(h)
           \/ RecordSale(h) \/ Fetch(h) \/ Upsert(h) \/ Pull(h) \/ AppendCourse(h)
           \/ Direct(h) \/ Ensure(h) \/ \E s \in Subs : Revoke(h, s)
    PROVE  Moved(h) /\ Apart
<1>0. ProcsAreRecords
  BY DEF Sound, ProcsOK
<1>1. tx' = tx /\ proc[h].pc \in {"revoke", "write", "sale", "fetch", "upsert", "pull", "append", "direct", "ensure"}
  BY DEF CleanUp, WriteCancelled, WriteUpdated, WriteDeleted, RecordSale, Fetch, Upsert, Pull, AppendCourse,
         Direct, Ensure, Revoke, At
<1>2. tx' = tx /\ proc[h].pc \notin ToGrant \cup {"dedupe"} /\ proc[h].pc # "idle"
  BY <1>1 DEF ToGrant
<1>3. \/ Finish(h)
      \/ \E l \in {"fetch", "push", "append", "ensure", "write", "revoke"} : \E c, t : Become(h, l, JobOf(h), c, t)
      \/ Fetch(h)
  BY DEF CleanUp, WriteCancelled, WriteUpdated, WriteDeleted, RecordSale, Upsert, Pull, AppendCourse,
         Direct, Ensure, Revoke, Left, Goto, At
<1>4. ASSUME Finish(h) PROVE Moved(h)
  BY <1>0, <1>2, <1>4, AsideEnd
<1>5. ASSUME \E l \in {"fetch", "push", "append", "ensure", "write", "revoke"} : \E c, t : Become(h, l, JobOf(h), c, t)
      PROVE  Moved(h)
  <2>a. PICK l \in {"fetch", "push", "append", "ensure", "write", "revoke"} : \E c, t : Become(h, l, JobOf(h), c, t)
    BY <1>5
  <2>1. PICK c, t : Become(h, l, JobOf(h), c, t)
    BY <2>a
  <2>2. QED
    BY <1>0, <1>2, <2>1, AsideMoved
<1>6. ASSUME Fetch(h) PROVE Moved(h)
  <2>1. \E l \in {"upsert"}, j \in {NewJob("checkout", KeyOf(h), stripe[KeyOf(h)].end, stripe[KeyOf(h)].status)} :
           Become(h, l, j, proc[h].copy, proc[h].todo) /\ j.type # "paid"
    BY <1>6 DEF Fetch, Turn
  <2>2. QED
    BY <1>0, <1>2, <2>1, OtherMoved
<1>7. Moved(h)
  BY <1>3, <1>4, <1>5, <1>6
<1>8. Apart
  BY DEF Apart, CleanUp, WriteCancelled, WriteUpdated, WriteDeleted, RecordSale, Fetch, Upsert, Pull,
         AppendCourse, Direct, Ensure, Revoke
<1>9. QED
  BY <1>7, <1>8

LEMMA SyncMoved ==
    ASSUME Sound, Sync \/ \E kind \in {"hourly", "daily"} : SyncStart(kind)
    PROVE  Moved("sync") /\ Apart
<1>0. ProcsAreRecords /\ "sync" \in Procs /\ JobOf("sync").type # "paid"
  BY HeldRecord DEF Sound, ProcsOK, Procs
<1>1. tx' = tx /\ proc["sync"].pc \in {"idle", "each", "apply", "add", "force", "write", "list", "adjust"}
  BY DEF Sync, SyncStart, SyncRead, SyncAdjust, SyncApply, SyncAdd, SyncForce, SyncWrite, SyncLoaded,
         SyncList, SyncDone, At
<1>2. proc["sync"].pc \notin ToGrant \cup {"dedupe"}
  BY <1>1 DEF ToGrant
<1>3. ASSUME NEW kind \in {"hourly", "daily"}, SyncStart(kind) PROVE Moved("sync")
  BY <1>0, <1>1, <1>2, <1>3, OtherMoved DEF SyncStart, Begin
<1>4. ASSUME NEW v \in Invoices, SyncRead(v) PROVE Moved("sync")
  <2>a. \E l \in {"each", "apply", "add"} : \E k, e :
           Become("sync", l, NewJob(JobOf("sync").type, k, e, "active"), <<>>, proc["sync"].todo \ {v})
    BY <1>4 DEF SyncRead
  <2>b. PICK l \in {"each", "apply", "add"} : \E k, e :
           Become("sync", l, NewJob(JobOf("sync").type, k, e, "active"), <<>>, proc["sync"].todo \ {v})
    BY <2>a
  <2>1. PICK k, e :
           Become("sync", l, NewJob(JobOf("sync").type, k, e, "active"), <<>>, proc["sync"].todo \ {v})
    BY <2>b
  <2>2. NewJob(JobOf("sync").type, k, e, "active").type # "paid"
    BY <1>0
  <2>3. QED
    BY <1>0, <1>1, <1>2, <2>1, <2>2, OtherMoved
<1>5. ASSUME NextTransaction PROVE Moved("sync")
  <2>1. NewJob(JobOf("sync").type, NoKey, 0, "active").type # "paid"
    BY <1>0
  <2>2. QED
    BY <1>0, <1>1, <1>2, <1>5, <2>1, OtherMoved DEF NextTransaction
<1>6. ASSUME proc["sync"].pc # "idle",
             \/ Finish("sync")
             \/ \E l \in {"force", "write", "list", "adjust"} : \E c, t : Become("sync", l, JobOf("sync"), c, t)
      PROVE  Moved("sync")
  <2>1. CASE Finish("sync")
    BY <1>0, <1>1, <1>2, <1>6, <2>1, AsideEnd
  <2>2. CASE \E l \in {"force", "write", "list", "adjust"} : \E c, t : Become("sync", l, JobOf("sync"), c, t)
    <3>a. PICK l \in {"force", "write", "list", "adjust"} : \E c, t : Become("sync", l, JobOf("sync"), c, t)
      BY <2>2
    <3>1. PICK c, t : Become("sync", l, JobOf("sync"), c, t)
      BY <3>a
    <3>2. QED
      BY <1>0, <1>1, <1>2, <1>6, <3>1, AsideMoved
  <2>3. QED
    BY <1>6, <2>1, <2>2
<1>7. ASSUME SyncApply \/ SyncAdd \/ SyncWrite PROVE Moved("sync")
  <2>1. proc["sync"].pc # "idle" /\ (NextTransaction \/ Goto("sync", "force"))
    BY <1>7 DEF SyncApply, SyncAdd, SyncWrite, At
  <2>2. QED
    BY <1>5, <1>6, <2>1 DEF Goto
<1>8. ASSUME SyncForce \/ SyncLoaded \/ SyncList \/ SyncDone \/ \E v \in Invoices : SyncAdjust(v) PROVE Moved("sync")
  <2>1. proc["sync"].pc # "idle"
    BY <1>8 DEF SyncForce, SyncLoaded, SyncList, SyncDone, SyncAdjust, At
  <2>2. ASSUME SyncForce \/ SyncLoaded \/ SyncList \/ SyncDone PROVE Moved("sync")
    BY <1>6, <2>1, <2>2 DEF SyncForce, SyncLoaded, SyncList, SyncDone
  <2>3. ASSUME NEW v \in Invoices, SyncAdjust(v) PROVE Moved("sync")
    BY <1>6, <2>1, <2>3 DEF SyncAdjust, Left, At
  <2>4. QED
    BY <1>8, <2>2, <2>3
<1>9. Moved("sync")
  BY <1>3, <1>4, <1>7, <1>8 DEF Sync
<1>10. Apart
  BY DEF Apart, Sync, SyncStart, SyncRead, SyncAdjust, SyncApply, SyncAdd, SyncForce, SyncWrite, SyncLoaded,
         SyncList, SyncDone
<1>11. QED
  BY <1>9, <1>10

LEMMA SweepMoved ==
    ASSUME Sound, Sweep
    PROVE  Moved("sweep") /\ Apart
<1>0. ProcsAreRecords /\ "sweep" \in Procs
  BY DEF Sound, ProcsOK, Procs
<1>1. ASSUME NEW s \in Subs, Revoke("sweep", s) PROVE Moved("sweep") /\ Apart
  BY <1>0, <1>1, HandlerAside
<1>2. CASE SweepWrite
  <2>1. tx' = tx /\ proc["sweep"].pc = "revoke" /\ Finish("sweep") /\ Apart
    BY <1>2 DEF SweepWrite, At, Apart
  <2>2. QED
    BY <1>0, <2>1, AsideEnd DEF ToGrant
<1>3. CASE SweepStart
  <2>1. tx' = tx /\ proc["sweep"].pc = "idle" /\ Apart
    BY <1>3 DEF SweepStart, At, Apart
  <2>2. QED
    BY <1>0, <1>3, <2>1, OtherMoved DEF ToGrant, SweepStart, Begin
<1>4. QED
  BY <1>1, <1>2, <1>3 DEF Sweep

LEMMA RequestMoved ==
    ASSUME Sound, NEW h \in Handlers, NEW k \in Keys, Buy(h, k) \/ Cancel(h, k)
    PROVE  h \in Procs /\ Moved(h) /\ Apart
<1>0. ProcsAreRecords /\ h \in Procs
  BY DEF Sound, ProcsOK, Procs
<1>1. tx' = tx /\ proc[h].pc = "idle" /\ Apart
  BY DEF Buy, Cancel, Request, At, Apart
<1>2. \/ proc' = proc
      \/ \E l \in {"revoke", "pull"}, y \in {"buy", "cancel"} : \E c, t : Become(h, l, NewJob(y, k, 0, "none"), c, t)
  BY DEF Buy, Cancel, Begin
<1>3. CASE proc' = proc
  BY <1>0, <1>1, <1>3, UnmovedMoved DEF Carrying
<1>4. CASE \E l \in {"revoke", "pull"}, y \in {"buy", "cancel"} : \E c, t : Become(h, l, NewJob(y, k, 0, "none"), c, t)
  <2>a. PICK l \in {"revoke", "pull"}, y \in {"buy", "cancel"} : \E c, t : Become(h, l, NewJob(y, k, 0, "none"), c, t)
    BY <1>4
  <2>1. PICK c, t : Become(h, l, NewJob(y, k, 0, "none"), c, t)
    BY <2>a
  <2>2. NewJob(y, k, 0, "none").type # "paid"
    OBVIOUS
  <2>3. QED
    BY <1>0, <1>1, <2>1, <2>2, OtherMoved DEF ToGrant
<1>5. QED
  BY <1>0, <1>1, <1>2, <1>3, <1>4

LEMMA EmptySaved == [<<>> EXCEPT ![1] = "failed"] = <<>>
OBVIOUS

LEMMA PaymentMoved ==
    ASSUME Sound, NEW h \in Procs,
           Dedupe(h) \/ Insert(h) \/ RecordRenewal(h) \/ Extend(h) \/ PushIfAbsent(h) \/ SaveFailed(h)
    PROVE  Moved(h) /\ Apart
<1>0. ProcsAreRecords /\ tx \in [Invoices -> Seq(Statuses)]
  BY DEF Sound, ProcsOK, LedgerOK
<1>1. Apart
  BY DEF Apart, Dedupe, Insert, RecordRenewal, Extend, PushIfAbsent, SaveFailed
<1>2. proc[h].pc \in {"dedupe", "insert", "history", "extend", "push", "save"}
  BY DEF Dedupe, Insert, RecordRenewal, Extend, PushIfAbsent, SaveFailed, At
<1>3. Finish(h) \/ \E l \in {"insert", "history", "extend", "push", "ensure"} : Goto(h, l)
  BY DEF Dedupe, Insert, RecordRenewal, Extend, PushIfAbsent, SaveFailed
<1>4. /\ Elsewhere(h)
      /\ Finish(h) => proc'[h] = Idle
      /\ \A l : Goto(h, l) => proc'[h].pc = l /\ proc'[h].job = proc[h].job
  <2>1. Finish(h) => Elsewhere(h) /\ proc'[h] = Idle
    BY <1>0, Moves DEF Finish
  <2>2. ASSUME NEW l, Goto(h, l) PROVE Elsewhere(h) /\ proc'[h].pc = l /\ proc'[h].job = proc[h].job
    <3>1. Elsewhere(h) /\ proc'[h] = [pc |-> l, job |-> proc[h].job, copy |-> proc[h].copy, todo |-> proc[h].todo]
      BY <1>0, <2>2, Moves DEF Goto, Become
    <3>2. QED
      BY <3>1
  <2>3. QED
    BY <1>3, <2>1, <2>2
<1>5. Idle.pc = "idle"
  BY DEF Idle
<1>6. MayCarry(h)
  BY <1>2, <1>3, <1>4, <1>5 DEF MayCarry, Carrying
<1>7. Checks(h)
  <2>1. CASE Dedupe(h)
    BY <1>3, <1>4, <1>5, <2>1 DEF Checks, Dedupe, At
  <2>2. CASE ~Dedupe(h)
    <3>1. Finish(h) \/ \E l \in {"history", "extend", "push", "ensure"} : Goto(h, l)
      BY <2>2 DEF Insert, RecordRenewal, Extend, PushIfAbsent, SaveFailed
    <3>2. QED
      BY <1>4, <1>5, <3>1 DEF Checks
  <2>3. QED
    BY <2>1, <2>2
<1>8. TxStays(h)
  <2>1. CASE Insert(h)
    <3>1. \A v \in Invoices : v # InvoiceOf(h) => tx'[v] = tx[v]
      BY <1>0, <2>1 DEF Insert
    <3>2. QED
      BY <2>1, <3>1 DEF Insert, At, TxStays
  <2>2. CASE SaveFailed(h)
    <3>1. \A v \in Invoices : tx[v] = <<>> => tx'[v] = <<>>
      BY <1>0, <2>2, EmptySaved DEF SaveFailed
    <3>2. QED
      BY <3>1 DEF TxStays
  <2>3. CASE ~Insert(h) /\ ~SaveFailed(h)
    <3>1. tx' = tx
      BY <2>3 DEF Dedupe, RecordRenewal, Extend, PushIfAbsent
    <3>2. QED
      BY <3>1 DEF TxStays
  <2>4. QED
    BY <2>1, <2>2, <2>3
<1>9. GoesOnWay(h)
  <2> SUFFICES ASSUME NEW s \in Subs, UnderWay(h, <<s, clock + 1>>), ~Holds(subs, s), ~Holds(subs', s)
               PROVE  proc'[h].job = proc[h].job /\ proc'[h].pc \in ToGrant
    BY DEF GoesOnWay
  <2>1. /\ JobOf(h).type = "paid" /\ KeyOf(h) = s /\ InvoiceOf(h) = <<s, clock + 1>>
        /\ proc[h].pc = "dedupe" => tx[InvoiceOf(h)] = <<>>
        /\ proc[h].pc \in ToGrant \cup {"dedupe"}
    BY DEF UnderWay, Carries, ToGrant
  <2>2. ~SaveFailed(h)
    BY <2>1 DEF SaveFailed, At, ToGrant
  <2>3. CASE PushIfAbsent(h)
    <3>1. subs' = Append(subs, NewEntry(s, JobOf(h).end, JobOf(h).status))
      BY <2>1, <2>3 DEF PushIfAbsent
    <3>2. subs \in Seq(Entry) /\ NewEntry(s, JobOf(h).end, JobOf(h).status) \in Entry
      BY HeldRecord DEF Sound, DocOK, NewEntry, Entry, Keys
    <3>3. Holds(subs', s)
      BY <3>1, <3>2, AppendedSeq DEF Holds, NewEntry
    <3>4. QED
      BY <3>3
  <2>4. CASE ~PushIfAbsent(h)
    <3>1. \E l \in {"insert", "history", "extend", "push"} : Goto(h, l)
      BY <2>1, <2>2, <2>4 DEF Dedupe, Insert, RecordRenewal, Extend, At, ToGrant
    <3>2. QED
      BY <1>4, <3>1 DEF ToGrant
  <2>5. QED
    BY <2>3, <2>4
<1>10. QED
  BY <1>1, <1>4, <1>6, <1>7, <1>8, <1>9 DEF Moved

LEMMA StepMoved ==
    ASSUME Sound, Next, faults' = faults
    PROVE  \/ Tick \/ Stripe \/ (\E k \in Keys : Pay(k))
           \/ \E h \in Handlers, n \in events : Deliver(h, n)
           \/ \E p \in Procs : Moved(p) /\ Apart
<1>1. ~Faulty
  <2>1. Faulty => faults' = faults + 1
    BY DEF Faulty, CallRejected, RevokeRejected, FetchRejected, ExtendRejected, Crash, Fault
  <2>2. faults \in Nat
    BY DEF Sound, WorldOK
  <2>3. QED
    BY <2>1, <2>2
<1>2. ASSUME NEW h \in Handlers, HandlerStep(h) PROVE h \in Procs /\ Moved(h) /\ Apart
  <2>1. h \in Procs
    BY DEF Procs
  <2>2. QED
    BY <1>2, <2>1, HandlerAside, PaymentMoved DEF HandlerStep
<1>3. ASSUME NEW h \in Handlers, NEW k \in Keys, Buy(h, k) \/ Cancel(h, k) PROVE h \in Procs /\ Moved(h) /\ Apart
  BY <1>3, RequestMoved
<1>4. CASE Sweep
  BY <1>4, SweepMoved DEF Procs
<1>5. CASE Sync \/ \E kind \in {"hourly", "daily"} : SyncStart(kind)
  BY <1>5, SyncMoved DEF Procs
<1>6. QED
  BY <1>1, <1>2, <1>3, <1>4, <1>5 DEF Next, User

-----------------------------------------------------------------------------
\* The first payment of a subscription stays first until it is granted.

LEMMA FirstInvoice ==
    ASSUME Sound, NEW s \in Subs
    PROVE  <<s, clock + 1>> \in Invoices /\ clock \in Nat
BY NeverIsNat, BoundsAssumption DEF Sound, WorldOK, Invoices

LEMMA FirstKept ==
    ASSUME Sound, Once, NEW s \in Subs, First(s), NEW p \in Procs, Moved(p),
           clock' = clock, stripe'[s] = stripe[s],
           \A w \in unpaid' : w \in unpaid \/ w[1] # s,
           \A w \in collected' : w \in collected \/ w[1] # s,
           \A n \in events' : n \in events \/ n.key # s \/ n.type # "failed",
           \A n \in events : n \in events',
           ~Holds(subs, s), ~Holds(subs', s)
    PROVE  First(s)'
<1> DEFINE v == <<s, clock + 1>>
<1>0. v \in Invoices
  BY FirstInvoice
<1>1. Elsewhere(p) /\ MayCarry(p) /\ Checks(p) /\ GoesOnWay(p) /\ TxStays(p)
  BY DEF Moved
<1>2. \A q \in Procs : proc'[q].pc \in {"dedupe", "insert"} /\ proc'[q].job.key = s => proc'[q].job.type = "paid"
  BY <1>1 DEF First, Checks, Elsewhere
<1>3. tx[v] = <<>> /\ tx'[v] # <<>> => Carries(p, v) /\ proc[p].pc = "insert"
  BY <1>0, <1>1 DEF First, TxStays, Carries
<1>4. CASE PaidEvent(v) /\ tx[v] = <<>>
  <2>1. ~Carries(p, v)
    BY <1>0, <1>4 DEF Once
  <2>2. PaidEvent(v)' /\ tx'[v] = <<>>
    BY <1>3, <1>4, <2>1 DEF PaidEvent
  <2>3. QED
    BY <1>2, <2>2 DEF First
<1>5. ASSUME NEW q \in Procs, UnderWay(q, v) PROVE First(s)'
  <2>1. UnderWay(q, v)'
    <3>1. CASE q = p
      <4>1. proc'[p].job = proc[p].job /\ proc'[p].pc \in ToGrant
        BY <1>1, <1>5, <3>1 DEF GoesOnWay
      <4>2. QED
        BY <1>5, <3>1, <4>1 DEF UnderWay, Carries, ToGrant
    <3>2. CASE q # p
      <4>1. proc'[q] = proc[q]
        BY <1>1, <3>2 DEF Elsewhere
      <4>2. proc[q].pc = "dedupe" => tx[v] = <<>> /\ tx'[v] = <<>>
        BY <1>0, <1>3, <1>5, <3>2 DEF UnderWay, Once, ToGrant
      <4>3. QED
        BY <1>5, <4>1, <4>2 DEF UnderWay, Carries
    <3>3. QED
      BY <3>1, <3>2
  <2>2. QED
    BY <1>2, <2>1 DEF First
<1>6. QED
  BY <1>4, <1>5 DEF First
\* A period does not end while a payment waits or is under way.
LEMMA FirstNoTick ==
    ASSUME IInv, NEW s \in Subs, First(s), Tick
    PROVE  FALSE
<1>1. ~PaidEvent(<<s, clock + 1>>)
  BY DEF Tick, PaidEvent
<1>2. PICK p \in Procs : UnderWay(p, <<s, clock + 1>>)
  BY <1>1 DEF First
<1>3. Carrying(p) /\ p \in Handlers
  BY <1>2 DEF UnderWay, Carries, Carrying, IInv, Carriers
<1>4. p \in Busy \cap Handlers
  BY <1>3 DEF Busy, Carrying
<1>5. QED
  BY <1>4 DEF Tick

LEMMA FirstStripe ==
    ASSUME Sound, Once, Checkouts, IInv, NEW s \in Subs, First(s), Stripe \/ \E k \in Keys : Pay(k),
           Billed(s)', ~Holds(subs, s), ~Holds(subs', s)
    PROVE  First(s)'
<1>0. /\ "sweep" \in Procs /\ ~Carrying("sweep") /\ ProcsAreRecords
      /\ clock \in Nat /\ stripe[s].status = "active" /\ stripe[s].end = clock + 1
      /\ \A r \in Subs : stripe[r] \in [status : StripeStatus, end : Nat]
      /\ \A w \in unpaid : w[1] # s
  BY NotAHandler, FirstInvoice DEF First, Sound, ProcsOK, WorldOK
<1>1. UNCHANGED <<proc, tx, clock>> /\ \A n \in events : n \in events'
  BY DEF Stripe, Pay, Roll, GiveUp, CancelAtStripe, Collect, Decline
<1>2. Moved("sweep")
  BY <1>0, <1>1, UnmovedMoved
<1> DEFINE Elsewise == /\ stripe'[s] = stripe[s]
                       /\ \A w \in unpaid' : w \in unpaid \/ w[1] # s
                       /\ \A w \in collected' : w \in collected \/ w[1] # s
                       /\ \A n \in events' : n \in events \/ n.key # s \/ n.type # "failed"
<1>3. ASSUME NEW r \in Subs, Roll(r) PROVE Elsewise
  <2>1. r # s
    BY <1>0, <1>3 DEF Roll
  <2>2. QED
    BY <1>3, <2>1 DEF Roll
<1>4. ASSUME NEW r \in Subs, GiveUp(r) PROVE Elsewise
  <2>1. r # s
    BY <1>0, <1>4 DEF GiveUp
  <2>2. QED
    <3>1. /\ stripe' = [stripe EXCEPT ![r].status = "canceled"]
          /\ events' = events \cup {NewJob("deleted", r, stripe[r].end, "canceled")}
          /\ unpaid' = unpaid /\ collected' = collected
      BY <1>4 DEF GiveUp, CancelAtStripe
    <3>2. QED
      BY <2>1, <3>1
<1>5. ASSUME NEW v \in Invoices, Collect(v[1], v[2]) PROVE Elsewise
  <2>1. v[1] # s /\ v = <<v[1], v[2]>>
    BY <1>0, <1>5 DEF Collect, Invoices
  <2>2. QED
    BY <1>5, <2>1 DEF Collect
<1>6. ASSUME NEW v \in Invoices, Decline(v[1], v[2]) PROVE Elsewise
  <2>1. v[1] # s /\ v = <<v[1], v[2]>>
    BY <1>0, <1>6 DEF Decline, Invoices
  <2>2. QED
    BY <1>6, <2>1 DEF Decline
<1>7. ASSUME NEW k \in Keys, Pay(k) PROVE Elsewise
  <2>1. k # s
    BY <1>0, <1>7 DEF Pay, Checkouts
  <2>2. QED
    <3>1. CASE k \in Subs
      <4>1. /\ stripe' = [stripe EXCEPT ![k] = [status |-> "active", end |-> clock + 1]]
            /\ collected' = collected \cup {<<k, clock + 1>>} /\ unpaid' = unpaid
            /\ events' = events \cup {NewJob("checkout", k, clock + 1, "active"),
                                      NewJob("paid", k, clock + 1, "active")}
        BY <1>7, <3>1 DEF Pay
      <4>2. QED
        BY <2>1, <4>1
    <3>2. CASE k \notin Subs
      BY <1>7, <2>1, <3>2 DEF Pay
    <3>3. QED
      BY <3>1, <3>2
<1>8. Elsewise
  BY <1>3, <1>4, <1>5, <1>6, <1>7 DEF Stripe
<1>9. QED
  BY <1>0, <1>1, <1>2, <1>8, FirstKept

LEMMA FirstApart ==
    ASSUME Sound, Once, NEW s \in Subs, First(s), NEW p \in Procs, Moved(p), Apart,
           Billed(s)', ~Holds(subs, s), ~Holds(subs', s)
    PROVE  First(s)'
<1>1. clock' = clock /\ unpaid' = unpaid /\ collected' = collected
  BY DEF Apart
<1>2. /\ stripe'[s] = stripe[s]
      /\ \A n \in events : n \in events'
      /\ \A n \in events' : n \in events \/ n.type = "deleted"
  <2>1. CASE stripe' = stripe /\ events' = events
    BY <2>1
  <2>2. ASSUME NEW r \in Subs, CancelAtStripe(r), ~(stripe' = stripe /\ events' = events)
        PROVE  /\ stripe'[s] = stripe[s]
               /\ \A n \in events : n \in events'
               /\ \A n \in events' : n \in events \/ n.type = "deleted"
    <3>1. /\ stripe' = [stripe EXCEPT ![r].status = "canceled"]
          /\ events' = events \cup {NewJob("deleted", r, stripe[r].end, "canceled")}
      BY <2>2 DEF CancelAtStripe
    <3>2. r # s
      BY <3>1 DEF Billed, Sound, WorldOK
    <3>3. QED
      BY <3>1, <3>2
  <2>3. QED
    BY <2>1, <2>2 DEF Apart
<1>3. QED
  BY <1>1, <1>2, FirstKept

LEMMA FirstDeliver ==
    ASSUME Sound, NEW s \in Subs, First(s), NEW h \in Handlers, NEW n \in events, Deliver(h, n)
    PROVE  First(s)'
<1> DEFINE v == <<s, clock + 1>>
<1>0. h \in Procs /\ ProcsAreRecords
  BY DEF Sound, ProcsOK, Procs
<1>1. proc[h].pc = "idle" /\ events' = events \ {n} /\ UNCHANGED <<stripe, unpaid, collected, clock, tx>>
  BY DEF Deliver, At
<1>2. \/ proc' = proc
      \/ \E l, j, c, t : /\ Become(h, l, j, c, t)
                         /\ l = "dedupe" => n.type = "paid" /\ j = n
                         /\ l = "insert" => n.type = "failed" /\ j = n
  BY DEF Deliver, Begin
<1>3. /\ \A q \in Procs \ {h} : proc'[q] = proc[q]
      /\ proc'[h].pc = "dedupe" => n.type = "paid" /\ proc'[h].job = n
      /\ proc'[h].pc = "insert" => n.type = "failed" /\ proc'[h].job = n
  <2>1. CASE proc' = proc
    BY <1>1, <2>1
  <2>2. CASE proc' # proc
    <3>1. PICK l, j, c, t : /\ Become(h, l, j, c, t)
                            /\ l = "dedupe" => n.type = "paid" /\ j = n
                            /\ l = "insert" => n.type = "failed" /\ j = n
      BY <1>2, <2>2
    <3>2. Elsewhere(h) /\ proc'[h] = [pc |-> l, job |-> j, copy |-> c, todo |-> t]
      BY <1>0, <3>1, Moves DEF Become
    <3>3. proc'[h].pc = l /\ proc'[h].job = j
      BY <3>2
    <3>4. QED
      BY <3>1, <3>2, <3>3 DEF Elsewhere
  <2>3. QED
    BY <2>1, <2>2
<1>4. \A q \in Procs : proc'[q].pc \in {"dedupe", "insert"} /\ proc'[q].job.key = s => proc'[q].job.type = "paid"
  BY <1>3 DEF First
<1>5. (PaidEvent(v)' /\ tx'[v] = <<>>) \/ \E q \in Procs : UnderWay(q, v)'
  <2>1. CASE n = NewJob("paid", s, clock + 1, "active") /\ tx[v] = <<>>
    <3>1. \E t : Become(h, "dedupe", n, <<>>, t)
      BY <2>1 DEF Deliver, Begin
    <3>2. PICK t : Become(h, "dedupe", n, <<>>, t)
      BY <3>1
    <3>3. proc'[h] = [pc |-> "dedupe", job |-> n, copy |-> <<>>, todo |-> t]
      BY <1>0, <3>2, Moves DEF Become
    <3>4. UnderWay(h, v)'
      BY <1>1, <2>1, <3>3 DEF UnderWay, Carries
    <3>5. QED
      BY <1>0, <3>4
  <2>2. CASE n # NewJob("paid", s, clock + 1, "active") /\ PaidEvent(v) /\ tx[v] = <<>>
    BY <1>1, <2>2 DEF PaidEvent
  <2>3. ASSUME NEW q \in Procs, UnderWay(q, v) PROVE UnderWay(q, v)'
    <3>1. q # h
      BY <1>1, <2>3 DEF UnderWay, Carries
    <3>2. QED
      BY <1>1, <1>3, <2>3, <3>1 DEF UnderWay, Carries
  <2>4. QED
    BY <2>1, <2>2, <2>3 DEF First, PaidEvent
<1>6. QED
  BY <1>1, <1>4, <1>5 DEF First

LEMMA FirstPay ==
    ASSUME Sound, Checkouts, NEW s \in Subs, Pay(s)
    PROVE  First(s)'
<1> DEFINE v == <<s, clock + 1>>
<1>0. v \in Invoices /\ clock \in Nat
  BY FirstInvoice
<1>1. /\ stripe' = [stripe EXCEPT ![s] = [status |-> "active", end |-> clock + 1]]
      /\ collected' = collected \cup {v} /\ unpaid' = unpaid
      /\ events' = events \cup {NewJob("checkout", s, clock + 1, "active"), NewJob("paid", s, clock + 1, "active")}
      /\ s \in sessions /\ UNCHANGED <<clock, tx, proc>>
  BY DEF Pay
<1>2. stripe[s].status = "none"
  BY <1>1 DEF Checkouts
<1>3. /\ \A w \in unpaid \cup collected : w[1] # s
      /\ \A n \in events : n.key # s
      /\ tx[v] = <<>>
  BY <1>0, <1>2 DEF Sound, WorldOK, LedgerOK, Issued, Announced
<1>4. \A p \in Procs : proc[p].pc \in {"dedupe", "insert"} => proc[p].job.key # s
  BY <1>2, HeldKey DEF OfSub
<1>5. stripe'[s].status = "active" /\ stripe'[s].end = clock + 1
  BY <1>1 DEF Sound, WorldOK
<1>6. /\ \A w \in unpaid' : w[1] # s
      /\ \A w \in collected' : w[1] = s => w = v
      /\ \A n \in events' : n.key = s => n.type # "failed"
  BY <1>1, <1>3
<1>7. PaidEvent(v)' /\ tx'[v] = <<>>
  BY <1>1, <1>3 DEF PaidEvent
<1>8. QED
  BY <1>1, <1>4, <1>5, <1>6, <1>7 DEF First

-----------------------------------------------------------------------------
\* No payment is handled twice.

LEMMA OnceMoved ==
    ASSUME Once, NEW p \in Procs, Elsewhere(p), MayCarry(p), collected \subseteq collected',
           unpaid' \cap collected' = {},
           \A v \in Invoices : PaidEvent(v)' => PaidEvent(v) \/ v \in collected' \ collected
    PROVE  Once'
<1>1. \A v \in Invoices : PaidEvent(v)' => v \in collected'
  BY DEF Once
<1>2. \A v \in Invoices, q \in Procs : Carries(q, v)' => Carries(q, v)
  BY DEF Elsewhere, MayCarry, Carrying, Carries
<1>3. \A v \in Invoices, q \in Procs : Carries(q, v)' =>
         v \in collected' /\ ~PaidEvent(v)' /\ \A r \in Procs : Carries(r, v)' => r = q
  BY <1>2 DEF Once
<1>4. QED
  BY <1>1, <1>3 DEF Once

LEMMA OnceWorld ==
    ASSUME IInv, Sound, Sound', Checkouts, Once, Tick \/ Stripe \/ \E k \in Keys : Pay(k)
    PROVE  Once'
<1>0. "sweep" \in Procs /\ ~Carrying("sweep") /\ ProcsAreRecords
  BY NotAHandler DEF Sound, ProcsOK
<1>1. UNCHANGED proc
  BY DEF Tick, Stripe, Pay, Roll, GiveUp, Collect, Decline
<1>2. Elsewhere("sweep") /\ MayCarry("sweep")
  BY <1>0, <1>1 DEF Elsewhere, ProcsAreRecords, MayCarry, Carrying
<1>3. /\ \A r \in Subs : stripe[r].end \in Nat
      /\ \A w \in unpaid \cup collected : Issued(w, stripe) /\ w \in Invoices
      /\ \A w \in Invoices : w = <<w[1], w[2]>>
      /\ collected' \subseteq Invoices
  BY DEF Sound, WorldOK, Invoices
<1> DEFINE New(n) == n.type = "paid" /\ \E w \in collected' \ collected : n = NewJob("paid", w[1], w[2], "active")
           Paid == /\ collected \subseteq collected' /\ unpaid' \cap collected' = {}
                   /\ \A n \in events' : n.type = "paid" => n \in events \/ New(n)
<1>4. ASSUME Tick PROVE Paid
  BY <1>4 DEF Tick, Once
<1>5. ASSUME NEW r \in Subs, Roll(r) PROVE Paid
  <2>1. <<r, stripe[r].end + 1>> \notin collected
    BY <1>3 DEF Issued
  <2>2. QED
    BY <1>5, <2>1 DEF Roll, Once
<1>6. ASSUME NEW r \in Subs, GiveUp(r) PROVE Paid
  BY <1>6 DEF GiveUp, CancelAtStripe, Once
<1>7. ASSUME NEW v \in Invoices, Collect(v[1], v[2]) PROVE Paid
  <2>1. v = <<v[1], v[2]>> /\ v \in unpaid /\ v \notin collected
    BY <1>3, <1>7 DEF Collect, Once
  <2>2. unpaid' = unpaid \ {v} /\ collected' = collected \cup {v}
    BY <1>7, <2>1 DEF Collect
  <2>3. \A n \in events' : n.type = "paid" => n \in events \/ n = NewJob("paid", v[1], v[2], "active")
    BY <1>7 DEF Collect
  <2>4. QED
    BY <2>1, <2>2, <2>3 DEF Once
<1>8. ASSUME NEW v \in Invoices, Decline(v[1], v[2]) PROVE Paid
  BY <1>8 DEF Decline, Once
<1>9. ASSUME NEW k \in Keys, Pay(k) PROVE Paid
  <2>1. CASE k \in Subs
    <3> DEFINE v == <<k, clock + 1>>
    <3>1. /\ collected' = collected \cup {v} /\ unpaid' = unpaid /\ k \in sessions
          /\ events' = events \cup {NewJob("checkout", k, clock + 1, "active"), NewJob("paid", k, clock + 1, "active")}
      BY <1>9, <2>1 DEF Pay
    <3>2. v \notin unpaid \cup collected
      BY <1>3, <2>1, <3>1 DEF Checkouts, Issued
    <3>3. QED
      BY <3>1, <3>2 DEF Once
  <2>2. CASE k \notin Subs
    BY <1>9, <2>2 DEF Pay, Once
  <2>3. QED
    BY <2>1, <2>2
<1>10. CASE Paid
  <2>1. \A v \in Invoices : PaidEvent(v)' => PaidEvent(v) \/ v \in collected' \ collected
    <3> SUFFICES ASSUME NEW v \in Invoices, PaidEvent(v)' PROVE PaidEvent(v) \/ v \in collected' \ collected
      OBVIOUS
    <3>1. PaidEvent(v) \/ New(NewJob("paid", v[1], v[2], "active"))
      BY <1>10 DEF PaidEvent
    <3>2. CASE New(NewJob("paid", v[1], v[2], "active"))
      <4>1. PICK w \in collected' \ collected : NewJob("paid", v[1], v[2], "active") = NewJob("paid", w[1], w[2], "active")
        BY <3>2
      <4>2. w[1] = v[1] /\ w[2] = v[2]
        BY <4>1
      <4>3. w \in collected'
        BY <4>1
      <4>4. QED
        BY <1>3, <4>1, <4>2
    <3>3. QED
      BY <3>1, <3>2
  <2>2. QED
    BY <1>0, <1>2, <1>10, <2>1, OnceMoved
<1>11. QED
  BY <1>4, <1>5, <1>6, <1>7, <1>8, <1>9, <1>10 DEF Stripe

LEMMA OnceApart ==
    ASSUME Once, NEW p \in Procs, Moved(p), Apart
    PROVE  Once'
<1>1. UNCHANGED <<unpaid, collected>> /\ \A n \in events' : n \in events \/ n.type = "deleted"
  BY DEF Apart, CancelAtStripe
<1>2. \A v : PaidEvent(v)' => PaidEvent(v)
  BY <1>1 DEF PaidEvent
<1>3. QED
  BY <1>1, <1>2, OnceMoved DEF Moved, Once

LEMMA OnceDeliver ==
    ASSUME IInv, Sound, Once, NEW h \in Handlers, NEW n \in events, Deliver(h, n)
    PROVE  Once'
<1>0. h \in Procs /\ ProcsAreRecords
  BY DEF IInv, Procs
<1>1. proc[h].pc = "idle" /\ events' = events \ {n} /\ UNCHANGED <<unpaid, collected>>
  BY DEF Deliver, At
<1>2. CASE n.type # "paid"
  <2>1. \/ proc' = proc
        \/ \E l, j, c, t : Become(h, l, j, c, t) /\ j.type # "paid"
    <3>1. n \in Job /\ \A e : [n EXCEPT !.end = e].type # "paid"
      BY <1>2 DEF Sound, WorldOK, Announced, Job
    <3>2. \/ proc' = proc
          \/ \E l, c, t : Become(h, l, n, c, t)
          \/ \E e : Become(h, "pull", [n EXCEPT !.end = e], <<>>, {})
      BY <1>2 DEF Deliver, Begin
    <3>3. ASSUME NEW e, Become(h, "pull", [n EXCEPT !.end = e], <<>>, {})
          PROVE  \E l, j, c, t : Become(h, l, j, c, t) /\ j.type # "paid"
      <4> DEFINE j == [n EXCEPT !.end = e]
      <4>1. j.type # "paid"
        BY <3>1
      <4>2. Become(h, "pull", j, <<>>, {})
        BY <3>3
      <4> HIDE DEF j
      <4>3. QED
        BY <4>1, <4>2
    <3>4. QED
      BY <1>2, <3>2, <3>3
  <2>2. CASE proc' = proc
    <3>1. Elsewhere(h) /\ MayCarry(h)
      BY <1>0, <1>1, <2>2 DEF Elsewhere, ProcsAreRecords, MayCarry, Carrying
    <3>2. QED
      BY <1>0, <1>1, <3>1, OnceMoved DEF PaidEvent, Once
  <2>3. CASE proc' # proc
    <3>1. PICK l, j, c, t : Become(h, l, j, c, t) /\ j.type # "paid"
      BY <2>1, <2>3
    <3>2. Elsewhere(h) /\ proc'[h] = [pc |-> l, job |-> j, copy |-> c, todo |-> t]
      BY <1>0, <3>1, Moves DEF Become
    <3>3. MayCarry(h)
      BY <3>1, <3>2 DEF MayCarry, Carrying
    <3>4. QED
      BY <1>0, <1>1, <3>2, <3>3, OnceMoved DEF PaidEvent, Once
  <2>4. QED
    BY <2>2, <2>3
<1>3. CASE n.type = "paid"
  <2> DEFINE v == <<n.key, n.end>>
  <2>1. v \in Invoices /\ n = NewJob("paid", n.key, n.end, "active")
    BY <1>3 DEF IInv, PaidEvents, PaidJob
  <2>2. PaidEvent(v) /\ \A q \in Procs : ~Carries(q, v)
    <3>1. PaidEvent(v)
      BY <2>1 DEF PaidEvent
    <3>2. QED
      BY <2>1, <3>1 DEF Once
  <2>3. Elsewhere(h) /\ proc'[h].job = n
    <3>1. \E t : Become(h, "dedupe", n, <<>>, t)
      BY <1>3 DEF Deliver, Begin
    <3>2. PICK t : Become(h, "dedupe", n, <<>>, t)
      BY <3>1
    <3>3. Elsewhere(h) /\ proc'[h] = [pc |-> "dedupe", job |-> n, copy |-> <<>>, todo |-> t]
      BY <1>0, <3>2, Moves DEF Become
    <3>4. QED
      BY <3>3
  <2>4. \A w \in Invoices, q \in Procs : Carries(q, w)' => Carries(q, w) \/ (q = h /\ w = v)
    BY <2>3 DEF Carries, Elsewhere
  <2>5. \A w : PaidEvent(w)' => PaidEvent(w)
    BY <1>1 DEF PaidEvent
  <2>6. ~PaidEvent(v)'
    BY <1>1, <2>1 DEF PaidEvent
  <2>7. \A w \in Invoices, q \in Procs : Carries(q, w)' =>
           w \in collected' /\ ~PaidEvent(w)' /\ \A r \in Procs : Carries(r, w)' => r = q
    BY <1>1, <2>1, <2>2, <2>4, <2>5, <2>6 DEF Once
  <2>8. QED
    BY <1>1, <2>5, <2>7 DEF Once
<1>4. QED
  BY <1>2, <1>3

LEMMA OnceKept ==
    ASSUME IInv, Sound, Sound', Checkouts, Once, Next, faults' = faults
    PROVE  Once'
BY StepMoved, OnceWorld, OnceApart, OnceDeliver

-----------------------------------------------------------------------------
\* Who is billed holds the subscription, or is about to.

LEMMA BilledBefore ==
    ASSUME Sound, Checkouts, Next, faults' = faults, NEW s \in Subs, Billed(s)'
    PROVE  Billed(s) \/ Pay(s)
<1>1. Progress /\ StillNone
  BY StepProgress
<1>2. ~Over(s)
  BY <1>1 DEF Progress, Over, Billed
<1>3. ASSUME stripe[s].status = "none" PROVE Pay(s)
  <2>1. s \in sessions /\ sessions' = sessions \ {s}
    BY <1>1, <1>3 DEF StillNone, Billed, FirstPaid
  <2>2. ~Tick /\ ~Stripe /\ ~\E h \in Handlers, n \in events : Deliver(h, n)
    BY <2>1 DEF Tick, Stripe, Roll, GiveUp, Collect, Decline, Deliver
  <2>3. ~Apart
    BY <1>3 DEF Apart, CancelAtStripe, Billed, Sound, WorldOK
  <2>4. PICK k \in Keys : Pay(k)
    BY <2>2, <2>3, StepMoved
  <2>5. k = s
    BY <2>1, <2>4 DEF Pay
  <2>6. QED
    BY <2>4, <2>5
<1>4. stripe[s].status \in StripeStatus
  BY DEF Sound, WorldOK
<1>5. QED
  BY <1>2, <1>3, <1>4 DEF StripeStatus, Over, Billed

LEMMA NotHeldBefore ==
    ASSUME Sound, Fates, Progress, faults = 0, NEW s \in Subs \ clobbered', Billed(s)', ~Holds(subs', s)
    PROVE  ~Holds(subs, s)
<1>1. s \in Keys /\ s \notin Courses
  BY KeysAssumption DEF Keys
<1>2. Thinning(s)
  BY <1>1 DEF Fates, Fate, Revived, Bought
<1>3. SUFFICES ASSUME NEW i \in DOMAIN subs, subs[i].key = s PROVE FALSE
  BY DEF Holds
<1>4. Over(s)
  BY <1>1, <1>2, <1>3 DEF Thinning, Gone, Holds
<1>5. QED
  BY <1>4 DEF Progress, Over, Billed

LEMMA PayingInductive ==
    ASSUME IInv, Held, Paying, [Next]_vars
    PROVE  Paying'
<1>1. Sound /\ Checkouts /\ Sound' /\ Fates /\ Progress
  BY HeldInductive, StepProgress DEF Held
<1>2. CASE UNCHANGED vars
  BY <1>2 DEF Paying, Once, Reached, PaidEvent, Carries, Billed, Holds, First, UnderWay
<1>3. CASE Next
  <2> SUFFICES ASSUME faults' = 0 PROVE Once' /\ Reached'
    BY DEF Paying
  <2>1. faults = 0 /\ faults' = faults /\ Once /\ Reached
    BY <1>1 DEF Progress, Paying
  <2>2. Once'
    BY <1>1, <1>3, <2>1, OnceKept
  <2>3. ASSUME NEW s \in Subs \ clobbered', Billed(s)', ~Holds(subs', s) PROVE First(s)'
    <3>1. ~Holds(subs, s) /\ s \notin clobbered
      BY <1>1, <2>1, <2>3, NotHeldBefore DEF Fates
    <3>2. CASE Pay(s)
      BY <1>1, <3>2, FirstPay
    <3>3. CASE ~Pay(s)
      <4>1. Billed(s)
        BY <1>1, <1>3, <2>1, <2>3, <3>3, BilledBefore
      <4>2. First(s)
        BY <2>1, <3>1, <4>1 DEF Reached
      <4>3. ~Tick
        BY <4>2, FirstNoTick
      <4>4. CASE Stripe \/ \E k \in Keys : Pay(k)
        BY <1>1, <2>1, <2>3, <3>1, <4>2, <4>4, FirstStripe
      <4>5. CASE \E h \in Handlers, n \in events : Deliver(h, n)
        BY <1>1, <4>2, <4>5, FirstDeliver
      <4>6. CASE \E p \in Procs : Moved(p) /\ Apart
        BY <1>1, <2>1, <2>3, <3>1, <4>2, <4>6, FirstApart
      <4>7. QED
        BY <1>1, <1>3, <2>1, <4>3, <4>4, <4>5, <4>6, StepMoved
    <3>4. QED
      BY <3>2, <3>3
  <2>4. QED
    BY <2>2, <2>3 DEF Reached, Billed, Holds
<1>4. QED
  BY <1>2, <1>3

LEMMA PayingHolds ==
    ASSUME Sound, Paying
    PROVE  PaidIsHeld
<1> SUFFICES ASSUME NEW v \in Invoices, Settled(v), stripe[v[1]].status \in {"active", "past_due"}, faults = 0,
                    v[1] \notin clobbered, ~Holds(subs, v[1])
             PROVE  FALSE
  BY DEF PaidIsHeld
<1>1. v[1] \in Subs /\ First(v[1])
  BY DEF Paying, Reached, Billed, Invoices
<1>2. v = <<v[1], clock + 1>>
  BY <1>1 DEF First, Settled
<1>3. v[2] = clock + 1
  BY <1>2
<1>4. QED
  BY <1>1, <1>2, <1>3 DEF First, Settled, PaidEvent, UnderWay

\* For any number of subscriptions, handlers and periods, and every order in
\* which events arrive: when the payment of an invoice is handled and Stripe
\* goes on collecting, the array holds the subscription, unless a call
\* failed or a write went by an old copy.
THEOREM PaidHasAccess == Spec => []PaidIsHeld
<1>1. Init => Paying
  BY DEF Init, Paying, Once, Reached, PaidEvent, Carries, Idle, Billed, Procs
<1>2. IInv /\ Held /\ Paying /\ [Next]_vars => IInv' /\ Held' /\ Paying'
  BY Inductive, HeldInductive, PayingInductive
<1>3. Init => IInv /\ Held /\ Paying
  BY <1>1, Initially, HeldInit
<1>4. IInv /\ Held /\ Paying => PaidIsHeld
  BY PayingHolds DEF Held
<1>5. QED
  BY <1>2, <1>3, <1>4, PTL DEF Spec
=============================================================================
