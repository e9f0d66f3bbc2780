---------------------------- MODULE Subscriptions ----------------------------
(***************************************************************************)
(* The purchases of one user: the array `subscriptions` of the User        *)
(* document, its companion `activeSubscriptions`, the payment transactions *)
(* and the Stripe subscriptions behind them.                               *)
(*                                                                         *)
(* Many writers share the array and none of them holds a lock: the Stripe  *)
(* event handlers of StripeService, the requests a user makes, the         *)
(* midnight job of CronService and the hourly and daily jobs of            *)
(* SubscriptionSyncCron.  Some update one element with a positional or a   *)
(* guarded operator; others read the whole array, await something, and     *)
(* write the whole array back.  Every await is a step boundary here.       *)
(*                                                                         *)
(* Time is counted in billing periods.  A plan is bought either as a       *)
(* Stripe subscription (Subs) or once (Courses), and an event is handled   *)
(* at most once (WebhookInbox) but at any moment and in any order.         *)
(***************************************************************************)
EXTENDS Naturals, Sequences, FiniteSets

CONSTANTS
    Subs,        \* ids of Stripe subscriptions the user may come to hold
    Courses,     \* plans paid once, without a Stripe subscription
    PlanOf,      \* the plan of each subscription and course
    Term,        \* periods a course lasts, or Never
    Handlers,    \* webhook deliveries and requests in flight (a bound)
    MaxBusy,     \* bound on the handlers and jobs under way together
    LookBack,    \* runs of the jobs that find a record recent
    Jobs,        \* the jobs that are scheduled: "sweep", "hourly", "daily"
    MaxDeclines, \* bound on the attempts to collect that fail
    MaxRequests, \* bound on the checkouts and cancellations the user asks for
    MaxClock,    \* bound on the periods that pass
    MaxFaults    \* bound on crashes and rejected calls together

Keys == Subs \cup Courses
Never == MaxClock + 3        \* the absent date: no period ends that late
NoKey == "no key"

ASSUME KeysAssumption == Subs \cap Courses = {} /\ NoKey \notin Keys
ASSUME PlanAssumption == \A s \in Subs, c \in Courses : PlanOf[s] # PlanOf[c]
ASSUME TermAssumption == Term \in [Courses -> Nat]
ASSUME BoundsAssumption == LookBack \in Nat /\ MaxClock \in Nat /\ MaxFaults \in Nat
ASSUME HandlersAssumption == Handlers \cap {"sweep", "sync"} = {}

Procs == Handlers \cup {"sweep", "sync"}

VARIABLES
    subs,       \* User.subscriptions
    active,     \* User.activeSubscriptions
    tx,         \* statuses of the transactions of each invoice, oldest first
    sales,      \* invoices whose checkout transaction is recorded
    renewed,    \* invoices with a RENEWED history record
    looks,      \* how many more runs of the jobs look back at each invoice
    stripe,     \* Stripe: status and period end of each subscription
    unpaid,     \* Stripe: invoices not collected yet
    events,     \* Stripe events not delivered yet
    sessions,   \* checkout sessions opened and not paid
    clock,      \* periods passed
    proc,       \* where each handler and job stands, and what it holds
    requests,   \* checkouts and cancellations asked for so far
    declines,   \* failed attempts to collect so far
    faults,     \* crashes and rejected calls so far
    clobbered,  \* ghost: keys a write overwrote with an out-of-date copy
    ended,      \* ghost: keys a deletion or a cancellation gave an end to
    guessed,    \* ghost: subscriptions given an end that Stripe did not name
    echoed,     \* ghost: subscriptions named active after the array lost them
    owned,      \* ghost: courses bought, as far as the handlers are done
    collected,  \* ghost: invoices Stripe collected
    dropped     \* ghost: invoices whose payment event was lost to a fault

userDoc == <<subs, active>>
ledger == <<tx, sales, renewed, looks>>
world == <<stripe, unpaid, events, sessions, clock, requests, declines>>
ghosts == <<clobbered, ended, guessed, echoed, owned, collected, dropped>>
vars == <<userDoc, ledger, world, proc, faults, ghosts>>

Invoices == Subs \X (0 .. MaxClock + 1)
StripeStatus == {"none", "active", "past_due", "canceled"}
Entry == [key : Keys, end : Nat, expires : Nat, status : StripeStatus]
EventTypes == {"checkout", "paid", "failed", "intent", "updated", "deleted"}
JobTypes == EventTypes \cup {"none", "buy", "cancel", "sweep", "hourly", "daily"}
Job == [type : JobTypes, key : Keys \cup {NoKey}, end : Nat, status : StripeStatus]
PCs == {"idle", "sale", "fetch", "upsert", "push", "pull", "append", "dedupe",
        "insert", "history", "extend", "direct", "ensure", "write", "save",
        "revoke", "each", "apply", "add", "force", "list", "adjust"}

NewJob(t, k, e, s) == [type |-> t, key |-> k, end |-> e, status |-> s]
NoJob == NewJob("none", NoKey, 0, "none")
Idle == [pc |-> "idle", job |-> NoJob, copy |-> <<>>, todo |-> {}]

TypeOK ==
    /\ subs \in Seq(Entry)
    /\ active \subseteq Subs
    /\ tx \in [Invoices -> Seq({"succeeded", "failed"})]
    /\ sales \subseteq Invoices
    /\ renewed \subseteq Invoices
    /\ looks \in [Invoices -> 0 .. LookBack]
    /\ stripe \in [Subs -> [status : StripeStatus, end : Nat]]
    /\ unpaid \subseteq Invoices
    /\ events \subseteq Job
    /\ sessions \subseteq Keys
    /\ clock \in 0 .. MaxClock
    /\ proc \in [Procs -> [pc : PCs, job : Job, copy : Seq(Entry), todo : SUBSET Invoices]]
    /\ requests \in Nat
    /\ declines \in Nat
    /\ faults \in Nat
    /\ clobbered \subseteq Keys
    /\ ended \subseteq Keys
    /\ guessed \subseteq Subs
    /\ echoed \subseteq Subs
    /\ owned \subseteq Courses
    /\ collected \subseteq Invoices
    /\ dropped \subseteq Invoices

Init ==
    /\ subs = <<>>
    /\ active = {}
    /\ tx = [v \in Invoices |-> <<>>]
    /\ sales = {}
    /\ renewed = {}
    /\ looks = [v \in Invoices |-> 0]
    /\ stripe = [s \in Subs |-> [status |-> "none", end |-> 0]]
    /\ unpaid = {}
    /\ events = {}
    /\ sessions = {}
    /\ clock = 0
    /\ proc = [p \in Procs |-> Idle]
    /\ requests = 0
    /\ declines = 0
    /\ faults = 0
    /\ clobbered = {}
    /\ ended = {}
    /\ guessed = {}
    /\ echoed = {}
    /\ owned = {}
    /\ collected = {}
    /\ dropped = {}

-----------------------------------------------------------------------------
\* The subscriptions array.

Holds(seq, k) == \E i \in DOMAIN seq : seq[i].key = k

FirstOf(seq, k) ==
    CHOOSE i \in DOMAIN seq :
        seq[i].key = k /\ \A j \in DOMAIN seq : seq[j].key = k => i <= j

NewEntry(k, e, s) == [key |-> k, end |-> e, expires |-> e, status |-> s]

\* The positional operator: the first matching element.
SetFirst(seq, k, e, s) == [seq EXCEPT ![FirstOf(seq, k)] = NewEntry(k, e, s)]

SetAll(seq, k, e, s) ==
    [i \in DOMAIN seq |-> IF seq[i].key = k THEN NewEntry(k, e, s) ELSE seq[i]]

\* map over a copy, then push what the map did not find.
SetOrAdd(seq, k, e, s) ==
    IF Holds(seq, k) THEN SetAll(seq, k, e, s) ELSE Append(seq, NewEntry(k, e, s))

\* The same where the map leaves a spread document for each element it sets:
\* such an object shows no id to the test that follows, so it pushes as well.
SetAndAdd(seq, k, e, s) == Append(SetAll(seq, k, e, s), NewEntry(k, e, s))

\* The elements at the positions I, in their order.
Selected(seq, I) ==
    [j \in 1 .. Cardinality(I) |-> seq[CHOOSE i \in I : Cardinality({m \in I : m <= i}) = j]]

Without(seq, K) == Selected(seq, {i \in DOMAIN seq : seq[i].key \notin K})
Only(seq, K) == Selected(seq, {i \in DOMAIN seq : seq[i].key \in K})

SamePlan(k) == {j \in Keys : PlanOf[j] = PlanOf[k]}

\* A Stripe subscription lapses with its period, a course with its expiry.
Lapsed(n, now) ==
    IF n.key \in Subs
    THEN n.end <= now
    ELSE n.expires <= now \/ (n.expires = Never /\ n.end <= now)

Live(n) == n.expires > clock /\ n.end > clock

\* The keys whose elements are not what they were when seq was read.
Changed(seq) == {k \in Keys : Only(seq, {k}) # Only(subs, {k})}

Overwrite(p, new) ==
    /\ subs' = new
    /\ clobbered' = clobbered \cup Changed(proc[p].copy)

\* A push that does not repeat the test that nothing is there.
PushUnguarded(n) ==
    /\ subs' = Append(subs, n)
    /\ clobbered' = clobbered \cup {k \in {n.key} : Holds(subs, k)}

-----------------------------------------------------------------------------
\* Processes.

At(p, l) == proc[p].pc = l
Finish(p) == proc' = [proc EXCEPT ![p] = Idle]
JobOf(p) == proc[p].job
Become(p, l, j, c, t) == proc' = [proc EXCEPT ![p] = [pc |-> l, job |-> j, copy |-> c, todo |-> t]]
Goto(p, l) == Become(p, l, JobOf(p), proc[p].copy, proc[p].todo)
Turn(p, l, j) == Become(p, l, j, proc[p].copy, proc[p].todo)
Left(p, t) == Become(p, proc[p].pc, JobOf(p), proc[p].copy, t)
Busy == {p \in Procs : proc[p].pc # "idle"}
Begin(p, l, j, c, t) == Cardinality(Busy) < MaxBusy /\ Become(p, l, j, c, t)
KeyOf(p) == proc[p].job.key
InvoiceOf(p) == <<proc[p].job.key, proc[p].job.end>>

\* A rejected call or a crash while faults remain.
Fault == faults < MaxFaults /\ faults' = faults + 1

-----------------------------------------------------------------------------
\* Faulty variants of the steps below: what a change of the code would do.

\* A cancelled element gets a status Stripe and the schema do not have.
WriteCancelledMarked(h) ==
    /\ At(h, "write") /\ JobOf(h).type = "cancel"
    /\ Overwrite(h, [i \in DOMAIN proc[h].copy |->
           IF proc[h].copy[i].key = KeyOf(h)
           THEN [proc[h].copy[i] EXCEPT !.status = "cancelled"] ELSE proc[h].copy[i]])
    /\ active' = active \ {KeyOf(h)}
    /\ Finish(h)
    /\ UNCHANGED <<ledger, world, faults, ended, guessed, echoed, owned, collected, dropped>>

\* The period is added to what the element has, not taken from the invoice.
ExtendByOne(h) ==
    /\ At(h, "extend")
    /\ LET k == KeyOf(h)
       IN  IF Holds(subs, k)
           THEN /\ subs' = SetFirst(subs, k, subs[FirstOf(subs, k)].end + 1, "active")
                /\ Goto(h, "ensure")
           ELSE Goto(h, "push") /\ UNCHANGED subs
    /\ UNCHANGED <<active, ledger, world, faults, ghosts>>

\* The update alone: an element that is not there is not pushed.
ExtendAlone(h) ==
    /\ At(h, "extend")
    /\ LET k == KeyOf(h)
       IN  subs' = IF Holds(subs, k) THEN SetFirst(subs, k, JobOf(h).end, "active") ELSE subs
    /\ Goto(h, "ensure")
    /\ UNCHANGED <<active, ledger, world, faults, ghosts>>

\* Any transaction of the subscription counts as this invoice's.
DedupeBySubscription(h) ==
    /\ At(h, "dedupe")
    /\ IF \A v \in Invoices : v[1] = KeyOf(h) => tx[v] = <<>> THEN Goto(h, "insert") ELSE Finish(h)
    /\ UNCHANGED <<userDoc, ledger, world, faults, ghosts>>

\* A deleted subscription is removed at once.
WriteDeletedAtOnce(h) ==
    /\ At(h, "write") /\ JobOf(h).type = "deleted"
    /\ Overwrite(h, Without(proc[h].copy, {KeyOf(h)}))
    /\ active' = active \ {KeyOf(h)}
    /\ Finish(h)
    /\ UNCHANGED <<ledger, world, faults, ended, guessed, echoed, owned, collected, dropped>>

\* The job looks for elements that activeSubscriptions names.
SweepStartListed ==
    /\ "sweep" \in Jobs /\ At("sweep", "idle")
    /\ \E i \in DOMAIN subs : Lapsed(subs[i], clock) /\ subs[i].key \in active
    /\ Begin("sweep", "revoke", NewJob("sweep", NoKey, clock, "none"), subs,
             {<<s, 0>> : s \in {j \in Subs : \E i \in DOMAIN subs :
                                               subs[i].key = j /\ Lapsed(subs[i], clock)}})
    /\ UNCHANGED <<userDoc, ledger, world, faults, ghosts>>

\* What remains after the job are live Stripe subscriptions.
SweepWriteSubs ==
    /\ At("sweep", "revoke") /\ proc["sweep"].todo = {}
    /\ LET seen == proc["sweep"].copy
           now == JobOf("sweep").end
       IN  /\ Overwrite("sweep", Selected(seen, {i \in DOMAIN seen : seen[i].key \in Subs /\ ~Lapsed(seen[i], now)}))
           /\ active' = active \ {k \in Subs : \E i \in DOMAIN seen : seen[i].key = k /\ Lapsed(seen[i], now)}
    /\ Finish("sweep")
    /\ UNCHANGED <<ledger, world, faults, ended, guessed, echoed, owned, collected, dropped>>

\* The job leaves activeSubscriptions as it is.
SweepWriteArrayOnly ==
    /\ At("sweep", "revoke") /\ proc["sweep"].todo = {}
    /\ LET seen == proc["sweep"].copy
       IN  Overwrite("sweep", Selected(seen, {i \in DOMAIN seen : ~Lapsed(seen[i], JobOf("sweep").end)}))
    /\ Finish("sweep")
    /\ UNCHANGED <<active, ledger, world, faults, ended, guessed, echoed, owned, collected, dropped>>

-----------------------------------------------------------------------------
\* Stripe and the user.

\* The customer pays an open checkout session.
Pay(k) ==
    /\ k \in sessions
    /\ sessions' = sessions \ {k}
    /\ IF k \in Subs
       THEN /\ stripe' = [stripe EXCEPT ![k] = [status |-> "active", end |-> clock + 1]]
            /\ collected' = collected \cup {<<k, clock + 1>>}
            /\ events' = events \cup {NewJob("checkout", k, clock + 1, "active"),
                                      NewJob("paid", k, clock + 1, "active")}
       ELSE /\ NewJob("checkout", k, 0, "active") \notin events
            /\ events' = events \cup {NewJob("checkout", k, 0, "active")}
            /\ UNCHANGED <<stripe, collected>>
    /\ UNCHANGED <<userDoc, ledger, unpaid, clock, requests, declines, proc, faults, clobbered, ended, guessed, echoed, owned, dropped>>

\* A period is over: Stripe opens the next one and issues its invoice.
Roll(s) ==
    /\ stripe[s].status = "active"
    /\ stripe[s].end <= clock
    /\ stripe' = [stripe EXCEPT ![s].end = @ + 1]
    /\ unpaid' = unpaid \cup {<<s, stripe[s].end + 1>>}
    /\ events' = events \cup {NewJob("updated", s, stripe[s].end + 1, "active")}
    /\ UNCHANGED <<userDoc, ledger, sessions, clock, requests, declines, proc, faults, ghosts>>

Collect(s, e) ==
    /\ <<s, e>> \in unpaid
    /\ stripe[s].status \in {"active", "past_due"}
    /\ unpaid' = unpaid \ {<<s, e>>}
    /\ stripe' = [stripe EXCEPT ![s].status = "active"]
    /\ collected' = collected \cup {<<s, e>>}
    /\ events' = events \cup {NewJob("paid", s, e, "active")}
          \cup {n \in {NewJob("updated", s, stripe[s].end, "active")} : stripe[s].status = "past_due"}
    /\ UNCHANGED <<userDoc, ledger, sessions, clock, requests, declines, proc, faults, clobbered, ended, guessed, echoed, owned, dropped>>

Decline(s, e) ==
    /\ <<s, e>> \in unpaid
    /\ declines < MaxDeclines
    /\ declines' = declines + 1
    /\ stripe[s].status = "active"
    /\ stripe' = [stripe EXCEPT ![s].status = "past_due"]
    /\ events' = events \cup {NewJob("failed", s, e, "past_due"), NewJob("intent", s, e, "past_due"),
                              NewJob("updated", s, stripe[s].end, "past_due")}
    /\ UNCHANGED <<userDoc, ledger, unpaid, sessions, clock, requests, proc, faults, ghosts>>

\* subscriptions.cancel, by the code below or by Stripe after the last retry.
CancelAtStripe(s) ==
    IF stripe[s].status \in {"active", "past_due"}
    THEN /\ stripe' = [stripe EXCEPT ![s].status = "canceled"]
         /\ events' = events \cup {NewJob("deleted", s, stripe[s].end, "canceled")}
    ELSE UNCHANGED <<stripe, events>>

GiveUp(s) ==
    /\ stripe[s].status = "past_due"
    /\ CancelAtStripe(s)
    /\ UNCHANGED <<userDoc, ledger, unpaid, sessions, clock, requests, declines, proc, faults, ghosts>>

Succeeded(v) == "succeeded" \in {tx[v][i] : i \in DOMAIN tx[v]}

\* The invoices of the look-back window: renewals for the hourly job, every
\* successful transaction with a subscription for the daily one.
Recent(kind) ==
    {v \in Invoices : looks[v] > 0 /\
        CASE kind = "hourly" -> v \in renewed /\ Succeeded(v)
          [] kind = "daily" -> v \in sales \/ Succeeded(v)}

\* Their transactions.  That of an invoice has the end of its period for next
\* billing date; that of a checkout has none, or one that Stripe did not name
\* (a week after the handler ran): its period is left open, <<s, 0>>.
Load(kind) ==
    {v \in Recent(kind) : Succeeded(v)}
        \cup {<<v[1], 0>> : v \in {w \in Recent(kind) : kind = "daily" /\ w \in sales}}

\* A period is longer than a handler takes, than Stripe redelivers and than
\* the jobs look back.
Tick ==
    /\ clock < MaxClock
    /\ events = {}
    /\ Busy \cap Handlers = {}
    /\ \A kind \in Jobs \ {"sweep"} : Recent(kind) = {}
    /\ clock' = clock + 1
    /\ UNCHANGED <<userDoc, ledger, stripe, unpaid, events, sessions, requests, declines, proc, faults, ghosts>>

-----------------------------------------------------------------------------
\* The requests of the user.

Request(h) ==
    /\ At(h, "idle")
    /\ requests < MaxRequests
    /\ requests' = requests + 1

\* createCheckoutSession and validateAndCleanupSubscription.  A session leads
\* to a Stripe subscription of its own.
Buy(h, k) ==
    /\ Request(h)
    /\ k \notin sessions
    /\ k \in Subs => stripe[k].status = "none" /\ \A p \in Procs : KeyOf(p) # k
    /\ LET old == Only(subs, SamePlan(k))
       IN  /\ \A i \in DOMAIN old : ~Live(old[i])
           /\ IF old = <<>>
              THEN sessions' = sessions \cup {k} /\ UNCHANGED proc
              ELSE /\ Begin(h, "revoke", NewJob("buy", k, 0, "none"), subs,
                            {<<s, 0>> : s \in {j \in Subs : Holds(old, j)}})
                   /\ UNCHANGED sessions
    /\ UNCHANGED <<userDoc, ledger, stripe, unpaid, events, clock, declines, faults, ghosts>>

CleanUp(h) ==
    /\ At(h, "revoke") /\ JobOf(h).type = "buy" /\ proc[h].todo = {}
    /\ LET plan == SamePlan(KeyOf(h))
           seen == proc[h].copy
       IN  /\ subs' = Without(subs, plan)
           /\ active' = active \ {s \in plan : Holds(seen, s)}
           /\ clobbered' = clobbered \cup (plan \cap Changed(seen))
    /\ sessions' = sessions \cup {KeyOf(h)}
    /\ Finish(h)
    /\ UNCHANGED <<ledger, stripe, unpaid, events, clock, requests, declines, faults, ended, guessed, echoed, owned, collected, dropped>>

\* cancelSubscription, of the first element with the plan of k.
Cancel(h, k) ==
    /\ Request(h)
    /\ Holds(subs, k)
    /\ \A j \in SamePlan(k) : Holds(subs, j) => FirstOf(subs, k) <= FirstOf(subs, j)
    /\ IF k \in Subs
       THEN Begin(h, "revoke", NewJob("cancel", k, 0, "none"), subs, {<<k, 0>>})
       ELSE Begin(h, "pull", NewJob("cancel", k, 0, "none"), <<>>, {})
    /\ UNCHANGED <<userDoc, ledger, stripe, unpaid, events, sessions, clock, declines, faults, ghosts>>

\* One await of stripe.subscriptions.cancel.  Cancelling what is cancelled
\* already is an error, which cancelSubscription does not survive.
Revoke(p, s) ==
    /\ At(p, "revoke")
    /\ <<s, 0>> \in proc[p].todo
    /\ CancelAtStripe(s)
    /\ CASE JobOf(p).type # "cancel" -> Left(p, proc[p].todo \ {<<s, 0>>})
         [] JobOf(p).type = "cancel" /\ stripe[s].status = "canceled" -> Finish(p)
         [] OTHER -> Become(p, "write", JobOf(p), proc[p].copy, {})
    /\ UNCHANGED <<userDoc, ledger, unpaid, sessions, clock, requests, declines, faults, ghosts>>

\* safelyCancelStripeSubscription logs a failed call and goes on.
RevokeRejected(p, s) ==
    /\ At(p, "revoke")
    /\ <<s, 0>> \in proc[p].todo
    /\ JobOf(p).type # "cancel"
    /\ Fault
    /\ Left(p, proc[p].todo \ {<<s, 0>>})
    /\ UNCHANGED <<userDoc, ledger, world, ghosts>>

WriteCancelled(h) ==
    /\ At(h, "write") /\ JobOf(h).type = "cancel"
    /\ \E e \in {clock, clock + 1} :
          LET plan == SamePlan(KeyOf(h))
              seen == proc[h].copy
          IN  Overwrite(h, [i \in DOMAIN seen |->
                  IF seen[i].key \in plan THEN [seen[i] EXCEPT !.expires = e] ELSE seen[i]])
    /\ active' = active \ {KeyOf(h)}
    /\ ended' = ended \cup SamePlan(KeyOf(h))
    /\ Finish(h)
    /\ UNCHANGED <<ledger, world, faults, guessed, echoed, owned, collected, dropped>>

-----------------------------------------------------------------------------
\* The event handlers.

\* A handler takes an event and makes its first read: the user (copied by the
\* handlers that write it back, looked at for `activeSubscriptions` by the
\* others) or the transaction of a payment intent.
Deliver(h, n) ==
    /\ At(h, "idle")
    /\ n \in events
    /\ events' = events \ {n}
    /\ LET k == n.key
           v == <<n.key, n.end>>
           expiry == IF k \in Courses /\ Term[k] # Never THEN clock + Term[k] ELSE Never
       IN  CASE n.type = "checkout" /\ k \in Subs -> Begin(h, "sale", n, <<>>, {})
             [] n.type = "checkout" /\ k \in Courses -> Begin(h, "pull", [n EXCEPT !.end = expiry], <<>>, {})
             [] n.type = "paid" -> Begin(h, "dedupe", n, <<>>, {v} \ {w \in Invoices : w[1] \in active})
             [] n.type = "failed" -> Begin(h, "insert", n, <<>>, {})
             [] n.type = "intent" /\ tx[v] # <<>> -> Begin(h, "save", n, <<>>, {})
             [] n.type = "updated" -> Begin(h, "write", n, subs, {})
             [] n.type = "deleted" /\ subs # <<>> /\ k \in active -> Begin(h, "write", n, subs, {})
             [] OTHER -> UNCHANGED proc
    /\ UNCHANGED <<userDoc, ledger, stripe, unpaid, sessions, clock, requests, declines, faults, ghosts>>

\* handleCheckoutCompleted: the transaction and its CREATED history record.
RecordSale(h) ==
    /\ At(h, "sale")
    /\ sales' = sales \cup {InvoiceOf(h)}
    /\ looks' = [looks EXCEPT ![InvoiceOf(h)] = LookBack]
    /\ Goto(h, "fetch")
    /\ UNCHANGED <<userDoc, tx, renewed, world, faults, ghosts>>

\* The period comes from Stripe, or is left out when the call fails.
Fetch(h) ==
    /\ At(h, "fetch")
    /\ LET s == stripe[KeyOf(h)]
       IN  Turn(h, "upsert", NewJob("checkout", KeyOf(h), s.end, s.status))
    /\ UNCHANGED <<userDoc, ledger, world, faults, ghosts>>

FetchRejected(h) ==
    /\ At(h, "fetch")
    /\ Fault
    /\ Turn(h, "upsert", NewJob("checkout", KeyOf(h), Never, "active"))
    /\ UNCHANGED <<userDoc, ledger, world, ghosts>>

\* Update the matching element; without one, go on to a guarded push.
Upsert(h) ==
    /\ At(h, "upsert")
    /\ LET k == KeyOf(h)
       IN  IF Holds(subs, k)
           THEN /\ subs' = SetFirst(subs, k, JobOf(h).end, JobOf(h).status)
                /\ active' = active \cup {k}
                /\ Finish(h)
           ELSE Goto(h, "push") /\ UNCHANGED userDoc
    /\ UNCHANGED <<ledger, world, faults, ghosts>>

PushIfAbsent(h) ==
    /\ At(h, "push")
    /\ LET k == KeyOf(h)
       IN  IF Holds(subs, k)
           THEN UNCHANGED userDoc
           ELSE /\ subs' = Append(subs, NewEntry(k, JobOf(h).end, JobOf(h).status))
                /\ active' = active \cup {k}
    /\ IF JobOf(h).type = "paid" THEN Goto(h, "ensure") ELSE Finish(h)
    /\ UNCHANGED <<ledger, world, faults, ghosts>>

\* A course replaces the elements of its plan: $pull, then $push.
Pull(h) ==
    /\ At(h, "pull")
    /\ subs' = Without(subs, SamePlan(KeyOf(h)))
    /\ owned' = owned \ SamePlan(KeyOf(h))
    /\ IF JobOf(h).type = "checkout" THEN Goto(h, "append") ELSE Finish(h)
    /\ UNCHANGED <<active, ledger, world, faults, clobbered, ended, guessed, echoed, collected, dropped>>

AppendCourse(h) ==
    /\ At(h, "append")
    /\ PushUnguarded(NewEntry(KeyOf(h), JobOf(h).end, "active"))
    /\ owned' = owned \cup {KeyOf(h)}
    /\ Finish(h)
    /\ UNCHANGED <<active, ledger, world, faults, ended, guessed, echoed, collected, dropped>>

\* handleRecurringPayment: a transaction with the invoice's payment intent,
\* whatever its status, means that the invoice was processed before.
Dedupe(h) ==
    /\ At(h, "dedupe")
    /\ IF tx[InvoiceOf(h)] = <<>> THEN Goto(h, "insert") ELSE Finish(h)
    /\ UNCHANGED <<userDoc, ledger, world, faults, ghosts>>

\* The transaction of a paid invoice, or of a failed attempt to collect it
\* (handlePaymentFailed, which ends here).
Insert(h) ==
    /\ At(h, "insert")
    /\ LET v == InvoiceOf(h)
       IN  IF JobOf(h).type = "paid"
           THEN /\ tx' = [tx EXCEPT ![v] = Append(@, "succeeded")]
                /\ looks' = [looks EXCEPT ![v] = LookBack]
                /\ Goto(h, "history")
           ELSE /\ tx' = [tx EXCEPT ![v] = Append(@, "failed")]
                /\ Finish(h)
                /\ UNCHANGED looks
    /\ UNCHANGED <<userDoc, sales, renewed, world, faults, ghosts>>

RecordRenewal(h) ==
    /\ At(h, "history")
    /\ renewed' = renewed \cup {InvoiceOf(h)}
    /\ Goto(h, "extend")
    /\ UNCHANGED <<userDoc, tx, sales, looks, world, faults, ghosts>>

Extend(h) ==
    /\ At(h, "extend")
    /\ LET k == KeyOf(h)
       IN  IF Holds(subs, k)
           THEN subs' = SetFirst(subs, k, JobOf(h).end, "active") /\ Goto(h, "ensure")
           ELSE Goto(h, "push") /\ UNCHANGED subs
    /\ UNCHANGED <<active, ledger, world, faults, ghosts>>

\* A rejected update is caught, and a direct one is tried.
ExtendRejected(h) ==
    /\ \/ At(h, "extend")
       \/ At(h, "push") /\ JobOf(h).type = "paid"
    /\ Fault
    /\ Goto(h, "direct")
    /\ UNCHANGED <<userDoc, ledger, world, ghosts>>

Direct(h) ==
    /\ At(h, "direct")
    /\ LET k == KeyOf(h)
       IN  subs' = IF Holds(subs, k) THEN SetFirst(subs, k, JobOf(h).end, "active") ELSE subs
    /\ Goto(h, "ensure")
    /\ UNCHANGED <<active, ledger, world, faults, ghosts>>

\* activeSubscriptions, as the user was when the handler began.
Ensure(h) ==
    /\ At(h, "ensure")
    /\ LET missing == {v[1] : v \in proc[h].todo}
       IN  /\ active' = active \cup missing
           /\ echoed' = echoed \cup {s \in missing : ~Holds(subs, s)}
    /\ Finish(h)
    /\ UNCHANGED <<subs, ledger, world, faults, clobbered, ended, guessed, owned, collected, dropped>>

\* handleSubscriptionUpdated writes back its copy of the array.  The metadata
\* of a subscription name its plan.
WriteUpdated(h) ==
    /\ At(h, "write") /\ JobOf(h).type = "updated"
    /\ Overwrite(h, SetAndAdd(proc[h].copy, KeyOf(h), JobOf(h).end, JobOf(h).status))
    /\ Finish(h)
    /\ UNCHANGED <<active, ledger, world, faults, ended, guessed, echoed, owned, collected, dropped>>

\* handleSubscriptionCanceled: the predicate of its find does not look at the
\* element, so the first one of the array gets the end of access.
WriteDeleted(h) ==
    /\ At(h, "write") /\ JobOf(h).type = "deleted"
    /\ Overwrite(h, [proc[h].copy EXCEPT ![1].expires = clock + 1])
    /\ active' = active \ {KeyOf(h)}
    /\ ended' = ended \cup {proc[h].copy[1].key}
    /\ Finish(h)
    /\ UNCHANGED <<ledger, world, faults, guessed, echoed, owned, collected, dropped>>

\* handlePaymentIntentFailed saves FAILED on the transaction it found.
SaveFailed(h) ==
    /\ At(h, "save")
    /\ tx' = [tx EXCEPT ![InvoiceOf(h)][1] = "failed"]
    /\ Finish(h)
    /\ UNCHANGED <<userDoc, sales, renewed, looks, world, faults, ghosts>>

-----------------------------------------------------------------------------
\* The midnight job: removeExpiredSubscriptions.

SweepStart ==
    /\ "sweep" \in Jobs /\ At("sweep", "idle")
    /\ \E i \in DOMAIN subs : Lapsed(subs[i], clock)
    /\ Begin("sweep", "revoke", NewJob("sweep", NoKey, clock, "none"), subs,
             {<<s, 0>> : s \in {j \in Subs : \E i \in DOMAIN subs :
                                               subs[i].key = j /\ Lapsed(subs[i], clock)}})
    /\ UNCHANGED <<userDoc, ledger, world, faults, ghosts>>

\* The elements that were not expired replace the array.
SweepWrite ==
    /\ At("sweep", "revoke") /\ proc["sweep"].todo = {}
    /\ LET seen == proc["sweep"].copy
           now == JobOf("sweep").end
           gone == {k \in Subs : \E i \in DOMAIN seen : seen[i].key = k /\ Lapsed(seen[i], now)}
       IN  /\ Overwrite("sweep", Selected(seen, {i \in DOMAIN seen : ~Lapsed(seen[i], now)}))
           /\ active' = active \ gone
    /\ Finish("sweep")
    /\ UNCHANGED <<ledger, world, faults, ended, guessed, echoed, owned, collected, dropped>>

-----------------------------------------------------------------------------
\* The synchronisation jobs: hourlySyncCheck and syncSubscriptionDates.

SyncStart(kind) ==
    /\ kind \in Jobs /\ At("sync", "idle")
    /\ Load(kind) # {} \/ (kind = "daily" /\ subs # <<>>)
    /\ Begin("sync", "each", NewJob(kind, NoKey, 0, "active"), <<>>, Load(kind))
    /\ looks' = [v \in Invoices |-> IF v \in Recent(kind) THEN looks[v] - 1 ELSE looks[v]]
    /\ UNCHANGED <<userDoc, tx, sales, renewed, world, faults, ghosts>>

\* Without a period the job writes the date a week from now, which may be
\* either end of the period it falls in.
Ends(v) == IF v[2] = 0 THEN {clock, clock + 1, clock + 2} ELSE {v[2]}

\* syncTransactionToUser reads the user: an element that ends later is left
\* alone, an older one is to be updated, and without one there is one to add.
SyncRead(v) ==
    /\ At("sync", "each")
    /\ v \in proc["sync"].todo
    /\ \E e \in Ends(v) :
          LET ahead == Holds(subs, v[1]) /\ LET n == subs[FirstOf(subs, v[1])]
                                            IN  n.end >= e /\ n.end # Never
              next == IF Holds(subs, v[1]) THEN "apply" ELSE "add"
          IN  /\ Become("sync", IF ahead THEN "each" ELSE next,
                        NewJob(JobOf("sync").type, IF ahead THEN NoKey ELSE v[1], IF ahead THEN 0 ELSE e, "active"),
                        <<>>, proc["sync"].todo \ {v})
              /\ guessed' = guessed \cup {s \in {v[1]} : v[2] = 0 /\ ~ahead}
    /\ UNCHANGED <<userDoc, ledger, world, faults, clobbered, ended, echoed, owned, collected, dropped>>

\* Back to the loop over the transactions.
NextTransaction ==
    Become("sync", "each", NewJob(JobOf("sync").type, NoKey, 0, "active"), <<>>, proc["sync"].todo)

\* An update that matches nothing any more is forced.
SyncApply ==
    /\ At("sync", "apply")
    /\ LET k == KeyOf("sync")
       IN  IF Holds(subs, k)
           THEN subs' = SetFirst(subs, k, JobOf("sync").end, "active") /\ NextTransaction
           ELSE Goto("sync", "force") /\ UNCHANGED subs
    /\ UNCHANGED <<active, ledger, world, faults, ghosts>>

SyncAdd ==
    /\ At("sync", "add")
    /\ PushUnguarded(NewEntry(KeyOf("sync"), JobOf("sync").end, "active"))
    /\ active' = active \cup {KeyOf("sync")}
    /\ NextTransaction
    /\ UNCHANGED <<ledger, world, faults, ended, guessed, echoed, owned, collected, dropped>>

\* forceUpdateSubscription reads again, and writes the whole array.
SyncForce ==
    /\ At("sync", "force")
    /\ Become("sync", "write", JobOf("sync"), subs, proc["sync"].todo)
    /\ UNCHANGED <<userDoc, ledger, world, faults, ghosts>>

SyncWrite ==
    /\ At("sync", "write")
    /\ Overwrite("sync", SetOrAdd(proc["sync"].copy, KeyOf("sync"), JobOf("sync").end, "active"))
    /\ NextTransaction
    /\ UNCHANGED <<active, ledger, world, faults, ended, guessed, echoed, owned, collected, dropped>>

\* After the transactions the daily job reads the user for syncFromStripeAPI.
SyncLoaded ==
    /\ At("sync", "each") /\ proc["sync"].todo = {}
    /\ IF JobOf("sync").type = "daily" /\ Only(subs, Subs) # <<>>
       THEN Become("sync", "list", JobOf("sync"), subs, {})
       ELSE Finish("sync")
    /\ UNCHANGED <<userDoc, ledger, world, faults, ghosts>>

\* The active subscriptions of the customer, and their periods.
SyncList ==
    /\ At("sync", "list")
    /\ Become("sync", "adjust", JobOf("sync"), proc["sync"].copy,
              {<<s, stripe[s].end>> : s \in {j \in Subs : stripe[j].status = "active"}})
    /\ UNCHANGED <<userDoc, ledger, world, faults, ghosts>>

SyncAdjust(v) ==
    /\ At("sync", "adjust")
    /\ v \in proc["sync"].todo
    /\ Left("sync", proc["sync"].todo \ {v})
    /\ LET seen == proc["sync"].copy
           differs == Holds(seen, v[1]) /\ seen[FirstOf(seen, v[1])].end # v[2]
       IN  subs' = IF differs /\ Holds(subs, v[1]) THEN SetFirst(subs, v[1], v[2], "active") ELSE subs
    /\ UNCHANGED <<active, ledger, world, faults, ghosts>>

SyncDone ==
    /\ At("sync", "adjust") /\ proc["sync"].todo = {}
    /\ Finish("sync")
    /\ UNCHANGED <<userDoc, ledger, world, faults, ghosts>>

-----------------------------------------------------------------------------
\* Faults.

\* What a handler that ends here leaves undone: its event is never retried.
Unpaid(p) == {v \in {InvoiceOf(p)} : JobOf(p).type = "paid"}

\* A database or Stripe call is rejected and nothing catches it.
CallRejected(p) ==
    /\ ~At(p, "idle")
    /\ ~(At(p, "revoke") /\ JobOf(p).type # "cancel" /\ proc[p].todo # {})
    /\ ~At(p, "fetch")
    /\ Fault
    /\ dropped' = dropped \cup Unpaid(p)
    /\ Finish(p)
    /\ UNCHANGED <<userDoc, ledger, world, clobbered, ended, guessed, echoed, owned, collected>>

\* The process restarts: handlers and jobs are gone, the documents stay.
Crash ==
    /\ \E p \in Procs : ~At(p, "idle")
    /\ Fault
    /\ dropped' = dropped \cup UNION {Unpaid(p) : p \in Procs}
    /\ proc' = [p \in Procs |-> Idle]
    /\ UNCHANGED <<userDoc, ledger, world, clobbered, ended, guessed, echoed, owned, collected>>

-----------------------------------------------------------------------------
HandlerStep(h) ==
    \/ \E s \in Subs : Revoke(h, s)
    \/ CleanUp(h) \/ WriteCancelled(h)
    \/ RecordSale(h) \/ Fetch(h) \/ Upsert(h) \/ PushIfAbsent(h)
    \/ Pull(h) \/ AppendCourse(h)
    \/ Dedupe(h) \/ Insert(h) \/ RecordRenewal(h) \/ Extend(h) \/ Direct(h) \/ Ensure(h)
    \/ WriteUpdated(h) \/ WriteDeleted(h) \/ SaveFailed(h)

Sweep == SweepStart \/ SweepWrite \/ \E s \in Subs : Revoke("sweep", s)

Sync ==
    \/ \E v \in Invoices : SyncRead(v) \/ SyncAdjust(v)
    \/ SyncApply \/ SyncAdd \/ SyncForce \/ SyncWrite \/ SyncLoaded \/ SyncList \/ SyncDone

Stripe ==
    \/ \E s \in Subs : Roll(s) \/ GiveUp(s)
    \/ \E v \in Invoices : Collect(v[1], v[2]) \/ Decline(v[1], v[2])

User ==
    \/ \E k \in Keys : Pay(k)
    \/ \E h \in Handlers, k \in Keys : Buy(h, k) \/ Cancel(h, k)

Faulty ==
    \/ \E p \in Procs : CallRejected(p)
    \/ \E p \in Procs, s \in Subs : RevokeRejected(p, s)
    \/ \E h \in Handlers : FetchRejected(h) \/ ExtendRejected(h)
    \/ Crash

Next ==
    \/ Tick
    \/ Stripe
    \/ User
    \/ \E h \in Handlers, n \in events : Deliver(h, n)
    \/ \E h \in Handlers : HandlerStep(h)
    \/ Sweep
    \/ \E kind \in {"hourly", "daily"} : SyncStart(kind)
    \/ Sync
    \/ Faulty

Spec == Init /\ [][Next]_vars

\* Started work goes on, and the scheduler starts the jobs.
Fairness ==
    /\ \A h \in Handlers : WF_vars(HandlerStep(h))
    /\ WF_vars(Sweep)
    /\ WF_vars(Sync)
    /\ \A kind \in {"hourly", "daily"} : WF_vars(SyncStart(kind))

FairSpec == Spec /\ Fairness
-----------------------------------------------------------------------------
\* A course bought for good stays in the array without an end, whatever else
\* the user buys, unless a writer overwrote it with an old copy or the deletion
\* of some subscription gave it an end.
PurchaseKept ==
    \A c \in owned \ (clobbered \cup ended) :
        Term[c] = Never => \E i \in DOMAIN subs : subs[i].key = c /\ subs[i].expires = Never

\* The same without the second exception: an end set by handling a deletion
\* belongs to the subscription that was deleted, never to another purchase.
DeletionEndsItsOwn ==
    \A c \in owned \ clobbered :
        Term[c] = Never => \E i \in DOMAIN subs : subs[i].key = c /\ subs[i].expires = Never

\* The period of an element and the access it gives reach no further than the
\* period Stripe has issued, whichever writer came last.  Excused are the date
\* a synchronisation job made up, the access a deletion or a cancellation set,
\* and a period that could not be fetched.
EndsWereIssued ==
    \A i \in DOMAIN subs :
        LET n == subs[i]
            Issued(e) == e <= stripe[n.key].end \/ (e = Never /\ faults > 0)
        IN  n.key \in Subs \ guessed => Issued(n.end) /\ (n.key \in ended \/ Issued(n.expires))

\* activeSubscriptions names nothing that the array has lost, although they
\* are written by separate updates: only a handler that looked at the user
\* before the element was removed may still name it.
ActiveIsHeld == \A s \in active \ (clobbered \cup echoed) : Holds(subs, s)

Carries(p, v) == proc[p].pc # "idle" /\ JobOf(p).type = "paid" /\ InvoiceOf(p) = v

\* Collected, and its payment event handled to the end.
Settled(v) ==
    /\ v \in collected \ dropped
    /\ NewJob("paid", v[1], v[2], "active") \notin events
    /\ \A p \in Procs : ~Carries(p, v)

\* A payment whose event was handled has left a transaction: the test for a
\* duplicate dismisses an invoice only for a transaction of its own.
PaymentLeavesTrace == \A v \in Invoices : Settled(v) => tx[v] # <<>>

\* A customer who is billed has access: once the payment of an invoice is
\* handled, beside whatever else is in flight, the array holds a subscription
\* that Stripe goes on collecting, unless a write went by an old copy.
PaidIsHeld ==
    \A v \in Invoices :
        Settled(v) /\ stripe[v[1]].status \in {"active", "past_due"} /\ faults = 0
            => v[1] \in clobbered \/ Holds(subs, v[1])

\* A subscription leaves the array only when its period or its access is over,
\* or because a write overwrote it.
DropsOnlyLapsed ==
    [][\A s \in Subs : Holds(subs, s) /\ ~Holds(subs', s) =>
          \/ s \in clobbered'
          \/ \A i \in DOMAIN subs : subs[i].key = s => ~Live(subs[i])]_vars

\* What has lapsed does not stay: the midnight job removes it or a payment
\* extends it.
LapsedIsRemoved ==
    \A k \in Keys :
        LET HasLapsed == \E i \in DOMAIN subs : subs[i].key = k /\ Lapsed(subs[i], clock)
        IN  HasLapsed ~> ~HasLapsed
=============================================================================
