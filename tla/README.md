# A verification project for day-trade-dak-api

The repository is the NestJS API of a trading-education site: subscriptions and
event registrations paid through Stripe, meetings, content, e-mail campaigns, and
a replica of events and registrations fed from a "Global API" through RabbitMQ.
State lives in MongoDB documents written through mongoose. There are no
transactions: consistency rests on single-document writes, a few unique indexes,
and on what happens between two `await`s. That is where these models look.

Paths below are relative to the repository root (`src/event/...`).

## 1. Inventory

One Node process serves HTTP, runs the `@Cron` jobs and consumes RabbitMQ
(`ecosystem.config.js:6-7` starts one fork-mode instance). Within the process,
code runs uninterrupted from one `await` to the next; between them any other
request, webhook, job or message may run. A crash ends all of it at once.

| component | state it keeps | operations | hard behaviour | what makes it correct |
|---|---|---|---|---|
| Stripe webhook inbox (`payments/stripe`) | `WebhookEvent` documents | `stripeWebhook`, `handleWebhookEvent` | duplicate and concurrent deliveries, exceptions, restarts | a handler runs at most once; a status tells how the handler ended; retries end |
| Partial payments (`event/event-partial-payment.service.ts`) | `EventRegistration`, `EventPaymentTracker`, Stripe sessions | initiate, pay, confirm, clean up | handlers, requests and cleanup overlapping; two callers; stale copies; session lifetime | totals never claim more than was paid; paid in full means paid; a paid payment is not lost |
| Full registration, VIP (`event/event-registration.service.ts`, `stripe.service.ts`) | `EventRegistration`, `currentRegistrations` | checkout, confirm | check-then-insert, counter lost updates, capacity | one registration per person, capacity kept |
| Subscriptions (`stripe.service.ts`, `services/subscription-sync.service.ts`, `cron/`) | `user.subscriptions`, `user.activeSubscriptions`, `Transaction` | five webhook handlers, sync and expiry jobs, cancel | whole-array writes of stale copies, events out of order, duplicates | a paid subscription is active, a lapsed one ends, its period is Stripe's |
| Affiliates (`affiliate/`) | affiliates, commissions | validate, create, pay out | two writes, no deduplication | commissions match completed sales |
| Local financing (`payments/local-financing`) | plans, installments | create, pay, mark overdue | handlers never reached from the webhook | — |
| Global sync (`global-sync/`) | replicas of events, meetings, registrations | consumer of created / updated / cancelled / deleted | handlers overlap, redelivery, versions, refused content, no unique index | the replica converges; versions do not go back |
| Campaigns (`email-marketing/`) | campaign status, counters, opt-outs | schedule, send, cancel, edit, delete | job and manual send race, restart during a send | nobody is mailed more often than listed, a sent campaign is complete, a scheduled one is processed |
| Market rate limiter (`services/market`) | windows, queue | wait, process, execute | none: only `getAllStatuses` has a caller (`market.controller.ts:206`) | — |
| Meetings, tokens (`meetings/`, `livekit/`, `zoom-webhooks/`) | meetings, token sets | create, join, end | single-use tokens across an await | a token admits once |
| Content video (`content/processors`) | content documents | transcode | stale save after minutes | the final status is stored |
| Scheduled jobs (`cron/`, `internal-cron/`) | — | schedule plus HTTP triggers | the same job started twice | idempotence |
| Users, auth, permissions, chatbot, notifications, announcements, journal, cache, settings, admin, seeds, migrations | documents | CRUD, I/O | — | — |

Interaction: a partial payment starts as an HTTP request, leaves the system as a
Stripe session, and returns as a webhook event. The inbox turns at-least-once
delivery into at-most-once handling (module `AtMostOnce`), and the partial
payments rely on exactly that: each payment's event is handled at most once. A second
caller, an endpoint of the controller, is not behind the inbox.

`Subscriptions` relies on the same promise: an event's handler begins once, and
is not begun again when the process died in it. `EventRegistrations` takes the
payments of a deposit from `PartialPayments` as one step, and that module takes the
other documents of an event, and the capacity test, from here.

`PROJECT.json` lists the hazards found, each at its line, with the properties
about it, or the reason why none is.

## 2. Modules

| module | role |
|---|---|
| `AtMostOnce` | abstract: the effect of an event begins at most once, and finishes or is cut short |
| `WebhookInbox` | the endpoint, await by await; implements `AtMostOnce` |
| `WebhookInboxMC`, `WebhookInbox*.cfg` | instances for TLC |
| `WebhookInboxProofs` | theorems about the inbox |
| `PartialPayments` | requests, webhook handler and cleanup over registrations and trackers |
| `PartialPaymentsMC`, `PartialPayments*.cfg` | instances for TLC |
| `PartialPaymentsProofs` | theorems about the payments |
| `PartialPaymentsLossProofs` | what loses a payment, and that what is owed can be paid |
| `GlobalSync` | the RabbitMQ consumer and the replica of one event or meeting |
| `GlobalSyncMC`, `GlobalSync*.cfg` | instances for TLC |
| `GlobalSyncProofs` | theorems about the consumer |
| `Subscriptions` | the purchases of one user: handlers, requests and jobs over one array, beside Stripe |
| `SubscriptionsMC`, `Subscriptions*.cfg` | instances for TLC |
| `SubscriptionsProofs` | theorems about the purchases: transactions, types and periods, the array, access of who is billed |
| `EventRegistrations` | the seats of one event, from every path that makes a registration |
| `EventRegistrationsMC`, `EventRegistrations.cfg` | instance for TLC |
| `EventRegistrationsProofs` | theorems about the seats |
| `Campaigns` | one e-mail campaign, its senders and the requests beside them |
| `CampaignsMC`, `Campaigns.cfg` | instance for TLC |
| `CampaignsProofs` | theorems about the campaign |
| `SumsAndSelections` | lemmas for the proofs: sums over finite sets, selections from sequences |

### WebhookInbox

`log[e]` is the status of the `WebhookEvent` document with `stripeEventId` e.
`pc[w]` is the await at which HTTP request `w` stands. An action is the code from
one await to the next: `LookUp` is the `findOne`, `Create` the insert (the unique
index rejects a second one, outside the `try`), `MarkProcessing`, `MarkProcessed`,
`MarkFailed` and `Ignore` the status saves. The business handler is one step that
begins, and one that returns, throws, or swallows an exception of its own
(`HandlerSwallows`). `Swallowing` are the events whose handler has a catch block that
does not rethrow, as the branch for partial payments has
(`stripe.service.ts:1788-1791`); to the inbox such a handler has returned, and the
document becomes `processed`. `StatusIsHonest` therefore claims of `processed` only
that the handler was begun and returned. It also says what a crash may leave: a
document in `received` or `processing` without a request at it needs a fault.
`DatabaseError` rejects the pending call; where the error goes depends on whether the
call is inside the `try`. `started`, `finished` and `swallowed` are ghosts that record
the handler; no guard reads them.

### PartialPayments

A deposit is named by its registration, an instalment by a member of
`Installments`. `reg` holds the registration documents (`live` is false before
the insert and after a delete), `history` the `paymentHistory` of each, `tracker`
and `session` the tracker and the Stripe session of each payment. Each activity
has a program counter: `pc` for `initiatePartialPayment` and `makePayment`, `hpc`
for `processSuccessfulPayment` (with `doc`, the copy it loaded), `cpc` for the
cleanup (with `doomed`, the list it found).

A mongoose `save()` writes only fields that differ from the loaded copy and
pushes array elements; `SavedOver` says so, and `ApplyPayment` uses it. A save of
a document that is gone throws. `processSuccessfulPayment` is called by the
webhook, where `handleCheckoutCompleted` swallows whatever it throws, and by the
controller's own endpoint `webhook/payment-success`
(`event-partial-payment.controller.ts:267-283`): `Sources` are the callers of one
payment, and a handler is a pair of payment and source, so that each caller calls at
most once. A completed tracker is not refused (`event-partial-payment.service.ts:414`),
hence two callers of one payment make two entries. The endpoint is modelled as called
for payments that were made, which is what its summary says.
The cleanup is started by the `@Cron` schedule and by the HTTP trigger of
`internal-cron`, hence `Cleaners`.

Abstracted: e-mails (one of them may throw, which only ends the handler),
the affiliate code (a registration is `referred`, with a discounted total, or
not), percentages and decimals (amounts are integers), event data. `credited` is a
ghost that counts money pushed to a history. `paymentStatus` is `paid` exactly
when `isFullyPaid` is set and is not kept apart.

### GlobalSync

One resource (an event or a meeting) with its messages, numbered by the version
they carry. `ready` is the durable queue, `unacked[t]` the message delivered under
tag `t` of the current channel. `setupQueue` sets no prefetch and its callback is
not awaited, so a delivery `<<channel, tag>>` names a handler that runs beside all
others; `hpc` is its await, `work` its message. `FindForCreate`, `Insert`,
`FindForUpdate`, `Write`, `FindToCancel`, `SaveCancelled` and `Delete` are the awaits of
the four service methods, which fall back on one another as in the code (an
update of an unknown resource creates it, a creation of a known one updates it).
`doc` is a bag of documents with the same `globalId`, named by the handler that
inserted them, because nothing makes the `globalId` unique; `findOne`,
`findOneAndUpdate` and `deleteOne` take any of them.

`refused` are messages whose content the validators of the schema refuse: a meeting
without a join URL (`roomUrl` is required, `meeting.schema.ts:17`, and
`createMeetingFromGlobal` fills in `zoomJoinUrl` or `''`), or one of less than fifteen
minutes. `Insert` is a `save()` and throws for them. `Write` is a `findOneAndUpdate`,
which runs no validators and may store them, and `SaveCancelled` validates what was
loaded and may throw on what an update has stored. A handler that throws is reported as
`failed` and its message is acknowledged like any other.

`Ack` is the report to the Global API and the acknowledgement. It goes to
`this.channel` as it is when the handler ends. On a closed channel the call throws and
the exception goes unhandled, which `main.ts` only logs; on a newer channel the tag
names another message or none, and the broker answers a tag it does not know by
closing the channel. Whether the process survives that is a property of
amqplib, which is not part of the repository, so both outcomes are allowed.
`handled`, `overlapped` and `orphaned` are ghosts. The lookup of a meeting's host is a
read between two steps that are apart already, and is left out. The publisher is
assumed to create first, not to update after a cancellation, and to delete last.

### Subscriptions

`subs` is the array `subscriptions` of one User document, in order, because updates
use the positional operator and pushes may add an element twice; an element has the
id of its Stripe subscription (or the course it stands for), the end of its period,
its expiry and its status. `active` is `activeSubscriptions`. `tx`, `sales` and
`renewed` are the transactions and the renewal records of the history.
`proc` holds, for each handler and for the two job loops, its await (`pc`), its
event or request (`job`), the array it read (`copy`) and the records it still has
to see (`todo`). Writers differ in how they write, and the model keeps the
difference: `Extend` and `SetFirst` are positional updates, `PushIfAbsent` is a
guarded push, `PushUnguarded` a push without the guard, `Overwrite` the write-back of
a whole copy, which records in the ghost `clobbered` whatever had changed since the
copy was read. Three more ghosts name what the properties except: `ended`
(a deletion or a cancellation wrote an end of access), `guessed` (the daily job made a
date up) and `echoed`. `Ensure` adds to `active` what it missed there when the handler began,
whatever happened to the array since; `echoed` records what was gone by then.
`Selected` is `Array.filter`, written by the ranks of the positions.

`WriteUpdated` sets the element of its subscription and pushes another one
(`SetAndAdd`). In `stripe.service.ts:2722-2755` the map replaces a hydrated subdocument
by `{...sub, ...}`, whose own properties are mongoose's internals and not the fields,
so the test `subscriptionExists` never sees the id of an element just set, and as the
plan is in the metadata of every subscription (`stripe.service.ts:993-1002`) the push
follows. Mongoose is taken to restore the id of the spread element from the `_doc` it
carries. The write-back of the hourly and daily jobs (`forceUpdateSubscription`) copies
the elements field by field and adds only what is absent (`SetOrAdd`).

The daily job takes the end of a period from `nextBillingDate` of a transaction, or a
week from now (`subscription-sync.cron.ts:117`). A renewal's transaction has the end of
its invoice; that of a checkout has no date, or a week from the moment its handler ran
(`stripe.service.ts:1882`). Such a date is `Ends`: any end of a period from the current
clock to two beyond, because a date inside a period may count as its beginning or its
end. Where it is written, `guessed` names the subscription.

`PlanAssumption` says that a plan is sold either as a Stripe subscription or once,
and `Buy` takes a subscription id that was not used before, as Stripe issues them.
`PaidIsHeld` says that the array holds a subscription that Stripe collects once its
payment is handled. How late the end of its period is, it does not say: an older
invoice paid late, or an update handled out of order, sets the end back, because
`Extend` writes whatever end its event has.

`Pay`, `Roll`, `Collect`, `Decline`, `CancelAtStripe` and `GiveUp` are Stripe, which
is external: an event appears in `events`, and `Deliver` takes any of them.
Time is counted in billing periods. `Tick` waits until events are delivered and
handlers idle, and until the look-back windows of the jobs are used up: an event
that is late by a whole billing period is not modelled. The first invoice is taken
to be paid.
Not modelled: changes of plan (`updateSubscription`), the fallback of
`handleRecurringPayment` for a payment that matches no element,
`checkAndFixExpiredSubscriptions` and `SubscriptionSyncService`, which have no
caller, and administrative maintenance.

### EventRegistrations

A registration document is named by the activity that inserts it: a full-price
checkout, a VIP checkout, a free registration or a deposit. `live` are the documents
that exist, `paid` those with a `totalPaid`, `current` is `currentRegistrations` and
`seen` the value each checkout handler read of it. All paths share `Validate` (which
looks for the e-mail), `Insert` and `Notify` (the e-mail inside `create`); a full-price
checkout goes on with `Count`, `Record`, `Reward` and `AddSale`. `Initiate` and
`Replace` are the deposit that deletes what it takes for an abandoned one,
`FindAbandoned` and `DeleteAbandoned` the cleanup. `LoadGuests` and `WriteGuests` are
the purchase of guests for a registration: the write sets `additionalInfo` and
`amountPaid` from the copy loaded. `raced` is a ghost: e-mails for which two
activities had checked before one inserted. `totalPaid` is passed to `create` only
by `handleEventRegistration`; the guests of a registration are bought through its
checkout, so `amountPaid` is counted in purchases. One cleanup runs here (two in
`PartialPayments`). The prices, the free access that a master course grants
(`AppendCourse` of `Subscriptions`), the local-financing path and administrative
edits are not modelled.

### Campaigns

One campaign with its `status`, `analytics.sent` and the e-mails that opted out.
`Recipients` are the entries of the list that the filters select, and `EmailOf` their
e-mails: `recipient.service.ts:176-187` lists every registration of the chosen events
and removes no duplicates, so several entries may have one e-mail, and each is mailed.
Senders are runs of the minute job, which may overlap because nothing waits for the
previous run, and requests to send. `CronFind` and `RequestSend` lead to `Begin`, which
reads the campaign and refuses one that is sent or is not `complete` (no recipients, or
neither content nor template, `campaign.service.ts:304-310`): it throws before any
status is written and outside the `try`. `Mark` writes `sending`, `Read` selects the
entries (`Wanted`, without the opt-outs), then `NextBatch`, `Mail` and `Progress`
until `Finish`. `Fail` is the catch block. The other requests read the status in one
step (`Ask...`) and write in another. `date` is the scheduled date: none, ahead or
passed. `Update` may set any status of the enumeration, any date and none
(`update-campaign.dto.ts:6-10`), and make the campaign complete or not; the ghost
`declared` marks a status that came from an edit. The entries themselves do not change
by edits, and a campaign that becomes incomplete after `Begin` is sent as it was read.
A template is deleted by setting `isActive` to false (`template.service.ts:143-144`)
and is still found by `populate`, so deleting one does not make a campaign incomplete;
creating or editing it without content does. `excused` is a ghost: a sender began while
another was at work, a request overwrote `sent`, or something failed. Copies, test
mails and the counters of opens and clicks are left out.

## 3. Runs

| run | instance | result |
|---|---|---|
| `inbox` | 2 events, of which one's handler may swallow, 2 requests, 2 faults | 20,239 states; all five properties hold |
| `inbox_dismissed` | no fault, no handler that swallows | violated: a retried failure is answered as already processed |
| `overlap` | 1 registration, 1 instalment, 2 callers, amounts 1 and 2 of a price of 3 (2 if referred), minimum 2, 2 cleanups (symmetric), 1 fault | 2.7 million states; all eight properties hold |
| `live` | 2 registrations of one customer, 1 caller, 1 fault, fairness | 110 thousand states; all three properties hold |
| `lost_update` | 1 registration, 1 instalment | violated: `totalPaid` misses a payment |
| `sync` | 3 messages, 2 channels, 1 fault | 2.7 million states; the four invariants hold |
| `sync_live` | 2 messages, 2 channels, 1 fault, 1 rejected call, fairness | 31 thousand states; every message is handled |
| `purchases` | 1 Stripe subscription, 2 courses, 2 handlers (symmetric), midnight job, 1 period, 1 decline, 2 requests, no fault | 1.03 million states; all seven properties hold |
| `renewals` | 1 Stripe subscription, 1 handler, all three jobs, no decline, 1 fault, fairness | 563 thousand states; periods and access are as issued, and what has lapsed is removed |
| `purchase_ended` | 1 Stripe subscription, 1 course | violated: a deletion ends another purchase |
| `registrations` | 2 checkouts, 1 VIP, 1 free, 1 deposit, 2 guests (symmetric), 2 e-mails, capacity 1, 2 at work, 1 fault | 4.06 million states; the five invariants hold |
| `campaigns` | 1 run of the job that recurs, 1 request to send, 1 other request, 2 entries of one e-mail, in 2 batches, 1 fault, fairness | 407 thousand states; all five properties hold |

Why the bounds are enough. The inbox keys everything by event and events do not
interact; two requests make every race on one document, and two faults allow a
fault in the recovery of another. For payments, a lost update needs two handlers
of one registration. `overlap` has four, the webhook's and the endpoint's for a deposit
and for an instalment, with unequal amounts: below the minimum, the last payment, the
exact total, and more than it when a payment is reported twice, with and without
discount. Several instalments asked for at once are left to the theorems. A fault
between a save and the rollback is what would leave an entry without its tracker. The
replacement race needs a second registration of the same customer, which `live` has,
with `LossIsDeletion` beside the liveness properties. One fault per behaviour is enough
for leftovers of a crash, because a crash ends every activity
at once. For the replica, three messages hold a creation with two later ones
of any kind, or a creation, a cancellation and a deletion; the races are between two
handlers. Two channels with one fault give every behaviour of a handler that
outlives its channel, including the acknowledgement of a wrong or unknown tag.
For subscriptions, a stale write needs two writers: `purchases` has two handlers and
the midnight job, of which any two are at work together (`MaxBusy`), and a course for
good and a limited one that a stale copy can lose. One billing period has a renewal,
a lapse and everything between them. `renewals` adds the hourly and the daily job, the
dates they write, and a fault; one run of a job within its look-back suffices for that.
It has no declines, which beside all three jobs are out of TLC's reach; `purchases` has
one, and `EndsWereIssued` is proved for any number.
For registrations, a lost count, a duplicate and a lost guest each need two activities
at work; three would only repeat the same last-writer-wins. A capacity of 1 is full
after one of the two checkouts. For campaigns, two senders make every race on the
status, and two batches let one finish while another is halfway; `Crons` recur, so
one of them gives any number of runs one after the other. Two entries of one e-mail are
a list with a duplicate, with a batch between the two mails; that some entries of a list
opt out and others do not is left to the theorems.
The bounds in guards are `MaxFaults` everywhere; `MaxBusy` in `Subscriptions` and
`EventRegistrations`; `MaxClock`, `MaxDeclines`, `MaxRequests` and `LookBack` in
`Subscriptions`; and `MaxMessages`, `MaxChannels` and
`MaxErrors` in `GlobalSync`; when its channels are used up a lost connection is not
opened again, which is why `Drained` excuses the behaviours that use one more
(`orphaned`) and its run has a channel more than faults.

`CHECK_DEADLOCK FALSE` in all runs but the inbox's: customers may stop paying,
every request is used once, all messages get published and the clock stops, so the
instances come to rest. The inbox never does (an
event may be delivered again) and is checked for deadlock.

Fairness. `WF` of the inbox's steps: a pending database call settles. `SF` of the
delivery of an unanswered event: Stripe retries until it is answered 2xx; strong,
because the model's `Requests` are few and a real server always has room. For the
payments: `WF` of a handler (its webhook is delivered, its awaits settle), of the
passing of two hours, and of each cleanup, which the schedule starts every hour.
Requests are not fair: a request that hangs is bounded by nothing in the code.
Customers owe nothing. `PaidIsRecorded` excuses deletion and faults, because the
code gives up the payment in both cases. For the replica: `WF` of `Connect` (retried
every five seconds), of `Deliver` (the broker), and of each handler's awaits; none of
the publisher or of faults. For subscriptions: `WF` of a handler's awaits, and of
starting and continuing each job, which the schedule does daily and hourly; neither
Stripe nor the user owes anything. For campaigns: `WF` of the clock, of the job's
search, which runs every minute, and of each sender's awaits. `ScheduledIsSettled`
excuses faults, because after a restart a campaign stays in `sending` for ever, and
edits that leave the campaign without content or date, or declare it `sending`. A
scheduled campaign without content stays so for ever without any fault (section 4).

Every property of a passing run has a mutant in `PROJECT.json`: a plausible
change of one definition, written next to the original in the module, under which
the run fails.

## 4. What disagrees with the code's own words

* `stripe.service.ts:1274-1285`: "already processed" is answered for any existing
  document. An event that failed, or that a restart interrupted, is acknowledged
  to Stripe on its next delivery and never handled. (`inbox_dismissed`) The same
  becomes of an event whose handler threw where `:1788-1791` catches and returns: its
  document says `processed`.
* `eventRegistration.schema.ts:111`: `totalPaid` is not the total paid when two
  handlers overlap; the customer is asked for the difference. (`lost_update`)
* `stripe.service.ts:2389-2391`: the element that a deletion ends is picked by a
  predicate that does not look at the element; the first purchase of the array gets
  the end, which `:2398` and `:2402` mean for the cancelled one. (`purchase_ended`)

Seen while modelling, and part of the models, without a run of their own:

* `totalPaid` is not the total either when the webhook and
  `event-partial-payment.controller.ts:267` report the same payment: a completed tracker
  is not refused (`event-partial-payment.service.ts:414`), and the amount is added twice.
* `meeting.schema.ts:143` calls `globalVersion` a number for optimistic concurrency;
  the version is compared before an await and not in the filter of the write
  (`global-sync.service.ts:227`), so an older update can win. `event.schema.ts:15`: the
  version is "for idempotency", but two messages about an unknown resource both insert
  it (`global-sync.service.ts:137`, `:179`). `SequentialReplica`, which is proved, is
  about handlers that do not overlap.
* `stripe.service.ts:2738`, "if not add it": an updated event adds a second element of
  a subscription that the array holds, and another one with each event.
* `stripe.service.ts:1960` calls Stripe's period end authoritative;
  `subscription-sync.cron.ts:117` writes a date of its own.
* `subscription-sync.cron.ts:48`: the hourly job is "to catch any missed webhook
  updates". A failure of an earlier attempt that is handled late turns the succeeded
  transaction into a failed one (`stripe.service.ts:2858`), which the job does not
  look at. So no property says that a renewal on record is granted in the end; it would
  be false.
* `campaign.service.ts:610`, "Process scheduled campaigns": one without content is
  found every minute, refused (`:308-310`), and stays scheduled.
* `event-partial-payment.service.ts:889`: the two hours after which a session "has
  expired" are a date on the registration; Stripe's session has no `expires_at`, and
  the cleanup deletes what can still be paid. `:85-98` and `:888-919` delete by id what
  was unpaid before an await. `LossIsDeletion` says that nothing else loses a payment.
* `stripe.service.ts:2128`: a failed transaction with the same payment intent counts as
  processed, so a retry that succeeds is dismissed. `cron.service.ts:100`: the
  midnight job cancels a subscription that was renewed after it computed its list.
  Both are behaviours of `Subscriptions`; its properties except what was overwritten
  (`clobbered`) and say that nothing else is lost.
* A customer with an earlier registration or an unpaid deposit can pay the full price;
  `validateNotRegistered` then throws in the webhook, and the money has neither
  registration nor transaction. An `initiatePartialPayment` with the same e-mail deletes
  VIP and free registrations as abandoned. A failing confirmation e-mail inside
  `create` leaves a registration without count, transaction or commission. Lost
  counts overbook the event; VIP registrations and deposits are never counted.
* `campaign.service.ts:300`: a campaign that the job has found is mailed although it was
  cancelled before its turn, and one in `sending` can be sent again. `:615`: after a
  restart it stays in `sending` for ever. `:515`: what was opened during the send is
  set back to 0. `recipient.service.ts:176-187`: who is registered for two of the
  chosen events is mailed twice in one send.

## 5. Proofs

Every safety invariant, every action property and the refinement of the passing runs is
stated by a theorem, for every value of the constants. The assumptions are the named
ones of the modules (names do not overlap, bounds are natural numbers, amounts are
natural numbers, prices are integers of any sign, a plan is sold in one way); one
theorem, `OwedIsPayable`, has a hypothesis of its own, given below.

`WebhookInboxProofs`. `TypeOK` and `StatusIsHonest` are not inductive: what a request
standing at an await knows must be added. The invariant says that a document owned by a
request in its critical part (`mark` to `fail`) has one owner only, that its status is
what the owner last wrote, and that `started` is 0 until the owner begins the handler;
a request that is about to write `processed` has a handler that returned (`finished` or
`swallowed`), and without a fault every document on its way has a request at it
(`Attended`).
From it follow at-most-once handling (`HandlerRunsAtMostOnce`, which the refinement
includes), honest statuses, that closed documents stay closed (their owner is gone and
`Create` needs an absent one), and the refinement: every step maps to a begin, a finish,
a cut or a stutter of `AtMostOnce`.

`PartialPaymentsProofs`. `IInv` is `TypeOK`, `AmountsAreNatural`, `Wiring` (a handler
runs only for an offered, paid payment of a saved registration) and `Books`: the copy in
a handler's hand claims no more than the registration's credited money, and a copy
marked fully paid is backed by it. With it, last-writer-wins saves keep
`TotalsNeverOverstate` and `PaidInFullMeansPaid`, because whichever copy wins was itself
no overstatement, and `credited` never decreases. `CommissionNeedsFullPayment` follows
because a commission is decided on such a copy. `FullyPaidIsFinal` needs nothing about
other handlers: a save writes the mark only if it changed it, and never from true to
false.

`PartialPaymentsLossProofs`. Without faults a handler gives up only over something that
is gone, which is proved from three facts beside `IInv`: an initiate that replaces a
registration deletes it before it looks for its trackers (`Replacing`); the tracker of a
payment that a customer can make exists, or its registration is deleted or on the list
of a cleanup that will delete it next (`Tracked`); and what is gone stays gone, because
a saved registration is never saved anew. `UnpaidCanBePaid` is proved for positive
prices (`Price > 0`, `DiscountedPrice > 0`, the hypotheses of the theorem): a handler's
copy is marked fully paid only if the registration is (`CopiesAreMarked`), so whatever a
late save writes, a registration without the mark has something left to pay
(`RestIsPositive`), and `makePayment` accepts exactly that. `LedgerIsReal` is proved
for any number of callers of `processSuccessfulPayment` (`LedgerIsTrue`); that a
payment has one entry it does not say, because with two callers it is false
(section 4). The invariant `Ledger` says that an entry is of a handler past its
save (`EntriesAreMade`), that its tracker was completed before it was pushed
(`CompletedBefore`) and stays so, because the cleanup and the requests delete pending
trackers only, and that a history adds up to what was credited (`AddsUp`).

`GlobalSyncProofs`. `Stages` ties each await to the kind of the message. `TagsAreOwned`
says that the running handlers of the current channel hold different tags below
`nextTag`, that a closed connection has none, and that, unless a channel was opened over
a running handler, the tag a handler will acknowledge still names its own message; from
it `NothingLost` follows for the one step that matters, `Ack`. `FoundStays` says that,
until a deletion is published, a document a handler has found is still there when it
writes; it gives `FailureIsDeletion` (beside refused content, a null result or a
vanished document is the only way to fail) and, with the `synced` case,
`HandledIsKnown`. All three rest on lemma `NothingIsUndone`. The next message is the
least of a set (`Min`), which exists because the natural numbers are well-founded.
`SequentialReplica` follows the order of publication (`InOrder`): while no two handlers
have overlapped and no call was rejected, there is a message up to which everything has
been delivered, what is stored is what the messages up to it leave, refused ones aside
(`Frontier`), and a handler at work holds the next one, or one that is delivered again
after a lost connection, and has found what is stored (`Turn`).

`SubscriptionsProofs` has four parts. (1) `PaymentLeavesTrace`: the invariant `IInv`
follows a collected invoice. While it is not lost to a fault, its event waits, or a
handler carries it, or it has a transaction (`Accounted`); a handler that carries it
stands at an await of `handleRecurringPayment`, and behind the insert the transaction is
there (`Carriers`). (2) `TypeOK` and `EndsWereIssued` are not inductive, since a period
may reach the array from an event, from the copy of a job or from what a job has left to
do. `Sound` therefore says of all these what `EndsWereIssued` says of the array, for the
period and for the access (`expires`) alike; a subscription in `guessed` is excepted in
both, one in `ended` in the access. That the period needs no exception for deletions is
a part of what is proved. (3) The array. `Fates` is what any step may do to the elements
of a key that no write overwrote: they are kept or removed because they are over, the
subscription is written again, or the course is bought. For this a process that revokes
must have seen what it revokes (`Revoking`), two checkouts must not be for one
subscription (`Checkouts`), and a course that was bought for good must be written
without an end (`Lasting`). With these `Held` is inductive, and `ActiveIsHeld`,
`PurchaseKept` and `DropsOnlyLapsed` follow. That an element is there once is not among
them: updated events add more of them (section 4). (4) `PaidIsHeld`: a payment waits or
has one handler (`Once`), and a subscription that Stripe collects is in the array, or
its first payment is still on the way (`Reached`): its period is the current one,
nothing else of it was invoiced, and no failed attempt can stand for its transaction
(`First`). The period cannot end meanwhile, because time waits for handlers; this is a
bound of the model, named in section 2.

`EventRegistrationsProofs`. `IInv` has five parts beside `TypeOK`. `Seating`: a document
of a checkout carries money from its insert, so neither the cleanup nor a deposit has it
on its list. `Counting`: the counter, and each copy of it, counts no more documents than
there are others, so that a lost update can only lower it; with it "full" is never said
too early. `Finding`: who has checked an e-mail knows what is there, unless another had
checked as well. `Entries`: the copy of a guests handler is a pair that was once in the
document, so writing it back keeps both halves equal. `Selling`: without a fault the
statistics lack only the commissions being added.

`CampaignsProofs`. As long as nothing excuses a second mail, one sender is at work
(`Alone`), it owes mails only to recipients without one (`Fresh`), and when nobody is at
work what has been sent is marked so (`Closed`); from these `Once` is kept by every
step: no entry gets two mails, so the mails to an e-mail are at most its entries (lemma
`SumAtMost`). `SentIsComplete` needs nothing of this: whoever finishes has tried every
entry it read (`Covered`), and the others have opted out. For `SentCountIsExact`, a sender
begins to count at 0 (`FromZero`), and while nothing has interfered the count of the one
that is mailing is the number of all mails sent (`Exact`).

`SumsAndSelections`. The sums of `LedgerIsReal`, `SecondMailHasACause` and
`SentCountIsExact` are the folds of the community modules, recursive functions over
sets. That such a function exists, that the order of summation does not matter, and how
a sum changes with an element, is proved from a least counterexample instead of by
induction, because the induction theorems of the library take a predicate as a
parameter, which the provers cannot instantiate. For `Selected` it is shown that the
ranks of the selected positions count them, so that each selected element is there once,
in order.

Only model-checked: liveness, which is out of the prover's reach (`RetriesEnd`,
`PaidIsRecorded`, `AbandonedIsCleaned`, `Drained`, `LapsedIsRemoved`,
`ScheduledIsSettled`). The properties of the three runs that
expect a violation are refuted, hence not proved.

## 6. What is left

1. `RegistrationSync`: the registrations queue beside the events queue of `GlobalSync`
   (an event may arrive after its registrations), and an abstract replica that takes
   the published versions in order, which `GlobalSync` implements when handlers do
   not overlap.
2. The administrative endpoints of partial payments: recalculation and clearing.
3. Changes of plan in `Subscriptions`, and the single-use meeting tokens.

Not modelled: third-party I/O (S3, ffmpeg, LiveKit, VideoSDK, OpenAI, e-mail), CRUD
modules, seeds, migrations and scripts have no protocol of their own. The handlers of
local financing and the queue of the market rate limiter have no caller.
