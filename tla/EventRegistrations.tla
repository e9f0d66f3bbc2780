------------------------- MODULE EventRegistrations -------------------------
(***************************************************************************)
(* The seats of one event, from every path that makes a registration: a    *)
(* full-price or a VIP checkout confirmed by its webhook, a free           *)
(* registration over HTTP, and a deposit (whose payments are the subject   *)
(* of PartialPayments).  Beside them: guests bought for a registration     *)
(* later, the commission of an affiliate, and the cleanup of deposits.     *)
(*                                                                         *)
(* A registration document is named by the activity that inserts it.  All  *)
(* paths look for a document with the same e-mail and insert one after     *)
(* further awaits; the collection has no unique index.  The event is a     *)
(* community event: a master course also pushes an element to the user's   *)
(* subscriptions, as AppendCourse of Subscriptions does.                   *)
(***************************************************************************)
EXTENDS Naturals, FiniteSets

CONSTANTS
    Checkouts,  \* full-price checkouts (handleEventRegistration)
    Vips,       \* VIP checkouts
    Frees,      \* registrations posted without a payment
    Deposits,   \* initiatePartialPayment
    Guests,     \* purchases of additional attendees
    Hosts,      \* registrations that guests are bought for (a bound)
    Emails, EmailOf,  \* the e-mail of each registration
    Capacity,   \* event.capacity, 0 when there is no limit
    MaxBusy,    \* bound on the handlers and requests under way together
    MaxFaults   \* bound on crashes and rejected calls together

Seats == Checkouts \cup Vips \cup Frees \cup Deposits
NoSeat == "no seat"

ASSUME NamesAssumption ==
    /\ IsFiniteSet(Checkouts)
    /\ Checkouts \cap (Vips \cup Frees \cup Deposits) = {}
    /\ Vips \cap (Frees \cup Deposits) = {} /\ Frees \cap Deposits = {}
    /\ Guests \cap Seats = {}
    /\ NoSeat \notin Seats
    /\ Hosts \subseteq Seats
    /\ EmailOf \in [Seats -> Emails]
ASSUME BoundsAssumption == Capacity \in Nat /\ MaxFaults \in Nat

VARIABLES
    current,      \* event.currentRegistrations
    live,         \* the EventRegistration documents that exist
    paid,         \* those with a totalPaid above zero
    pc,           \* the await at which each activity stands
    seen,         \* the counter each checkout handler read
    target,       \* the registration a deposit replaces or guests are for
    guests,       \* purchases entered in the additionalInfo of each document
    amountPaid,   \* how many of them amountPaid of each document includes
    copy,         \* guests and amountPaid as a guests handler read them
    doomed,       \* the deposits the cleanup has found
    transactions, \* checkouts with an EVENT_PAYMENT transaction
    commissions,  \* checkouts with a commission document
    sales,        \* totalSales of the affiliate
    faults,
    raced         \* ghost: e-mails with two checks before one insert

ledgers == <<guests, amountPaid, copy, transactions, commissions, sales>>
vars == <<current, live, paid, pc, seen, target, ledgers, doomed, faults, raced>>

PCs == {"idle", "full", "offered", "validate", "insert", "notify", "count",
        "record", "reward", "stats", "replace", "write", "done", "refused", "failed"}

TypeOK ==
    /\ current \in Nat
    /\ live \subseteq Seats
    /\ paid \subseteq Seats
    /\ pc \in [Seats \cup Guests -> PCs]
    /\ seen \in [Checkouts -> Nat]
    /\ target \in [Deposits \cup Guests -> Seats \cup {NoSeat}]
    /\ guests \in [Seats -> SUBSET Guests]
    /\ amountPaid \in [Seats -> Nat]
    /\ copy \in [Guests -> [guests : SUBSET Guests, amountPaid : Nat]]
    /\ doomed \subseteq Deposits
    /\ transactions \subseteq Checkouts
    /\ commissions \subseteq Checkouts
    /\ sales \in Nat
    /\ faults \in Nat
    /\ raced \subseteq Emails

Init ==
    /\ current = 0
    /\ live = {}
    /\ paid = {}
    /\ pc = [a \in Seats \cup Guests |-> "idle"]
    /\ seen = [c \in Checkouts |-> 0]
    /\ target = [a \in Deposits \cup Guests |-> NoSeat]
    /\ guests = [r \in Seats |-> {}]
    /\ amountPaid = [r \in Seats |-> 0]
    /\ copy = [g \in Guests |-> [guests |-> {}, amountPaid |-> 0]]
    /\ doomed = {}
    /\ transactions = {}
    /\ commissions = {}
    /\ sales = 0
    /\ faults = 0
    /\ raced = {}

-----------------------------------------------------------------------------
Goto(a, l) == pc' = [pc EXCEPT ![a] = l]
Registered(e) == {r \in live : EmailOf[r] = e}

\* Checked for an earlier registration, and not inserted yet.
Checked(e) == {a \in Seats : pc[a] \in {"insert", "replace"} /\ EmailOf[a] = e}

Working == {"validate", "insert", "notify", "count", "record", "reward", "stats",
            "replace", "write"}

\* An activity gets to work, or ends in its first step.
Begin(a, l) ==
    /\ Cardinality({b \in Seats \cup Guests : pc[b] \in Working}) < MaxBusy
    /\ Goto(a, l)

Fault == faults < MaxFaults /\ faults' = faults + 1

-----------------------------------------------------------------------------
\* Checkouts.

\* createEventCheckoutSession compares the counter with the capacity; neither
\* the webhook nor a deposit does.
RequestCheckout(c) ==
    /\ pc[c] = "idle"
    /\ Goto(c, IF Capacity > 0 /\ current >= Capacity THEN "full" ELSE "offered")
    /\ UNCHANGED <<current, live, paid, seen, target, ledgers, doomed, faults, raced>>

RequestVip(v) ==
    /\ pc[v] = "idle"
    /\ Goto(v, "offered")
    /\ UNCHANGED <<current, live, paid, seen, target, ledgers, doomed, faults, raced>>

\* Mutant: a payment is counted as soon as it arrives.
BeginCheckoutCounted(c) ==
    /\ pc[c] = "offered"
    /\ seen' = [seen EXCEPT ![c] = current]
    /\ current' = current + 1
    /\ Begin(c, "validate")
    /\ UNCHANGED <<live, paid, target, ledgers, doomed, faults, raced>>

\* A session was paid and its event delivered: handleEventRegistration loads
\* the event, the counter included.
BeginCheckout(c) ==
    /\ pc[c] = "offered"
    /\ seen' = [seen EXCEPT ![c] = current]
    /\ Begin(c, "validate")
    /\ UNCHANGED <<current, live, paid, target, ledgers, doomed, faults, raced>>

BeginVip(v) ==
    /\ pc[v] = "offered"
    /\ Begin(v, "validate")
    /\ UNCHANGED <<current, live, paid, seen, target, ledgers, doomed, faults, raced>>

\* The controller checks once before the service does.
RequestFree(f) ==
    /\ pc[f] = "idle"
    /\ Begin(f, IF Registered(EmailOf[f]) = {} THEN "validate" ELSE "refused")
    /\ UNCHANGED <<current, live, paid, seen, target, ledgers, doomed, faults, raced>>

\* Mutant: a registration nobody has paid for is no obstacle.
ValidatePaid(a) ==
    /\ pc[a] = "validate"
    /\ Goto(a, IF Registered(EmailOf[a]) \cap paid = {} THEN "insert" ELSE "refused")
    /\ UNCHANGED <<current, live, paid, seen, target, ledgers, doomed, faults, raced>>

\* validateNotRegistered.  A payment that is refused here is not written down.
Validate(a) ==
    /\ pc[a] = "validate"
    /\ Goto(a, IF Registered(EmailOf[a]) = {} THEN "insert" ELSE "refused")
    /\ UNCHANGED <<current, live, paid, seen, target, ledgers, doomed, faults, raced>>

\* The other activities that have checked for the same e-mail.
Races(a) == raced' = raced \cup {e \in {EmailOf[a]} : Checked(e) # {a}}

\* Mutant: a full payment is written to amountPaid only.
InsertUntotalled(a) ==
    /\ pc[a] = "insert" /\ a \notin Deposits
    /\ live' = live \cup {a}
    /\ Races(a)
    /\ Goto(a, "notify")
    /\ UNCHANGED <<current, paid, seen, target, ledgers, doomed, faults>>

\* Only handleEventRegistration passes totalPaid.
Insert(a) ==
    /\ pc[a] = "insert" /\ a \notin Deposits
    /\ live' = live \cup {a}
    /\ paid' = IF a \in Checkouts THEN paid \cup {a} ELSE paid
    /\ Races(a)
    /\ Goto(a, "notify")
    /\ UNCHANGED <<current, seen, target, ledgers, doomed, faults>>

\* The confirmation by e-mail, which only a checkout has further steps after.
Notify(a) ==
    /\ pc[a] = "notify"
    /\ Goto(a, IF a \in Checkouts THEN "count" ELSE "done")
    /\ UNCHANGED <<current, live, paid, seen, target, ledgers, doomed, faults, raced>>

\* event.save() writes the counter that was loaded, plus one.
Count(c) ==
    /\ pc[c] = "count"
    /\ current' = seen[c] + 1
    /\ Goto(c, "record")
    /\ UNCHANGED <<live, paid, seen, target, ledgers, doomed, faults, raced>>

\* The transaction; with an affiliate code in the session, a commission follows.
Record(c) ==
    /\ pc[c] = "record"
    /\ transactions' = transactions \cup {c}
    /\ Goto(c, "reward") \/ Goto(c, "done")
    /\ UNCHANGED <<current, live, paid, seen, target, guests, amountPaid, copy,
                   commissions, sales, doomed, faults, raced>>

\* createCommission: the document, then the statistics.
Reward(c) ==
    /\ pc[c] = "reward"
    /\ commissions' = commissions \cup {c}
    /\ Goto(c, "stats")
    /\ UNCHANGED <<current, live, paid, seen, target, guests, amountPaid, copy,
                   transactions, sales, doomed, faults, raced>>

AddSale(c) ==
    /\ pc[c] = "stats"
    /\ sales' = sales + 1
    /\ Goto(c, "done")
    /\ UNCHANGED <<current, live, paid, seen, target, guests, amountPaid, copy,
                   transactions, commissions, doomed, faults, raced>>

-----------------------------------------------------------------------------
\* Deposits, as far as they concern the others.

\* initiatePartialPayment: a document without payments is taken for an
\* abandoned checkout, whoever made it.
Initiate(d) ==
    /\ pc[d] = "idle"
    /\ LET mine == Registered(EmailOf[d])
       IN  \/ mine = {} /\ Begin(d, "insert") /\ UNCHANGED target
           \/ \E r \in mine :
                 IF r \in paid
                 THEN Goto(d, "refused") /\ UNCHANGED target
                 ELSE Begin(d, "replace") /\ target' = [target EXCEPT ![d] = r]
    /\ UNCHANGED <<current, live, paid, seen, ledgers, doomed, faults, raced>>

Replace(d) ==
    /\ pc[d] = "replace"
    /\ live' = live \ {target[d]}
    /\ Goto(d, "insert")
    /\ UNCHANGED <<current, paid, seen, target, ledgers, doomed, faults, raced>>

InsertDeposit(d) ==
    /\ pc[d] = "insert"
    /\ live' = live \cup {d}
    /\ Races(d)
    /\ Goto(d, "offered")
    /\ UNCHANGED <<current, paid, seen, target, ledgers, doomed, faults>>

\* processSuccessfulPayment in one step; without a document it is lost.
RecordDeposit(d) ==
    /\ pc[d] = "offered"
    /\ paid' = paid \cup ({d} \cap live)
    /\ Goto(d, IF d \in live THEN "done" ELSE "failed")
    /\ UNCHANGED <<current, live, seen, target, ledgers, doomed, faults, raced>>

\* Mutant: the filter on checkoutSessionExpiresAt is dropped.
FindUnpaid ==
    /\ doomed = {}
    /\ doomed' \in SUBSET (live \ paid) \ {{}}
    /\ UNCHANGED <<current, live, paid, pc, seen, target, ledgers, faults, raced>>

\* cleanupAbandonedCheckouts: unpaid deposits whose two hours are over.
FindAbandoned ==
    /\ doomed = {}
    /\ doomed' \in SUBSET ((live \cap Deposits) \ paid) \ {{}}
    /\ UNCHANGED <<current, live, paid, pc, seen, target, ledgers, faults, raced>>

DeleteAbandoned ==
    /\ doomed # {}
    /\ live' = live \ doomed
    /\ doomed' = {}
    /\ UNCHANGED <<current, paid, pc, seen, target, ledgers, faults, raced>>

-----------------------------------------------------------------------------
\* Guests.

\* createAdditionalAttendeesCheckout, for a registration that exists.
RequestGuests(g, r) ==
    /\ pc[g] = "idle"
    /\ r \in live
    /\ target' = [target EXCEPT ![g] = r]
    /\ Goto(g, "offered")
    /\ UNCHANGED <<current, live, paid, seen, ledgers, doomed, faults, raced>>

\* updateRegistrationAttendees reads the document and throws without one ...
LoadGuests(g) ==
    /\ pc[g] = "offered"
    /\ IF target[g] \in live
       THEN /\ copy' = [copy EXCEPT ![g] = [guests |-> guests[target[g]],
                                           amountPaid |-> amountPaid[target[g]]]]
            /\ Begin(g, "write")
       ELSE Goto(g, "failed") /\ UNCHANGED copy
    /\ UNCHANGED <<current, live, paid, seen, target, guests, amountPaid,
                   transactions, commissions, sales, doomed, faults, raced>>

\* Mutant: the amount is incremented in place.
WriteGuestsInc(g) ==
    /\ pc[g] = "write"
    /\ IF target[g] \in live
       THEN /\ guests' = [guests EXCEPT ![target[g]] = copy[g].guests \cup {g}]
            /\ amountPaid' = [amountPaid EXCEPT ![target[g]] = @ + 1]
       ELSE UNCHANGED <<guests, amountPaid>>
    /\ Goto(g, "done")
    /\ UNCHANGED <<current, live, paid, seen, target, copy,
                   transactions, commissions, sales, doomed, faults, raced>>

\* ... and writes both fields from what it read, to no effect if the document
\* is gone.
WriteGuests(g) ==
    /\ pc[g] = "write"
    /\ IF target[g] \in live
       THEN /\ guests' = [guests EXCEPT ![target[g]] = copy[g].guests \cup {g}]
            /\ amountPaid' = [amountPaid EXCEPT ![target[g]] = copy[g].amountPaid + 1]
       ELSE UNCHANGED <<guests, amountPaid>>
    /\ Goto(g, "done")
    /\ UNCHANGED <<current, live, paid, seen, target, copy,
                   transactions, commissions, sales, doomed, faults, raced>>

-----------------------------------------------------------------------------
\* Faults.

\* A rejected call ends an activity; only that of createCommission is caught.
CallRejected(a) ==
    /\ pc[a] \in Working
    /\ Fault
    /\ Goto(a, IF pc[a] \in {"reward", "stats"} THEN "done" ELSE "failed")
    /\ UNCHANGED <<current, live, paid, seen, target, ledgers, doomed, raced>>

CleanupFails ==
    /\ doomed # {}
    /\ Fault
    /\ doomed' = {}
    /\ UNCHANGED <<current, live, paid, pc, seen, target, ledgers, raced>>

\* The process restarts; no handler begins again (WebhookInbox).
Crash ==
    /\ Fault
    /\ pc' = [a \in Seats \cup Guests |-> IF pc[a] \in Working THEN "failed" ELSE pc[a]]
    /\ doomed' = {}
    /\ UNCHANGED <<current, live, paid, seen, target, ledgers, raced>>

-----------------------------------------------------------------------------
Next ==
    \/ \E c \in Checkouts :
          \/ RequestCheckout(c) \/ BeginCheckout(c)
          \/ Count(c) \/ Record(c) \/ Reward(c) \/ AddSale(c)
    \/ \E v \in Vips : RequestVip(v) \/ BeginVip(v)
    \/ \E f \in Frees : RequestFree(f)
    \/ \E a \in Seats : Validate(a) \/ Insert(a) \/ Notify(a)
    \/ \E d \in Deposits : Initiate(d) \/ Replace(d) \/ InsertDeposit(d) \/ RecordDeposit(d)
    \/ FindAbandoned \/ DeleteAbandoned
    \/ \E g \in Guests :
          \/ LoadGuests(g) \/ WriteGuests(g)
          \/ \E r \in Hosts : RequestGuests(g, r)
    \/ \E a \in Seats \cup Guests : CallRejected(a)
    \/ CleanupFails \/ Crash

Spec == Init /\ [][Next]_vars

-----------------------------------------------------------------------------
\* Nobody is told that the event is full while fewer than its capacity have
\* bought a place: overlapping handlers lose counts of the shared counter, and
\* never add any.
RefusedOnlyWhenFull ==
    \A c \in Checkouts : pc[c] = "full" => Cardinality(live \cap Checkouts) >= Capacity

\* One e-mail holds two registrations only if two paths had both looked for
\* one before either inserted it.
NoDuplicateUnlessRaced ==
    \A e \in Emails \ raced : \A r, s \in Registered(e) : r = s

\* The registration of a full-price checkout is never deleted, neither as an
\* abandoned deposit of the same e-mail nor by the cleanup, and a handler that
\* went through has recorded the transaction.
PaidIsSeated ==
    /\ \A c \in Checkouts :
          pc[c] \in {"notify", "count", "record", "reward", "stats", "done"} => c \in live
    /\ \A c \in Checkouts : pc[c] \in {"reward", "stats", "done"} => c \in transactions

\* The two halves of a ledger agree whatever overlaps: amountPaid of a
\* registration includes exactly the guests entered with it, and the affiliate
\* has one sale for each commission, but for those being added.
LedgersAgree ==
    /\ \A r \in Seats : amountPaid[r] = Cardinality(guests[r])
    /\ faults = 0 =>
          sales = Cardinality({c \in commissions : pc[c] # "stats"})
=============================================================================
