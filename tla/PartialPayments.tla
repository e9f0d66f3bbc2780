--------------------------- MODULE PartialPayments ---------------------------
(***************************************************************************)
(* Event registrations paid in instalments: EventPartialPaymentService,    *)
(* the branch of StripeService.handleCheckoutCompleted that calls it, and  *)
(* the hourly cleanup that deletes abandoned checkouts.                    *)
(*                                                                         *)
(* Three kinds of activity interleave at every await on the database or on *)
(* Stripe: the requests initiatePartialPayment and makePayment, the        *)
(* webhook handler processSuccessfulPayment, and cleanupAbandonedCheckouts.*)
(* All run in one Node process, so one crash ends them all.                *)
(*                                                                         *)
(* A payment is named by the request that asked for it: the deposit of a   *)
(* registration by the registration itself, a later payment by a member of *)
(* Installments.  paymentStatus is 'paid' exactly when isFullyPaid is set  *)
(* (the code assigns them together) and is not kept apart.                 *)
(***************************************************************************)
EXTENDS Integers, FiniteSetsExt

CONSTANTS
    Registrations,   \* registration documents, one per initiatePartialPayment
    Installments,    \* payments asked for through makePayment
    Customers, CustomerOf,  \* the e-mail each registration is for
    Sources,         \* calls of processSuccessfulPayment per payment: "webhook",
                     \* at most once by AtMostOnce, and the calls of the
                     \* endpoint webhook/payment-success
    Cleaners,        \* what starts the cleanup: the @Cron schedule, an HTTP trigger
    Amounts,         \* amounts a customer may ask to pay
    Price,           \* event.price
    DiscountedPrice, \* the price after an affiliate discount
    MinDeposit,      \* calculateMinimumDeposit(event)
    MinInstallment,  \* event.minimumInstallmentAmount || 50
    NoRegistration,
    MaxFaults        \* bound on crashes and failed handler or cron calls

ASSUME NamesAssumption ==
    /\ Registrations \cap Installments = {}
    /\ NoRegistration \notin Registrations
    /\ CustomerOf \in [Registrations -> Customers]
ASSUME AmountsAssumption == Amounts \subseteq Nat
ASSUME PricesAssumption ==
    Price \in Int /\ DiscountedPrice \in Int /\ MinDeposit \in Int /\ MinInstallment \in Int
ASSUME FaultsAssumption == MaxFaults \in Nat

Payments == Registrations \cup Installments
Handlers == Payments \X Sources   \* calls of processSuccessfulPayment

VARIABLES
    reg,         \* the EventRegistration documents
    stale,       \* registrations whose checkoutSessionExpiresAt has passed
    history,     \* entries of each paymentHistory, by the call that pushed them
    tracker,     \* status of the EventPaymentTracker of each payment
    session,     \* the Stripe checkout session of each payment
    pc,          \* the await at which the request for each payment stands
    amount,      \* the amount of each payment
    target,      \* the registration a request works on: the one an initiate
                 \* replaces, the one an instalment pays for
    hpc, doc,    \* await of each handler call, and its copy of the registration
    cpc, doomed, \* await of each cleanup, and the registrations it found
    commissions, \* affiliate commissions created for each registration
    credited,    \* ghost: money pushed to each paymentHistory
    faults

requestVars == <<pc, amount, target>>
handlerVars == <<hpc, doc>>
cleanupVars == <<cpc, doomed>>
vars == <<reg, stale, history, tracker, session, requestVars, handlerVars,
          cleanupVars, commissions, credited, faults>>

Totals == [totalPaid : Int, remainingBalance : Int, isFullyPaid : BOOLEAN]
Registration ==
    [live : BOOLEAN, totalAmount : Int, referred : BOOLEAN,
     totalPaid : Int, remainingBalance : Int, isFullyPaid : BOOLEAN]

RequestPCs == {"idle", "replace", "purge", "save", "charge", "link", "track",
               "plan", "rollback", "offered", "over"}
HandlerPCs == {"idle", "lookup", "complete", "load", "apply", "confirm",
               "done", "lost", "dead"}
CleanupPCs == {"idle", "trackers", "registrations"}

TypeOK ==
    /\ reg \in [Registrations -> Registration]
    /\ stale \subseteq Registrations
    /\ history \in [Registrations -> SUBSET Handlers]
    /\ tracker \in [Payments -> {"absent", "pending", "completed"}]
    /\ session \in [Payments -> {"none", "open", "paid", "expired"}]
    /\ pc \in [Payments -> RequestPCs]
    /\ amount \in [Payments -> Int]
    /\ target \in [Payments -> Registrations \cup {NoRegistration}]
    /\ hpc \in [Handlers -> HandlerPCs]
    /\ doc \in [Handlers -> Totals]
    /\ cpc \in [Cleaners -> CleanupPCs]
    /\ doomed \in [Cleaners -> SUBSET Registrations]
    /\ commissions \in [Registrations -> Nat]
    /\ credited \in [Registrations -> Int]
    /\ faults \in Nat
    /\ \A p \in Installments : pc[p] # "idle" => target[p] \in Registrations

NoTotals == [totalPaid |-> 0, remainingBalance |-> 0, isFullyPaid |-> FALSE]
NoDocument ==
    [live |-> FALSE, totalAmount |-> 0, referred |-> FALSE,
     totalPaid |-> 0, remainingBalance |-> 0, isFullyPaid |-> FALSE]

Init ==
    /\ reg = [r \in Registrations |-> NoDocument]
    /\ stale = {}
    /\ history = [r \in Registrations |-> {}]
    /\ tracker = [p \in Payments |-> "absent"]
    /\ session = [p \in Payments |-> "none"]
    /\ pc = [p \in Payments |-> "idle"]
    /\ amount = [p \in Payments |-> 0]
    /\ target = [p \in Payments |-> NoRegistration]
    /\ hpc = [h \in Handlers |-> "idle"]
    /\ doc = [h \in Handlers |-> NoTotals]
    /\ cpc = [c \in Cleaners |-> "idle"]
    /\ doomed = [c \in Cleaners |-> {}]
    /\ commissions = [r \in Registrations |-> 0]
    /\ credited = [r \in Registrations |-> 0]
    /\ faults = 0

-----------------------------------------------------------------------------
\* The registrationId a payment's tracker carries.
RegistrationOf(p) == IF p \in Registrations THEN p ELSE target[p]

Live(r) == r \in Registrations /\ reg[r].live

TotalsOf(r) ==
    [totalPaid |-> reg[r].totalPaid, remainingBalance |-> reg[r].remainingBalance,
     isFullyPaid |-> reg[r].isFullyPaid]

\* Mutant: the save replaces the whole document.
SavedWhole(r, loaded, t) ==
    [reg[r] EXCEPT !.totalPaid = t.totalPaid, !.remainingBalance = t.remainingBalance,
                   !.isFullyPaid = t.isFullyPaid]

\* A mongoose save() writes the fields that differ from the loaded copy and no
\* others.
SavedOver(r, loaded, t) ==
    [reg[r] EXCEPT
        !.totalPaid = IF t.totalPaid = loaded.totalPaid THEN @ ELSE t.totalPaid,
        !.remainingBalance =
            IF t.remainingBalance = loaded.remainingBalance THEN @ ELSE t.remainingBalance,
        !.isFullyPaid = IF t.isFullyPaid = loaded.isFullyPaid THEN @ ELSE t.isFullyPaid]

Goto(p, l) == pc' = [pc EXCEPT ![p] = l]
HandlerGoto(h, l) == hpc' = [hpc EXCEPT ![h] = l]

\* The call ends, and its copy of the registration with it.
Drop(h, l) == HandlerGoto(h, l) /\ doc' = [doc EXCEPT ![h] = NoTotals]

Delete(S) == reg' = [r \in Registrations |->
                        IF r \in S THEN [reg[r] EXCEPT !.live = FALSE] ELSE reg[r]]

\* Mutant: the filter on the status is dropped.
DeleteTrackers(S) ==
    tracker' = [p \in Payments |-> IF RegistrationOf(p) \in S THEN "absent" ELSE tracker[p]]

\* Mutant: the trackers are found by the customer and not by the registration.
DeleteCustomersTrackers(S) ==
    tracker' = [p \in Payments |->
                   IF /\ tracker[p] = "pending"
                      /\ \E r \in S : CustomerOf[RegistrationOf(p)] = CustomerOf[r]
                   THEN "absent" ELSE tracker[p]]

\* deleteMany({ registrationId: {$in: S}, status: PENDING })
DeletePendingTrackers(S) ==
    tracker' = [p \in Payments |->
                   IF RegistrationOf(p) \in S /\ tracker[p] = "pending"
                   THEN "absent" ELSE tracker[p]]

-----------------------------------------------------------------------------
(***************************************************************************)
(* initiatePartialPayment                                                  *)
(***************************************************************************)

\* The deposit is large enough, and no registration of this customer for the
\* event has money on it.  One without payments will be replaced.
InitiatePartialPayment(r, a) ==
    /\ pc[r] = "idle"
    /\ a >= MinDeposit
    /\ amount' = [amount EXCEPT ![r] = a]
    /\ LET mine == {e \in Registrations : Live(e) /\ CustomerOf[e] = CustomerOf[r]}
       IN \/ /\ mine = {}
             /\ Goto(r, "save")
             /\ UNCHANGED target
          \/ \E e \in mine :
                IF reg[e].totalPaid = 0
                THEN Goto(r, "replace") /\ target' = [target EXCEPT ![r] = e]
                ELSE Goto(r, "over") /\ UNCHANGED target
    /\ UNCHANGED <<reg, stale, history, tracker, session, handlerVars, cleanupVars,
                   commissions, credited, faults>>

ReplaceRegistration(r) ==
    /\ pc[r] = "replace"
    /\ Delete({target[r]})
    /\ Goto(r, "purge")
    /\ UNCHANGED <<stale, history, tracker, session, amount, target, handlerVars,
                   cleanupVars, commissions, credited, faults>>

PurgeReplacedTrackers(r) ==
    /\ pc[r] = "purge"
    /\ DeletePendingTrackers({target[r]})
    /\ target' = [target EXCEPT ![r] = NoRegistration]
    /\ Goto(r, "save")
    /\ UNCHANGED <<reg, stale, history, session, amount, handlerVars,
                   cleanupVars, commissions, credited, faults>>

\* Mutant: the deposit is counted before it is paid.
SaveRegistrationPrepaid(r) ==
    /\ pc[r] = "save"
    /\ reg' = [reg EXCEPT ![r] =
          [live |-> TRUE, totalAmount |-> Price, referred |-> FALSE, totalPaid |-> amount[r],
           remainingBalance |-> Price - amount[r], isFullyPaid |-> FALSE]]
    /\ Goto(r, "charge")
    /\ UNCHANGED <<stale, history, tracker, session, amount, target, handlerVars,
                   cleanupVars, commissions, credited, faults>>

\* An affiliate code that validates lowers the total and earns a commission.
SaveRegistration(r) ==
    /\ pc[r] = "save"
    /\ \E referred \in BOOLEAN :
          LET total == IF referred THEN DiscountedPrice ELSE Price
          IN reg' = [reg EXCEPT ![r] =
                [live |-> TRUE, totalAmount |-> total, referred |-> referred,
                 totalPaid |-> 0, remainingBalance |-> total, isFullyPaid |-> FALSE]]
    /\ Goto(r, "charge")
    /\ UNCHANGED <<stale, history, tracker, session, amount, target, handlerVars,
                   cleanupVars, commissions, credited, faults>>

\* Stripe creates the checkout session, of a deposit or of an instalment.
CreateSession(p) ==
    /\ pc[p] = "charge"
    /\ session' = [session EXCEPT ![p] = "open"]
    /\ Goto(p, IF p \in Registrations THEN "link" ELSE "track")
    /\ UNCHANGED <<reg, stale, history, tracker, amount, target, handlerVars,
                   cleanupVars, commissions, credited, faults>>

\* The session id is saved on the registration; save() throws if the document
\* is gone.
LinkSession(r) ==
    /\ pc[r] = "link"
    /\ Goto(r, IF reg[r].live THEN "track" ELSE "rollback")
    /\ UNCHANGED <<reg, stale, history, tracker, session, amount, target, handlerVars,
                   cleanupVars, commissions, credited, faults>>

\* Mutant: an instalment's tracker is not saved.
SaveDepositTracker(p) ==
    /\ pc[p] = "track"
    /\ tracker' = [tracker EXCEPT ![p] = IF p \in Registrations THEN "pending" ELSE @]
    /\ Goto(p, IF p \in Registrations THEN "plan" ELSE "offered")
    /\ UNCHANGED <<reg, stale, history, session, amount, target, handlerVars,
                   cleanupVars, commissions, credited, faults>>

\* The tracker is saved once the session exists.  An instalment's request then
\* returns the checkout URL; an initiate may still set up a financing plan.
SaveTracker(p) ==
    /\ pc[p] = "track"
    /\ tracker' = [tracker EXCEPT ![p] = "pending"]
    /\ Goto(p, IF p \in Registrations THEN "plan" ELSE "offered")
    /\ UNCHANGED <<reg, stale, history, session, amount, target, handlerVars,
                   cleanupVars, commissions, credited, faults>>

\* createInstallmentPlan, when asked for, saves the registration again.
FinishInitiate(r) ==
    /\ pc[r] = "plan"
    /\ \/ Goto(r, "offered")
       \/ ~reg[r].live /\ Goto(r, "rollback")
    /\ UNCHANGED <<reg, stale, history, tracker, session, amount, target, handlerVars,
                   cleanupVars, commissions, credited, faults>>

\* The catch block deletes the registration but not the tracker.
Rollback(r) ==
    /\ pc[r] = "rollback"
    /\ Delete({r})
    /\ Goto(r, "over")
    /\ UNCHANGED <<stale, history, tracker, session, amount, target, handlerVars,
                   cleanupVars, commissions, credited, faults>>

(***************************************************************************)
(* makePayment                                                             *)
(***************************************************************************)

\* Below the minimum instalment exactly the rest must be paid, otherwise
\* anything from the minimum to the rest.
AllowedAmount(r, a) ==
    LET rest == reg[r].remainingBalance
    IN IF rest < MinInstallment THEN a = rest ELSE a >= MinInstallment /\ a <= rest

\* Mutant: the payment is not tied to its registration.
MakePaymentUnbound(p, r, a) ==
    /\ pc[p] = "idle"
    /\ reg[r].live
    /\ ~reg[r].isFullyPaid
    /\ AllowedAmount(r, a)
    /\ amount' = [amount EXCEPT ![p] = a]
    /\ Goto(p, "charge")
    /\ UNCHANGED <<reg, stale, history, tracker, session, target, handlerVars, cleanupVars,
                   commissions, credited, faults>>

\* Payments already under way for the registration are not looked at.
MakePayment(p, r, a) ==
    /\ pc[p] = "idle"
    /\ reg[r].live
    /\ ~reg[r].isFullyPaid
    /\ AllowedAmount(r, a)
    /\ target' = [target EXCEPT ![p] = r]
    /\ amount' = [amount EXCEPT ![p] = a]
    /\ Goto(p, "charge")
    /\ UNCHANGED <<reg, stale, history, tracker, session, handlerVars, cleanupVars,
                   commissions, credited, faults>>

\* Stripe or the database rejects a call of either request.
RequestFails(p) ==
    /\ \/ pc[p] \in {"replace", "purge", "save"} /\ Goto(p, "over")
       \/ /\ pc[p] \in {"charge", "link", "track", "plan"}
          /\ Goto(p, IF p \in Registrations THEN "rollback" ELSE "over")
    /\ UNCHANGED <<reg, stale, history, tracker, session, amount, target, handlerVars,
                   cleanupVars, commissions, credited, faults>>

-----------------------------------------------------------------------------
(***************************************************************************)
(* The customer and Stripe                                                 *)
(***************************************************************************)

\* The customer holds the URL once the request has returned it.
Pay(p) ==
    /\ pc[p] = "offered"
    /\ session[p] = "open"
    /\ session' = [session EXCEPT ![p] = "paid"]
    /\ UNCHANGED <<reg, stale, history, tracker, requestVars, handlerVars, cleanupVars,
                   commissions, credited, faults>>

\* Two hours after the initiate; a request does not take that long.
WindowPasses(r) ==
    /\ reg[r].live /\ r \notin stale
    /\ pc[r] \in {"offered", "over"}
    /\ stale' = stale \cup {r}
    /\ UNCHANGED <<reg, history, tracker, session, requestVars, handlerVars, cleanupVars,
                   commissions, credited, faults>>

\* Stripe's own limit: the session is created without expires_at and stays open
\* for 24 hours, so a deposit's session outlives the two hours.
SessionExpires(p) ==
    /\ session[p] = "open"
    /\ pc[p] \in {"offered", "over"}
    /\ p \in Registrations => (p \in stale \/ ~reg[p].live)
    /\ session' = [session EXCEPT ![p] = "expired"]
    /\ UNCHANGED <<reg, stale, history, tracker, requestVars, handlerVars, cleanupVars,
                   commissions, credited, faults>>

-----------------------------------------------------------------------------
(***************************************************************************)
(* processSuccessfulPayment, for h = <<payment, source>>.  Whatever it     *)
(* throws is swallowed by handleCheckoutCompleted, and answered with an    *)
(* error by the endpoint.  Both report a payment that has succeeded.       *)
(***************************************************************************)
BeginHandler(h) ==
    /\ hpc[h] = "idle"
    /\ session[h[1]] = "paid"
    /\ HandlerGoto(h, "lookup")
    /\ UNCHANGED <<reg, stale, history, tracker, session, requestVars, doc, cleanupVars,
                   commissions, credited, faults>>

FindTracker(h) ==
    /\ hpc[h] = "lookup"
    /\ HandlerGoto(h, IF tracker[h[1]] = "absent" THEN "lost" ELSE "complete")
    /\ UNCHANGED <<reg, stale, history, tracker, session, requestVars, doc, cleanupVars,
                   commissions, credited, faults>>

\* The tracker is completed whatever its status was, completed included; save()
\* throws if it has been deleted since.
CompleteTracker(h) ==
    /\ hpc[h] = "complete"
    /\ IF tracker[h[1]] = "absent"
       THEN HandlerGoto(h, "lost") /\ UNCHANGED tracker
       ELSE /\ tracker' = [tracker EXCEPT ![h[1]] = "completed"]
            /\ HandlerGoto(h, "load")
    /\ UNCHANGED <<reg, stale, history, session, requestVars, doc, cleanupVars,
                   commissions, credited, faults>>

\* Without a registration the handler returns as if all were well.
LoadRegistration(h) ==
    /\ hpc[h] = "load"
    /\ LET r == RegistrationOf(h[1])
       IN IF reg[r].live
          THEN doc' = [doc EXCEPT ![h] = TotalsOf(r)] /\ HandlerGoto(h, "apply")
          ELSE HandlerGoto(h, "lost") /\ UNCHANGED doc
    /\ UNCHANGED <<reg, stale, history, tracker, session, requestVars, cleanupVars,
                   commissions, credited, faults>>

\* Mutants: a rest below the minimum instalment is waived; a rest of exactly
\* zero is not enough.
PaidWaivingRest(r, loaded, a) ==
    LET rest == reg[r].totalAmount - (loaded.totalPaid + a)
    IN [totalPaid |-> loaded.totalPaid + a,
        remainingBalance |-> IF rest < MinInstallment THEN 0 ELSE rest,
        isFullyPaid |-> loaded.isFullyPaid \/ rest < MinInstallment]

PaidBeyond(r, loaded, a) ==
    LET rest == reg[r].totalAmount - (loaded.totalPaid + a)
    IN [totalPaid |-> loaded.totalPaid + a,
        remainingBalance |-> IF rest < 0 THEN 0 ELSE rest,
        isFullyPaid |-> loaded.isFullyPaid \/ rest < 0]

\* The totals the handler computes from its copy.
Paid(r, loaded, a) ==
    LET rest == reg[r].totalAmount - (loaded.totalPaid + a)
    IN [totalPaid |-> loaded.totalPaid + a,
        remainingBalance |-> IF rest <= 0 THEN 0 ELSE rest,
        isFullyPaid |-> loaded.isFullyPaid \/ rest <= 0]

\* Mutant: the totals are saved but the payment is not entered.
ApplyPaymentUnentered(h) ==
    /\ hpc[h] = "apply"
    /\ LET r == RegistrationOf(h[1])
           t == Paid(r, doc[h], amount[h[1]])
       IN /\ reg[r].live
          /\ reg' = [reg EXCEPT ![r] = SavedOver(r, doc[h], t)]
          /\ credited' = [credited EXCEPT ![r] = @ + amount[h[1]]]
          /\ doc' = [doc EXCEPT ![h] = t]
          /\ HandlerGoto(h, "confirm")
    /\ UNCHANGED <<stale, history, tracker, session, requestVars, cleanupVars, commissions,
                   faults>>

\* save(): the totals come from the copy, the history entry is a $push.
ApplyPayment(h) ==
    /\ hpc[h] = "apply"
    /\ LET r == RegistrationOf(h[1])
           t == Paid(r, doc[h], amount[h[1]])
       IN IF reg[r].live
          THEN /\ reg' = [reg EXCEPT ![r] = SavedOver(r, doc[h], t)]
               /\ history' = [history EXCEPT ![r] = @ \cup {h}]
               /\ credited' = [credited EXCEPT ![r] = @ + amount[h[1]]]
               /\ doc' = [doc EXCEPT ![h] = t]
               /\ HandlerGoto(h, "confirm")
          ELSE /\ Drop(h, "lost")
               /\ UNCHANGED <<reg, history, credited>>
    /\ UNCHANGED <<stale, tracker, session, requestVars, cleanupVars, commissions, faults>>

\* Mutant: every payment of a referred registration earns a commission.
ConfirmEach(h) ==
    /\ hpc[h] = "confirm"
    /\ LET r == RegistrationOf(h[1])
       IN commissions' = [commissions EXCEPT ![r] = IF reg[r].referred THEN @ + 1 ELSE @]
    /\ Drop(h, "done")
    /\ UNCHANGED <<reg, stale, history, tracker, session, requestVars, cleanupVars,
                   credited, faults>>

\* The e-mails, and the commission if the handler's copy is fully paid.  The
\* first e-mail may throw, which skips the rest; a failed commission is caught.
Confirm(h) ==
    /\ hpc[h] = "confirm"
    /\ LET r == RegistrationOf(h[1])
       IN \/ UNCHANGED commissions
          \/ /\ doc[h].isFullyPaid /\ reg[r].referred
             /\ commissions' = [commissions EXCEPT ![r] = @ + 1]
    /\ Drop(h, "done")
    /\ UNCHANGED <<reg, stale, history, tracker, session, requestVars, cleanupVars,
                   credited, faults>>

-----------------------------------------------------------------------------
(***************************************************************************)
(* cleanupAbandonedCheckouts                                               *)
(***************************************************************************)
\* Mutant: only checkouts whose Stripe session has expired are abandoned.
AbandonedByStripe ==
    {r \in stale : reg[r].live /\ reg[r].totalPaid = 0 /\ session[r] = "expired"}

Abandoned == {r \in stale : reg[r].live /\ reg[r].totalPaid = 0 /\ ~reg[r].isFullyPaid}

CleanerGoto(c, l) == cpc' = [cpc EXCEPT ![c] = l]

\* The call ends, and its list with it.
EndCleanup(c) == CleanerGoto(c, "idle") /\ doomed' = [doomed EXCEPT ![c] = {}]

FindAbandoned(c) ==
    /\ cpc[c] = "idle"
    /\ Abandoned # {}
    /\ doomed' = [doomed EXCEPT ![c] = Abandoned]
    /\ CleanerGoto(c, "trackers")
    /\ UNCHANGED <<reg, stale, history, tracker, session, requestVars, handlerVars,
                   commissions, credited, faults>>

PurgeAbandonedTrackers(c) ==
    /\ cpc[c] = "trackers"
    /\ DeletePendingTrackers(doomed[c])
    /\ CleanerGoto(c, "registrations")
    /\ UNCHANGED <<reg, stale, history, session, requestVars, handlerVars, doomed,
                   commissions, credited, faults>>

\* deleteMany by _id alone: what the registrations are now is not looked at.
DeleteAbandoned(c) ==
    /\ cpc[c] = "registrations"
    /\ Delete(doomed[c])
    /\ EndCleanup(c)
    /\ UNCHANGED <<stale, history, tracker, session, requestVars, handlerVars,
                   commissions, credited, faults>>

-----------------------------------------------------------------------------
Busy == {"replace", "purge", "save", "charge", "link", "track", "plan", "rollback"}
HandlerBusy == {"lookup", "complete", "load", "apply", "confirm"}

\* One handler call, or the cron, is cut short by a rejected database call.
HandlerFails(h) ==
    /\ faults < MaxFaults
    /\ hpc[h] \in HandlerBusy
    /\ Drop(h, "dead")
    /\ faults' = faults + 1
    /\ UNCHANGED <<reg, stale, history, tracker, session, requestVars, cleanupVars,
                   commissions, credited>>

CleanupFails(c) ==
    /\ faults < MaxFaults
    /\ cpc[c] # "idle"
    /\ EndCleanup(c)
    /\ faults' = faults + 1
    /\ UNCHANGED <<reg, stale, history, tracker, session, requestVars, handlerVars,
                   commissions, credited>>

\* The process restarts.  WebhookInbox never begins a handler a second time.
Crash ==
    /\ faults < MaxFaults
    /\ pc' = [p \in Payments |-> IF pc[p] \in Busy THEN "over" ELSE pc[p]]
    /\ hpc' = [h \in Handlers |-> IF hpc[h] \in HandlerBusy THEN "dead" ELSE hpc[h]]
    /\ doc' = [h \in Handlers |-> NoTotals]
    /\ cpc' = [c \in Cleaners |-> "idle"]
    /\ doomed' = [c \in Cleaners |-> {}]
    /\ faults' = faults + 1
    /\ UNCHANGED <<reg, stale, history, tracker, session, amount, target,
                   commissions, credited>>

-----------------------------------------------------------------------------
InitiateStep(r) ==
    \/ ReplaceRegistration(r) \/ PurgeReplacedTrackers(r) \/ SaveRegistration(r)
    \/ LinkSession(r) \/ FinishInitiate(r) \/ Rollback(r)

HandlerStep(h) ==
    \/ BeginHandler(h) \/ FindTracker(h) \/ CompleteTracker(h)
    \/ LoadRegistration(h) \/ ApplyPayment(h) \/ Confirm(h)

Cleanup(c) == FindAbandoned(c) \/ PurgeAbandonedTrackers(c) \/ DeleteAbandoned(c)

Next ==
    \/ \E r \in Registrations, a \in Amounts : InitiatePartialPayment(r, a)
    \/ \E r \in Registrations : InitiateStep(r) \/ WindowPasses(r)
    \/ \E p \in Installments, r \in Registrations, a \in Amounts : MakePayment(p, r, a)
    \/ \E p \in Payments :
          CreateSession(p) \/ SaveTracker(p) \/ RequestFails(p) \/ Pay(p) \/ SessionExpires(p)
    \/ \E h \in Handlers : HandlerStep(h) \/ HandlerFails(h)
    \/ \E c \in Cleaners : Cleanup(c) \/ CleanupFails(c)
    \/ Crash

Spec == Init /\ [][Next]_vars

\* The webhook is delivered and its handler's awaits settle; the cron comes
\* round every hour and two hours pass.  Customers owe nothing.
Fairness ==
    /\ \A h \in Handlers : WF_vars(HandlerStep(h))
    /\ \A r \in Registrations : WF_vars(WindowPasses(r))
    /\ \A c \in Cleaners : WF_vars(Cleanup(c))

FairSpec == Spec /\ Fairness

-----------------------------------------------------------------------------
\* Every entry of a paymentHistory stands for a payment of this registration
\* that the customer made and whose tracker is kept as completed, whichever
\* caller reported it and whatever was deleted, replaced or rolled back beside
\* it; and the entries add up to the money credited.  (A payment that two
\* callers report has two entries.)
LedgerIsReal ==
    \A r \in Registrations :
        /\ \A h \in history[r] :
              /\ RegistrationOf(h[1]) = r
              /\ session[h[1]] = "paid"
              /\ tracker[h[1]] = "completed"
        /\ credited[r] = SumFunctionOnSet([h \in Handlers |-> amount[h[1]]], history[r])

\* Handlers that overwrite each other's totals can lose money but never invent
\* it: totalPaid is at most what the entries of the paymentHistory add up to.
TotalsNeverOverstate ==
    \A r \in Registrations : reg[r].totalPaid <= credited[r]

\* A registration is marked fully paid only when the entries of its
\* paymentHistory cover the total, whatever order the handlers of concurrent
\* payments write in.
PaidInFullMeansPaid ==
    \A r \in Registrations :
        reg[r].isFullyPaid => credited[r] >= reg[r].totalAmount

\* An affiliate earns a commission only on a referred registration that has
\* been paid in full.
CommissionNeedsFullPayment ==
    \A r \in Registrations :
        commissions[r] > 0 => reg[r].referred /\ credited[r] >= reg[r].totalAmount

\* A registration that is not fully paid can still be paid: some positive amount
\* passes makePayment's rules, the final rest below the minimum included.
UnpaidCanBePaid ==
    \A r \in Registrations :
        reg[r].live /\ ~reg[r].isFullyPaid
            => \E a \in 1 .. reg[r].remainingBalance : AllowedAmount(r, a)

\* Without a crash or a database error, a payment goes unrecorded only because
\* its registration was deleted, or is about to be by the cron.
LossIsDeletion ==
    faults = 0 =>
        \A h \in Handlers :
            hpc[h] = "lost" =>
                \/ ~reg[RegistrationOf(h[1])].live
                \/ \E c \in Cleaners :
                      cpc[c] = "registrations" /\ RegistrationOf(h[1]) \in doomed[c]

\* Once fully paid, a registration never becomes unpaid again by a late or
\* overlapping handler.
FullyPaidIsFinal ==
    [][\A r \in Registrations : reg[r].isFullyPaid => reg'[r].isFullyPaid]_vars

\* A payment for a registration is eventually in its history, unless the
\* registration is deleted or something fails on the way.
PaidIsRecorded ==
    \A p \in Payments :
        session[p] = "paid" ~>
            \/ \E h \in history[RegistrationOf(p)] : h[1] = p
            \/ ~reg[RegistrationOf(p)].live
            \/ faults > 0

\* A registration whose request is over is eventually paid for or deleted: the
\* cron gets every abandoned one, the leftovers of a crash included.
AbandonedIsCleaned ==
    \A r \in Registrations :
        reg[r].live /\ pc[r] \in {"offered", "over"} ~> ~reg[r].live \/ reg[r].totalPaid > 0

\* The schema's comment on totalPaid, "Total amount paid so far (including
\* deposit)": when no handler of a registration is running, its totalPaid is
\* what its payments add up to.
TotalPaidIsTotal ==
    \A r \in Registrations :
        reg[r].live /\ (\A h \in Handlers : RegistrationOf(h[1]) = r => hpc[h] \notin HandlerBusy)
            => reg[r].totalPaid = credited[r]
=============================================================================
