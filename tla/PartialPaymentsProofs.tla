------------------------ MODULE PartialPaymentsProofs ------------------------
(***************************************************************************)
(* Proofs about PartialPayments for any set of registrations, payments and *)
(* sources, any prices and any number of faults.                           *)
(*                                                                         *)
(* The properties relate what a registration says (totalPaid, isFullyPaid, *)
(* commissions) to the money entered in its history (credited).  A handler *)
(* writes what it computed from a copy, so the invariant must speak of the *)
(* copies too: a copy, however old, never says more than the history does. *)
(* This survives the steps of other handlers because credited only grows   *)
(* and totalAmount is written once, before any handler can have a copy.    *)
(***************************************************************************)
EXTENDS PartialPayments, TLAPS

Saved(r) == pc[r] \notin {"idle", "replace", "purge", "save"}

PaidIsOffered == \A p \in Payments : session[p] = "paid" => pc[p] = "offered"

HandlersArePaid == \A h \in Handlers : hpc[h] # "idle" => session[h[1]] = "paid"

TargetsAreSaved == \A p \in Installments : pc[p] # "idle" => Saved(target[p])

\* Nothing is recorded on a registration before its document is saved.
BlankBeforeSave ==
    \A r \in Registrations :
        ~Saved(r) => /\ ~reg[r].live
                     /\ ~reg[r].isFullyPaid
                     /\ credited[r] = 0
                     /\ commissions[r] = 0

CopyIsCovered(h) ==
    LET r == RegistrationOf(h[1])
    IN /\ doc[h].totalPaid <= credited[r]
       /\ doc[h].isFullyPaid => credited[r] >= reg[r].totalAmount

CopiesAreCovered ==
    \A h \in Handlers : hpc[h] \in {"apply", "confirm"} => CopyIsCovered(h)

\* Who works on what: payments, their handlers and their registrations.
Wiring == PaidIsOffered /\ HandlersArePaid /\ TargetsAreSaved

\* What registrations and copies say of the money.
Books ==
    /\ BlankBeforeSave
    /\ CopiesAreCovered
    /\ TotalsNeverOverstate
    /\ PaidInFullMeansPaid
    /\ CommissionNeedsFullPayment

AmountsAreNatural == amount \in [Payments -> Nat]

IInv == TypeOK /\ AmountsAreNatural /\ Wiring /\ Books

USE DEF requestVars, handlerVars, cleanupVars

\* A handler that has begun works for a payment whose registration exists as a
\* saved document.
LEMMA RegistrationOfHandler ==
  ASSUME TypeOK, Wiring, NEW h \in Handlers, hpc[h] # "idle"
  PROVE  /\ h[1] \in Payments
         /\ pc[h[1]] = "offered"
         /\ RegistrationOf(h[1]) \in Registrations
         /\ Saved(RegistrationOf(h[1]))
  BY DEF Wiring, PaidIsOffered, HandlersArePaid, TargetsAreSaved, TypeOK, Handlers, Payments,
         RegistrationOf, Saved

\* The inductive invariant holds before the first request.
LEMMA InitIInv == Init => IInv
  <1> SUFFICES ASSUME Init PROVE IInv
    OBVIOUS
  <1> USE NamesAssumption DEF Init
  <1>1. TypeOK
    BY DEF TypeOK, NoDocument, Registration, NoTotals, Totals, RequestPCs, HandlerPCs, CleanupPCs,
           Payments
  <1>2. AmountsAreNatural
    BY DEF AmountsAreNatural
  <1>3. Wiring
    BY DEF Wiring, PaidIsOffered, HandlersArePaid, TargetsAreSaved, Handlers, Payments
  <1>4. Books
    BY DEF Books, BlankBeforeSave, Saved, CopiesAreCovered, TotalsNeverOverstate,
           PaidInFullMeansPaid, CommissionNeedsFullPayment, NoDocument, Payments
  <1> QED
    BY <1>1, <1>2, <1>3, <1>4 DEF IInv

\* Deleting clears "live" and nothing else.
LEMMA DeleteEffect ==
  ASSUME reg \in [Registrations -> Registration], NEW S, Delete(S)
  PROVE  /\ reg' \in [Registrations -> Registration]
         /\ \A r \in Registrations :
               /\ reg'[r].live => reg[r].live
               /\ reg'[r].totalAmount = reg[r].totalAmount
               /\ reg'[r].referred = reg[r].referred
               /\ reg'[r].totalPaid = reg[r].totalPaid
               /\ reg'[r].isFullyPaid = reg[r].isFullyPaid
  <1>1. ASSUME NEW r \in Registrations
        PROVE  [reg[r] EXCEPT !.live = FALSE] \in Registration
    BY DEF Registration
  <1>2. reg' \in [Registrations -> Registration]
    BY <1>1 DEF Delete
  <1>3. ASSUME NEW r \in Registrations
        PROVE  \/ reg'[r] = reg[r]
               \/ reg'[r] = [reg[r] EXCEPT !.live = FALSE]
    BY DEF Delete
  <1> QED
    BY <1>2, <1>3 DEF Registration

\* A handler's save writes totals only, each from the copy or not at all.
LEMMA SaveEffect ==
  ASSUME reg \in [Registrations -> Registration], NEW r \in Registrations,
         NEW loaded \in Totals, NEW t \in Totals
  PROVE  LET s == SavedOver(r, loaded, t)
         IN /\ s \in Registration
            /\ s.live = reg[r].live
            /\ s.totalAmount = reg[r].totalAmount
            /\ s.referred = reg[r].referred
            /\ s.totalPaid \in {reg[r].totalPaid, t.totalPaid}
            /\ s.isFullyPaid =
                  IF t.isFullyPaid = loaded.isFullyPaid THEN reg[r].isFullyPaid ELSE t.isFullyPaid
  BY DEF SavedOver, Registration, Totals

\* Adding a payment to a copy keeps the mark, and sets it only when the total is
\* reached.
LEMMA PaidEffect ==
  ASSUME reg \in [Registrations -> Registration], NEW r \in Registrations,
         NEW loaded \in Totals, NEW a \in Int
  PROVE  LET t == Paid(r, loaded, a)
         IN /\ t \in Totals
            /\ t.totalPaid = loaded.totalPaid + a
            /\ loaded.isFullyPaid => t.isFullyPaid
            /\ t.isFullyPaid => loaded.isFullyPaid \/ reg[r].totalAmount <= t.totalPaid
  <1> reg[r].totalAmount \in Int /\ loaded.totalPaid \in Int /\ loaded.isFullyPaid \in BOOLEAN
    BY DEF Registration, Totals
  <1> QED
    BY DEF Paid, Totals

\* Every step keeps the types.
LEMMA NextTypeOK == TypeOK /\ Wiring /\ [Next]_vars => TypeOK'
  <1> SUFFICES ASSUME TypeOK, Wiring, [Next]_vars PROVE TypeOK'
    OBVIOUS
  <1> USE NamesAssumption, AmountsAssumption, PricesAssumption
  <1> USE DEF TypeOK, Goto, HandlerGoto, Drop, DeletePendingTrackers, RequestPCs, HandlerPCs,
              CleanupPCs, Payments, Handlers
  <1> NoTotals \in Totals
    BY DEF NoTotals, Totals
  <1>1. ASSUME NEW r \in Registrations, NEW a \in Amounts, InitiatePartialPayment(r, a)
        PROVE  TypeOK'
    BY <1>1 DEF InitiatePartialPayment
  <1>2. ASSUME NEW r \in Registrations, ReplaceRegistration(r) PROVE TypeOK'
    BY <1>2, DeleteEffect DEF ReplaceRegistration
  <1>3. ASSUME NEW r \in Registrations, PurgeReplacedTrackers(r) PROVE TypeOK'
    BY <1>3 DEF PurgeReplacedTrackers
  <1>4. ASSUME NEW r \in Registrations, SaveRegistration(r) PROVE TypeOK'
    BY <1>4 DEF SaveRegistration, Registration
  <1>5. ASSUME NEW r \in Registrations, LinkSession(r) PROVE TypeOK'
    BY <1>5 DEF LinkSession
  <1>6. ASSUME NEW r \in Registrations, FinishInitiate(r) PROVE TypeOK'
    BY <1>6 DEF FinishInitiate
  <1>7. ASSUME NEW r \in Registrations, Rollback(r) PROVE TypeOK'
    BY <1>7, DeleteEffect DEF Rollback
  <1>8. ASSUME NEW r \in Registrations, WindowPasses(r) PROVE TypeOK'
    BY <1>8 DEF WindowPasses
  <1>9. ASSUME NEW p \in Installments, NEW r \in Registrations, NEW a \in Amounts,
               MakePayment(p, r, a)
        PROVE  TypeOK'
    BY <1>9 DEF MakePayment
  <1>10. ASSUME NEW p \in Payments, CreateSession(p) PROVE TypeOK'
    BY <1>10 DEF CreateSession
  <1>11. ASSUME NEW p \in Payments, SaveTracker(p) PROVE TypeOK'
    BY <1>11 DEF SaveTracker
  <1>12. ASSUME NEW p \in Payments, RequestFails(p) PROVE TypeOK'
    BY <1>12 DEF RequestFails
  <1>13. ASSUME NEW p \in Payments, Pay(p) PROVE TypeOK'
    BY <1>13 DEF Pay
  <1>14. ASSUME NEW p \in Payments, SessionExpires(p) PROVE TypeOK'
    BY <1>14 DEF SessionExpires
  <1>15. ASSUME NEW h \in Handlers, BeginHandler(h) PROVE TypeOK'
    BY <1>15 DEF BeginHandler
  <1>16. ASSUME NEW h \in Handlers, FindTracker(h) PROVE TypeOK'
    BY <1>16 DEF FindTracker
  <1>17. ASSUME NEW h \in Handlers, CompleteTracker(h) PROVE TypeOK'
    BY <1>17 DEF CompleteTracker
  <1>18. ASSUME NEW h \in Handlers, LoadRegistration(h) PROVE TypeOK'
    <2>1. ASSUME NEW r \in Registrations PROVE TotalsOf(r) \in Totals
      BY DEF TotalsOf, Registration, Totals
    <2> DEFINE r == RegistrationOf(h[1])
    <2>2. \/ doc' = [doc EXCEPT ![h] = TotalsOf(r)] /\ hpc' = [hpc EXCEPT ![h] = "apply"]
          \/ doc' = doc /\ hpc' = [hpc EXCEPT ![h] = "lost"]
      BY <1>18 DEF LoadRegistration
    <2>3. r \in Registrations
      BY <1>18, RegistrationOfHandler DEF LoadRegistration
    <2>4. TotalsOf(r) \in Totals
      BY <2>1, <2>3
    <2> HIDE DEF r
    <2> HIDE DEF Handlers
    <2>5. doc' \in [Handlers -> Totals] /\ hpc' \in [Handlers -> HandlerPCs]
      <3> DEFINE copy == TotalsOf(r)
      <3> HIDE DEF copy
      <3> QED
        BY <2>2, <2>4 DEF copy
    <2>6. UNCHANGED <<reg, stale, history, tracker, session, pc, amount, target, cpc, doomed,
                      commissions, credited, faults>>
      BY <1>18 DEF LoadRegistration, requestVars, cleanupVars
    <2> QED
      BY <2>5, <2>6
  <1>19. ASSUME NEW h \in Handlers, ApplyPayment(h) PROVE TypeOK'
    <2> DEFINE r == RegistrationOf(h[1])
               t == Paid(r, doc[h], amount[h[1]])
    <2>1. r \in Registrations
      BY <1>19, RegistrationOfHandler DEF ApplyPayment
    <2>2. t \in Totals
      BY <2>1, PaidEffect
    <2>3. SavedOver(r, doc[h], t) \in Registration
      BY <2>1, <2>2, SaveEffect
    <2> HIDE DEF t, r
    <2>4. \/ /\ reg' = [reg EXCEPT ![r] = SavedOver(r, doc[h], t)]
             /\ history' = [history EXCEPT ![r] = @ \cup {h}]
             /\ credited' = [credited EXCEPT ![r] = @ + amount[h[1]]]
             /\ doc' = [doc EXCEPT ![h] = t]
             /\ HandlerGoto(h, "confirm")
          \/ Drop(h, "lost") /\ UNCHANGED <<reg, history, credited>>
      BY <1>19 DEF ApplyPayment, r, t
    <2>5. UNCHANGED <<stale, tracker, session, requestVars, cleanupVars, commissions, faults>>
      BY <1>19 DEF ApplyPayment
    <2>6. CASE Drop(h, "lost") /\ UNCHANGED <<reg, history, credited>>
      BY <2>5, <2>6
    <2>7. CASE /\ reg' = [reg EXCEPT ![r] = SavedOver(r, doc[h], t)]
               /\ history' = [history EXCEPT ![r] = @ \cup {h}]
               /\ credited' = [credited EXCEPT ![r] = @ + amount[h[1]]]
               /\ doc' = [doc EXCEPT ![h] = t]
               /\ HandlerGoto(h, "confirm")
      <3>1. reg' \in [Registrations -> Registration] /\ doc' \in [Handlers -> Totals]
        BY <2>1, <2>2, <2>3, <2>7
      <3>2. history' \in [Registrations -> SUBSET Handlers]
        BY <2>1, <2>7
      <3>3. credited' \in [Registrations -> Int]
        BY <2>1, <2>7
      <3> QED
        BY <3>1, <3>2, <3>3, <2>5, <2>7
    <2> QED
      BY <2>4, <2>6, <2>7
  <1>20. ASSUME NEW h \in Handlers, Confirm(h) PROVE TypeOK'
    <2> DEFINE r == RegistrationOf(h[1])
    <2>1. commissions' = commissions \/ commissions' = [commissions EXCEPT ![r] = @ + 1]
      BY <1>20 DEF Confirm
    <2>2. r \in Registrations
      BY <1>20, RegistrationOfHandler DEF Confirm
    <2> HIDE DEF r
    <2>3. commissions' \in [Registrations -> Nat]
      BY <2>1, <2>2
    <2>4. Drop(h, "done") /\ UNCHANGED <<reg, stale, history, tracker, session, requestVars,
                                        cleanupVars, credited, faults>>
      BY <1>20 DEF Confirm
    <2> QED
      BY <2>3, <2>4 DEF requestVars, cleanupVars
  <1>21. ASSUME NEW h \in Handlers, HandlerFails(h) PROVE TypeOK'
    BY <1>21 DEF HandlerFails
  <1>22. CASE \E c \in Cleaners : FindAbandoned(c)
    <2>1. Abandoned \subseteq Registrations
      BY DEF Abandoned
    <2> QED
      BY <1>22, <2>1 DEF FindAbandoned, CleanerGoto
  <1>23. CASE \E c \in Cleaners : PurgeAbandonedTrackers(c)
    BY <1>23 DEF PurgeAbandonedTrackers, CleanerGoto
  <1>24. CASE \E c \in Cleaners : DeleteAbandoned(c)
    BY <1>24, DeleteEffect DEF DeleteAbandoned, EndCleanup, CleanerGoto
  <1>25. CASE \E c \in Cleaners : CleanupFails(c)
    BY <1>25 DEF CleanupFails, EndCleanup, CleanerGoto
  <1>26. CASE Crash
    BY <1>26 DEF Crash, Busy
  <1>27. CASE UNCHANGED vars
    BY <1>27 DEF vars, requestVars, handlerVars, cleanupVars
  <1> QED
    BY <1>1, <1>2, <1>3, <1>4, <1>5, <1>6, <1>7, <1>8, <1>9, <1>10, <1>11, <1>12, <1>13, <1>14,
       <1>15, <1>16, <1>17, <1>18, <1>19, <1>20, <1>21, <1>22, <1>23, <1>24, <1>25, <1>26, <1>27
       DEF Next, InitiateStep, HandlerStep, Cleanup

-----------------------------------------------------------------------------
\* A registration that has been saved stays so.
LEMMA SavedIsStable ==
  ASSUME TypeOK, [Next]_vars, NEW q \in Registrations, Saved(q)
  PROVE  Saved(q)'
  <1> USE NamesAssumption DEF TypeOK, Saved, Goto, Payments
  <1>1. ASSUME NEW r \in Registrations, NEW a \in Amounts, InitiatePartialPayment(r, a)
        PROVE  Saved(q)'
    BY <1>1 DEF InitiatePartialPayment
  <1>2. ASSUME NEW r \in Registrations, ReplaceRegistration(r) PROVE Saved(q)'
    BY <1>2 DEF ReplaceRegistration
  <1>3. ASSUME NEW r \in Registrations, PurgeReplacedTrackers(r) PROVE Saved(q)'
    BY <1>3 DEF PurgeReplacedTrackers
  <1>4. ASSUME NEW r \in Registrations, SaveRegistration(r) PROVE Saved(q)'
    BY <1>4 DEF SaveRegistration
  <1>5. ASSUME NEW r \in Registrations, LinkSession(r) PROVE Saved(q)'
    BY <1>5 DEF LinkSession
  <1>6. ASSUME NEW r \in Registrations, FinishInitiate(r) PROVE Saved(q)'
    BY <1>6 DEF FinishInitiate
  <1>7. ASSUME NEW r \in Registrations, Rollback(r) PROVE Saved(q)'
    BY <1>7 DEF Rollback
  <1>8. ASSUME NEW r \in Registrations, WindowPasses(r) PROVE Saved(q)'
    BY <1>8 DEF WindowPasses
  <1>9. ASSUME NEW p \in Installments, NEW r \in Registrations, NEW a \in Amounts,
               MakePayment(p, r, a)
        PROVE  Saved(q)'
    BY <1>9 DEF MakePayment
  <1>10. ASSUME NEW p \in Payments, CreateSession(p) PROVE Saved(q)'
    BY <1>10 DEF CreateSession
  <1>11. ASSUME NEW p \in Payments, SaveTracker(p) PROVE Saved(q)'
    BY <1>11 DEF SaveTracker
  <1>12. ASSUME NEW p \in Payments, RequestFails(p) PROVE Saved(q)'
    BY <1>12 DEF RequestFails
  <1>13. ASSUME NEW p \in Payments, Pay(p) PROVE Saved(q)'
    BY <1>13 DEF Pay
  <1>14. ASSUME NEW p \in Payments, SessionExpires(p) PROVE Saved(q)'
    BY <1>14 DEF SessionExpires
  <1>15. ASSUME NEW h \in Handlers, BeginHandler(h) PROVE Saved(q)'
    BY <1>15 DEF BeginHandler
  <1>16. ASSUME NEW h \in Handlers, FindTracker(h) PROVE Saved(q)'
    BY <1>16 DEF FindTracker
  <1>17. ASSUME NEW h \in Handlers, CompleteTracker(h) PROVE Saved(q)'
    BY <1>17 DEF CompleteTracker
  <1>18. ASSUME NEW h \in Handlers, LoadRegistration(h) PROVE Saved(q)'
    BY <1>18 DEF LoadRegistration
  <1>19. ASSUME NEW h \in Handlers, ApplyPayment(h) PROVE Saved(q)'
    BY <1>19 DEF ApplyPayment
  <1>20. ASSUME NEW h \in Handlers, Confirm(h) PROVE Saved(q)'
    BY <1>20 DEF Confirm
  <1>21. ASSUME NEW h \in Handlers, HandlerFails(h) PROVE Saved(q)'
    BY <1>21 DEF HandlerFails
  <1>22. CASE \E c \in Cleaners : FindAbandoned(c)
    BY <1>22 DEF FindAbandoned, CleanerGoto
  <1>23. CASE \E c \in Cleaners : PurgeAbandonedTrackers(c)
    BY <1>23 DEF PurgeAbandonedTrackers, CleanerGoto
  <1>24. CASE \E c \in Cleaners : DeleteAbandoned(c)
    BY <1>24 DEF DeleteAbandoned, EndCleanup, CleanerGoto
  <1>25. CASE \E c \in Cleaners : CleanupFails(c)
    BY <1>25 DEF CleanupFails, EndCleanup, CleanerGoto
  <1>26. CASE Crash
    BY <1>26 DEF Crash, Busy
  <1>27. CASE UNCHANGED vars
    BY <1>27 DEF vars
  <1> QED
    BY <1>1, <1>2, <1>3, <1>4, <1>5, <1>6, <1>7, <1>8, <1>9, <1>10, <1>11, <1>12, <1>13, <1>14,
       <1>15, <1>16, <1>17, <1>18, <1>19, <1>20, <1>21, <1>22, <1>23, <1>24, <1>25, <1>26, <1>27
       DEF Next, InitiateStep, HandlerStep, Cleanup

\* Amounts come from what customers may ask to pay, so they stay natural.
LEMMA NextAmounts == TypeOK /\ AmountsAreNatural /\ [Next]_vars => AmountsAreNatural'
  <1> SUFFICES ASSUME TypeOK, AmountsAreNatural, [Next]_vars PROVE AmountsAreNatural'
    OBVIOUS
  <1> USE AmountsAssumption DEF AmountsAreNatural, Payments
  <1>1. ASSUME NEW r \in Registrations, NEW a \in Amounts, InitiatePartialPayment(r, a)
        PROVE  AmountsAreNatural'
    BY <1>1 DEF InitiatePartialPayment
  <1>2. ASSUME NEW r \in Registrations, ReplaceRegistration(r) PROVE AmountsAreNatural'
    BY <1>2 DEF ReplaceRegistration
  <1>3. ASSUME NEW r \in Registrations, PurgeReplacedTrackers(r) PROVE AmountsAreNatural'
    BY <1>3 DEF PurgeReplacedTrackers
  <1>4. ASSUME NEW r \in Registrations, SaveRegistration(r) PROVE AmountsAreNatural'
    BY <1>4 DEF SaveRegistration
  <1>5. ASSUME NEW r \in Registrations, LinkSession(r) PROVE AmountsAreNatural'
    BY <1>5 DEF LinkSession
  <1>6. ASSUME NEW r \in Registrations, FinishInitiate(r) PROVE AmountsAreNatural'
    BY <1>6 DEF FinishInitiate
  <1>7. ASSUME NEW r \in Registrations, Rollback(r) PROVE AmountsAreNatural'
    BY <1>7 DEF Rollback
  <1>8. ASSUME NEW r \in Registrations, WindowPasses(r) PROVE AmountsAreNatural'
    BY <1>8 DEF WindowPasses
  <1>9. ASSUME NEW p \in Installments, NEW r \in Registrations, NEW a \in Amounts,
               MakePayment(p, r, a)
        PROVE  AmountsAreNatural'
    BY <1>9 DEF MakePayment
  <1>10. ASSUME NEW p \in Payments, CreateSession(p) PROVE AmountsAreNatural'
    BY <1>10 DEF CreateSession
  <1>11. ASSUME NEW p \in Payments, SaveTracker(p) PROVE AmountsAreNatural'
    BY <1>11 DEF SaveTracker
  <1>12. ASSUME NEW p \in Payments, RequestFails(p) PROVE AmountsAreNatural'
    BY <1>12 DEF RequestFails
  <1>13. ASSUME NEW p \in Payments, Pay(p) PROVE AmountsAreNatural'
    BY <1>13 DEF Pay
  <1>14. ASSUME NEW p \in Payments, SessionExpires(p) PROVE AmountsAreNatural'
    BY <1>14 DEF SessionExpires
  <1>15. ASSUME NEW h \in Handlers, BeginHandler(h) PROVE AmountsAreNatural'
    BY <1>15 DEF BeginHandler
  <1>16. ASSUME NEW h \in Handlers, FindTracker(h) PROVE AmountsAreNatural'
    BY <1>16 DEF FindTracker
  <1>17. ASSUME NEW h \in Handlers, CompleteTracker(h) PROVE AmountsAreNatural'
    BY <1>17 DEF CompleteTracker
  <1>18. ASSUME NEW h \in Handlers, LoadRegistration(h) PROVE AmountsAreNatural'
    BY <1>18 DEF LoadRegistration
  <1>19. ASSUME NEW h \in Handlers, ApplyPayment(h) PROVE AmountsAreNatural'
    BY <1>19 DEF ApplyPayment
  <1>20. ASSUME NEW h \in Handlers, Confirm(h) PROVE AmountsAreNatural'
    BY <1>20 DEF Confirm
  <1>21. ASSUME NEW h \in Handlers, HandlerFails(h) PROVE AmountsAreNatural'
    BY <1>21 DEF HandlerFails
  <1>22. CASE \E c \in Cleaners : FindAbandoned(c)
    BY <1>22 DEF FindAbandoned, CleanerGoto
  <1>23. CASE \E c \in Cleaners : PurgeAbandonedTrackers(c)
    BY <1>23 DEF PurgeAbandonedTrackers, CleanerGoto
  <1>24. CASE \E c \in Cleaners : DeleteAbandoned(c)
    BY <1>24 DEF DeleteAbandoned, EndCleanup, CleanerGoto
  <1>25. CASE \E c \in Cleaners : CleanupFails(c)
    BY <1>25 DEF CleanupFails, EndCleanup, CleanerGoto
  <1>26. CASE Crash
    BY <1>26 DEF Crash
  <1>27. CASE UNCHANGED vars
    BY <1>27 DEF vars
  <1> QED
    BY <1>1, <1>2, <1>3, <1>4, <1>5, <1>6, <1>7, <1>8, <1>9, <1>10, <1>11, <1>12, <1>13, <1>14,
       <1>15, <1>16, <1>17, <1>18, <1>19, <1>20, <1>21, <1>22, <1>23, <1>24, <1>25, <1>26, <1>27
       DEF Next, InitiateStep, HandlerStep, Cleanup

\* Only offered sessions are paid, and only paid sessions reach a handler.
LEMMA NextPayments ==
  TypeOK /\ PaidIsOffered /\ HandlersArePaid /\ [Next]_vars
     => PaidIsOffered' /\ HandlersArePaid'
  <1> SUFFICES ASSUME TypeOK, PaidIsOffered, HandlersArePaid, [Next]_vars
               PROVE  (PaidIsOffered /\ HandlersArePaid)'
    OBVIOUS
  <1> USE NamesAssumption
      DEF TypeOK, PaidIsOffered, HandlersArePaid, Goto, HandlerGoto, Drop, Payments, Handlers
  <1>1. ASSUME NEW r \in Registrations, NEW a \in Amounts, InitiatePartialPayment(r, a)
        PROVE  (PaidIsOffered /\ HandlersArePaid)'
    BY <1>1 DEF InitiatePartialPayment
  <1>2. ASSUME NEW r \in Registrations, ReplaceRegistration(r)
        PROVE  (PaidIsOffered /\ HandlersArePaid)'
    BY <1>2 DEF ReplaceRegistration
  <1>3. ASSUME NEW r \in Registrations, PurgeReplacedTrackers(r)
        PROVE  (PaidIsOffered /\ HandlersArePaid)'
    BY <1>3 DEF PurgeReplacedTrackers
  <1>4. ASSUME NEW r \in Registrations, SaveRegistration(r)
        PROVE  (PaidIsOffered /\ HandlersArePaid)'
    BY <1>4 DEF SaveRegistration
  <1>5. ASSUME NEW r \in Registrations, LinkSession(r) PROVE (PaidIsOffered /\ HandlersArePaid)'
    BY <1>5 DEF LinkSession
  <1>6. ASSUME NEW r \in Registrations, FinishInitiate(r)
        PROVE  (PaidIsOffered /\ HandlersArePaid)'
    BY <1>6 DEF FinishInitiate
  <1>7. ASSUME NEW r \in Registrations, Rollback(r) PROVE (PaidIsOffered /\ HandlersArePaid)'
    BY <1>7 DEF Rollback
  <1>8. ASSUME NEW r \in Registrations, WindowPasses(r) PROVE (PaidIsOffered /\ HandlersArePaid)'
    BY <1>8 DEF WindowPasses
  <1>9. ASSUME NEW p \in Installments, NEW r \in Registrations, NEW a \in Amounts,
               MakePayment(p, r, a)
        PROVE  (PaidIsOffered /\ HandlersArePaid)'
    BY <1>9 DEF MakePayment
  <1>10. ASSUME NEW p \in Payments, CreateSession(p) PROVE (PaidIsOffered /\ HandlersArePaid)'
    BY <1>10 DEF CreateSession
  <1>11. ASSUME NEW p \in Payments, SaveTracker(p) PROVE (PaidIsOffered /\ HandlersArePaid)'
    BY <1>11 DEF SaveTracker
  <1>12. ASSUME NEW p \in Payments, RequestFails(p) PROVE (PaidIsOffered /\ HandlersArePaid)'
    BY <1>12 DEF RequestFails
  <1>13. ASSUME NEW p \in Payments, Pay(p) PROVE (PaidIsOffered /\ HandlersArePaid)'
    BY <1>13 DEF Pay
  <1>14. ASSUME NEW p \in Payments, SessionExpires(p) PROVE (PaidIsOffered /\ HandlersArePaid)'
    BY <1>14 DEF SessionExpires
  <1>15. ASSUME NEW h \in Handlers, BeginHandler(h) PROVE (PaidIsOffered /\ HandlersArePaid)'
    BY <1>15 DEF BeginHandler
  <1>16. ASSUME NEW h \in Handlers, FindTracker(h) PROVE (PaidIsOffered /\ HandlersArePaid)'
    BY <1>16 DEF FindTracker
  <1>17. ASSUME NEW h \in Handlers, CompleteTracker(h) PROVE (PaidIsOffered /\ HandlersArePaid)'
    BY <1>17 DEF CompleteTracker
  <1>18. ASSUME NEW h \in Handlers, LoadRegistration(h) PROVE (PaidIsOffered /\ HandlersArePaid)'
    BY <1>18 DEF LoadRegistration
  <1>19. ASSUME NEW h \in Handlers, ApplyPayment(h) PROVE (PaidIsOffered /\ HandlersArePaid)'
    BY <1>19 DEF ApplyPayment
  <1>20. ASSUME NEW h \in Handlers, Confirm(h) PROVE (PaidIsOffered /\ HandlersArePaid)'
    BY <1>20 DEF Confirm
  <1>21. ASSUME NEW h \in Handlers, HandlerFails(h) PROVE (PaidIsOffered /\ HandlersArePaid)'
    BY <1>21 DEF HandlerFails, Busy, HandlerBusy
  <1>22. CASE \E c \in Cleaners : FindAbandoned(c)
    BY <1>22 DEF FindAbandoned, CleanerGoto
  <1>23. CASE \E c \in Cleaners : PurgeAbandonedTrackers(c)
    BY <1>23 DEF PurgeAbandonedTrackers, CleanerGoto
  <1>24. CASE \E c \in Cleaners : DeleteAbandoned(c)
    BY <1>24 DEF DeleteAbandoned, EndCleanup, CleanerGoto
  <1>25. CASE \E c \in Cleaners : CleanupFails(c)
    BY <1>25 DEF CleanupFails, EndCleanup, CleanerGoto
  <1>26. CASE Crash
    BY <1>26 DEF Crash, Busy, HandlerBusy
  <1>27. CASE UNCHANGED vars
    BY <1>27 DEF vars
  <1> QED
    BY <1>1, <1>2, <1>3, <1>4, <1>5, <1>6, <1>7, <1>8, <1>9, <1>10, <1>11, <1>12, <1>13, <1>14,
       <1>15, <1>16, <1>17, <1>18, <1>19, <1>20, <1>21, <1>22, <1>23, <1>24, <1>25, <1>26, <1>27
       DEF Next, InitiateStep, HandlerStep, Cleanup

\* makePayment accepts live registrations only, and those are saved.
LEMMA NextTargets ==
  TypeOK /\ BlankBeforeSave /\ TargetsAreSaved /\ [Next]_vars => TargetsAreSaved'
  <1> SUFFICES ASSUME TypeOK, BlankBeforeSave, TargetsAreSaved, [Next]_vars,
                      NEW i \in Installments, pc'[i] # "idle"
               PROVE  Saved(target[i])'
    BY DEF TargetsAreSaved
  <1>1. CASE pc[i] # "idle" /\ target'[i] = target[i]
    BY <1>1, SavedIsStable DEF TargetsAreSaved, TypeOK
  <1>2. CASE \E r \in Registrations, a \in Amounts : MakePayment(i, r, a)
    BY <1>2, NamesAssumption DEF MakePayment, BlankBeforeSave, Saved, Goto, TypeOK, Payments
  <1>3. \/ pc[i] # "idle" /\ target'[i] = target[i]
        \/ \E r \in Registrations, a \in Amounts : MakePayment(i, r, a)
    <2> USE NamesAssumption DEF TypeOK, Goto, Payments
    <2> DEFINE G == \/ pc[i] # "idle" /\ target'[i] = target[i]
                    \/ \E r \in Registrations, a \in Amounts : MakePayment(i, r, a)
    <2>1. ASSUME NEW r \in Registrations, NEW a \in Amounts, InitiatePartialPayment(r, a) PROVE G
      BY <2>1 DEF InitiatePartialPayment
    <2>2. ASSUME NEW r \in Registrations, ReplaceRegistration(r) PROVE G
      BY <2>2 DEF ReplaceRegistration
    <2>3. ASSUME NEW r \in Registrations, PurgeReplacedTrackers(r) PROVE G
      BY <2>3 DEF PurgeReplacedTrackers
    <2>4. ASSUME NEW r \in Registrations, SaveRegistration(r) PROVE G
      BY <2>4 DEF SaveRegistration
    <2>5. ASSUME NEW r \in Registrations, LinkSession(r) PROVE G
      BY <2>5 DEF LinkSession
    <2>6. ASSUME NEW r \in Registrations, FinishInitiate(r) PROVE G
      BY <2>6 DEF FinishInitiate
    <2>7. ASSUME NEW r \in Registrations, Rollback(r) PROVE G
      BY <2>7 DEF Rollback
    <2>8. ASSUME NEW r \in Registrations, WindowPasses(r) PROVE G
      BY <2>8 DEF WindowPasses
    <2>9. ASSUME NEW p \in Installments, NEW r \in Registrations, NEW a \in Amounts,
               MakePayment(p, r, a)
          PROVE  G
      BY <2>9 DEF MakePayment
    <2>10. ASSUME NEW p \in Payments, CreateSession(p) PROVE G
      BY <2>10 DEF CreateSession
    <2>11. ASSUME NEW p \in Payments, SaveTracker(p) PROVE G
      BY <2>11 DEF SaveTracker
    <2>12. ASSUME NEW p \in Payments, RequestFails(p) PROVE G
      BY <2>12 DEF RequestFails
    <2>13. ASSUME NEW p \in Payments, Pay(p) PROVE G
      BY <2>13 DEF Pay
    <2>14. ASSUME NEW p \in Payments, SessionExpires(p) PROVE G
      BY <2>14 DEF SessionExpires
    <2>15. ASSUME NEW h \in Handlers, BeginHandler(h) PROVE G
      BY <2>15 DEF BeginHandler
    <2>16. ASSUME NEW h \in Handlers, FindTracker(h) PROVE G
      BY <2>16 DEF FindTracker
    <2>17. ASSUME NEW h \in Handlers, CompleteTracker(h) PROVE G
      BY <2>17 DEF CompleteTracker
    <2>18. ASSUME NEW h \in Handlers, LoadRegistration(h) PROVE G
      BY <2>18 DEF LoadRegistration
    <2>19. ASSUME NEW h \in Handlers, ApplyPayment(h) PROVE G
      BY <2>19 DEF ApplyPayment
    <2>20. ASSUME NEW h \in Handlers, Confirm(h) PROVE G
      BY <2>20 DEF Confirm
    <2>21. ASSUME NEW h \in Handlers, HandlerFails(h) PROVE G
      BY <2>21 DEF HandlerFails
    <2>22. CASE \E c \in Cleaners : FindAbandoned(c)
      BY <2>22 DEF FindAbandoned, CleanerGoto
    <2>23. CASE \E c \in Cleaners : PurgeAbandonedTrackers(c)
      BY <2>23 DEF PurgeAbandonedTrackers, CleanerGoto
    <2>24. CASE \E c \in Cleaners : DeleteAbandoned(c)
      BY <2>24 DEF DeleteAbandoned, EndCleanup, CleanerGoto
    <2>25. CASE \E c \in Cleaners : CleanupFails(c)
      BY <2>25 DEF CleanupFails, EndCleanup, CleanerGoto
    <2>26. CASE Crash
      BY <2>26 DEF Crash, Busy
    <2>27. CASE UNCHANGED vars
      BY <2>27 DEF vars
    <2> QED
      BY <2>1, <2>2, <2>3, <2>4, <2>5, <2>6, <2>7, <2>8, <2>9, <2>10, <2>11, <2>12, <2>13, <2>14,
         <2>15, <2>16, <2>17, <2>18, <2>19, <2>20, <2>21, <2>22, <2>23, <2>24, <2>25, <2>26,
         <2>27
         DEF Next, InitiateStep, HandlerStep, Cleanup
  <1> QED
    BY <1>1, <1>2, <1>3

-----------------------------------------------------------------------------
\* A step that touches no money: no total, entry or commission is written, and
\* every copy still in use was in use before.
QuietForRegistrations ==
    /\ UNCHANGED <<credited, commissions>>
    /\ \A r \in Registrations :
          /\ reg'[r].live => reg[r].live
          /\ reg'[r].totalAmount = reg[r].totalAmount
          /\ reg'[r].referred = reg[r].referred
          /\ reg'[r].totalPaid = reg[r].totalPaid
          /\ reg'[r].isFullyPaid = reg[r].isFullyPaid

QuietForCopies ==
    \A h \in Handlers :
        hpc'[h] \in {"apply", "confirm"} =>
            /\ hpc[h] \in {"apply", "confirm"}
            /\ doc'[h] = doc[h]
            /\ RegistrationOf(h[1])' = RegistrationOf(h[1])

Quiet == QuietForRegistrations /\ QuietForCopies

QuietAction ==
    \/ \E r \in Registrations, a \in Amounts : InitiatePartialPayment(r, a)
    \/ \E r \in Registrations :
          \/ ReplaceRegistration(r) \/ PurgeReplacedTrackers(r) \/ LinkSession(r)
          \/ FinishInitiate(r) \/ Rollback(r) \/ WindowPasses(r)
    \/ \E p \in Installments, r \in Registrations, a \in Amounts : MakePayment(p, r, a)
    \/ \E p \in Payments :
          CreateSession(p) \/ SaveTracker(p) \/ RequestFails(p) \/ Pay(p) \/ SessionExpires(p)
    \/ \E h \in Handlers :
          BeginHandler(h) \/ FindTracker(h) \/ CompleteTracker(h) \/ HandlerFails(h)
    \/ (\E c \in Cleaners : Cleanup(c) \/ CleanupFails(c)) \/ Crash
    \/ UNCHANGED vars

\* All actions but four touch no money.
LEMMA QuietActionIsQuiet ==
  ASSUME TypeOK, Wiring, QuietAction
  PROVE  Quiet
  <1> USE NamesAssumption
      DEF TypeOK, Quiet, QuietForRegistrations, QuietForCopies, RegistrationOf, Goto, HandlerGoto,
          Drop, Payments, Handlers
  <1>1. ASSUME NEW r \in Registrations, NEW a \in Amounts, InitiatePartialPayment(r, a)
        PROVE  Quiet
    BY <1>1 DEF InitiatePartialPayment
  <1>2. ASSUME NEW r \in Registrations, ReplaceRegistration(r) PROVE Quiet
    BY <1>2, DeleteEffect DEF ReplaceRegistration
  <1>3. ASSUME NEW r \in Registrations, PurgeReplacedTrackers(r) PROVE Quiet
    BY <1>3 DEF PurgeReplacedTrackers
  <1>4. ASSUME NEW r \in Registrations, LinkSession(r) PROVE Quiet
    BY <1>4 DEF LinkSession
  <1>5. ASSUME NEW r \in Registrations, FinishInitiate(r) PROVE Quiet
    BY <1>5 DEF FinishInitiate
  <1>6. ASSUME NEW r \in Registrations, Rollback(r) PROVE Quiet
    BY <1>6, DeleteEffect DEF Rollback
  <1>7. ASSUME NEW r \in Registrations, WindowPasses(r) PROVE Quiet
    BY <1>7 DEF WindowPasses
  <1>8. ASSUME NEW p \in Installments, NEW r \in Registrations, NEW a \in Amounts,
               MakePayment(p, r, a)
        PROVE  Quiet
    BY <1>8, RegistrationOfHandler DEF MakePayment
  <1>9. ASSUME NEW p \in Payments, CreateSession(p) PROVE Quiet
    BY <1>9 DEF CreateSession
  <1>10. ASSUME NEW p \in Payments, SaveTracker(p) PROVE Quiet
    BY <1>10 DEF SaveTracker
  <1>11. ASSUME NEW p \in Payments, RequestFails(p) PROVE Quiet
    BY <1>11 DEF RequestFails
  <1>12. ASSUME NEW p \in Payments, Pay(p) PROVE Quiet
    BY <1>12 DEF Pay
  <1>13. ASSUME NEW p \in Payments, SessionExpires(p) PROVE Quiet
    BY <1>13 DEF SessionExpires
  <1>14. ASSUME NEW h \in Handlers, BeginHandler(h) PROVE Quiet
    BY <1>14 DEF BeginHandler
  <1>15. ASSUME NEW h \in Handlers, FindTracker(h) PROVE Quiet
    BY <1>15 DEF FindTracker
  <1>16. ASSUME NEW h \in Handlers, CompleteTracker(h) PROVE Quiet
    BY <1>16 DEF CompleteTracker
  <1>17. ASSUME NEW h \in Handlers, HandlerFails(h) PROVE Quiet
    BY <1>17 DEF HandlerFails
  <1>18. CASE \E c \in Cleaners : FindAbandoned(c)
    BY <1>18 DEF FindAbandoned, CleanerGoto
  <1>19. CASE \E c \in Cleaners : PurgeAbandonedTrackers(c)
    BY <1>19 DEF PurgeAbandonedTrackers, CleanerGoto
  <1>20. CASE \E c \in Cleaners : DeleteAbandoned(c)
    BY <1>20, DeleteEffect DEF DeleteAbandoned, EndCleanup, CleanerGoto
  <1>21. CASE \E c \in Cleaners : CleanupFails(c)
    BY <1>21 DEF CleanupFails, EndCleanup, CleanerGoto
  <1>22. CASE Crash
    BY <1>22 DEF Crash, HandlerBusy
  <1>23. CASE UNCHANGED vars
    BY <1>23 DEF vars
  <1> QED
    BY <1>1, <1>2, <1>3, <1>4, <1>5, <1>6, <1>7, <1>8, <1>9, <1>10, <1>11, <1>12, <1>13, <1>14,
       <1>15, <1>16, <1>17, <1>18, <1>19, <1>20, <1>21, <1>22, <1>23
       DEF QuietAction, Cleanup

\* A step that touches no money keeps the books.
LEMMA QuietKeepsBooks ==
  ASSUME TypeOK, Wiring, Books, Quiet, [Next]_vars
  PROVE  Books'
  <1> USE DEF Quiet, QuietForRegistrations
  <1>1. BlankBeforeSave'
    BY SavedIsStable DEF Books, BlankBeforeSave
  <1>2. CopiesAreCovered'
    <2> SUFFICES ASSUME NEW h \in Handlers, hpc'[h] \in {"apply", "confirm"}
                 PROVE  CopyIsCovered(h)'
      BY DEF CopiesAreCovered
    <2>1. CopyIsCovered(h)
      BY DEF QuietForCopies, Books, CopiesAreCovered
    <2> QED
      BY <2>1, RegistrationOfHandler DEF QuietForCopies, CopyIsCovered
  <1>3. (TotalsNeverOverstate /\ PaidInFullMeansPaid /\ CommissionNeedsFullPayment)'
    BY DEF Books, TotalsNeverOverstate, PaidInFullMeansPaid, CommissionNeedsFullPayment
  <1> QED
    BY <1>1, <1>2, <1>3 DEF Books

\* A registration is saved while nothing is recorded on it and nobody has a copy.
LEMMA SaveRegistrationKeepsBooks ==
  ASSUME TypeOK, Wiring, Books, NEW q \in Registrations, SaveRegistration(q)
  PROVE  Books'
  <1> USE DEF TypeOK
  <1>1. /\ ~Saved(q)
        /\ credited[q] = 0
        /\ commissions[q] = 0
        /\ Saved(q)'
    BY DEF SaveRegistration, Saved, Books, BlankBeforeSave, Goto, Payments
  <1>2. /\ reg'[q].totalPaid = 0
        /\ reg'[q].isFullyPaid = FALSE
        /\ \A r \in Registrations \ {q} : reg'[r] = reg[r]
        /\ UNCHANGED <<hpc, doc, target, credited, commissions>>
    BY DEF SaveRegistration
  <1>3. BlankBeforeSave'
    BY <1>1, <1>2 DEF SaveRegistration, Books, BlankBeforeSave, Saved, Goto, Payments
  <1>4. CopiesAreCovered'
    <2> SUFFICES ASSUME NEW h \in Handlers, hpc[h] \in {"apply", "confirm"}
                 PROVE  CopyIsCovered(h)'
      BY <1>2 DEF CopiesAreCovered
    <2>1. RegistrationOf(h[1]) \in Registrations \ {q}
      BY <1>1, RegistrationOfHandler
    <2>2. RegistrationOf(h[1])' = RegistrationOf(h[1])
      BY <1>2 DEF RegistrationOf
    <2> QED
      BY <1>2, <2>1, <2>2 DEF Books, CopiesAreCovered, CopyIsCovered
  <1>5. ASSUME NEW r \in Registrations
        PROVE  /\ reg'[r].totalPaid <= credited'[r]
               /\ reg'[r].isFullyPaid => credited'[r] >= reg'[r].totalAmount
               /\ commissions'[r] > 0 => reg'[r].referred /\ credited'[r] >= reg'[r].totalAmount
    <2>1. CASE r = q
      BY <1>1, <1>2, <2>1
    <2>2. CASE r # q
      <3>1. reg'[r] = reg[r] /\ credited' = credited /\ commissions' = commissions
        BY <1>2, <2>2
      <3> QED
        BY <3>1
        DEF Books, TotalsNeverOverstate, PaidInFullMeansPaid, CommissionNeedsFullPayment
    <2> QED
      BY <2>1, <2>2
  <1>6. (TotalsNeverOverstate /\ PaidInFullMeansPaid /\ CommissionNeedsFullPayment)'
    BY <1>5 DEF TotalsNeverOverstate, PaidInFullMeansPaid, CommissionNeedsFullPayment
  <1> QED
    BY <1>3, <1>4, <1>6 DEF Books

\* A fresh copy is covered because the document is.
LEMMA LoadRegistrationKeepsBooks ==
  ASSUME TypeOK, Wiring, Books, NEW g \in Handlers, LoadRegistration(g)
  PROVE  Books'
  <1>1. UNCHANGED <<reg, pc, target, credited, commissions>>
    BY DEF LoadRegistration, requestVars
  <1>2. CopiesAreCovered'
    <2> SUFFICES ASSUME NEW h \in Handlers, hpc'[h] \in {"apply", "confirm"}
                 PROVE  CopyIsCovered(h)'
      BY DEF CopiesAreCovered
    <2>1. RegistrationOf(h[1])' = RegistrationOf(h[1])
      BY <1>1 DEF RegistrationOf
    <2>2. CASE h # g
      BY <1>1, <2>1, <2>2
      DEF LoadRegistration, HandlerGoto, TypeOK, Books, CopiesAreCovered, CopyIsCovered
    <2>3. CASE h = g
      <3>1. doc'[h] = TotalsOf(RegistrationOf(h[1])) /\ RegistrationOf(h[1]) \in Registrations
        BY <2>3, RegistrationOfHandler DEF LoadRegistration, HandlerGoto, TypeOK
      <3> QED
        BY <1>1, <2>1, <3>1
        DEF TotalsOf, Books, TotalsNeverOverstate, PaidInFullMeansPaid, CopyIsCovered
    <2> QED
      BY <2>2, <2>3
  <1> QED
    BY <1>1, <1>2
    DEF Books, BlankBeforeSave, Saved, TotalsNeverOverstate, PaidInFullMeansPaid,
        CommissionNeedsFullPayment

\* A handler writes back a copy that may be old: credited has grown by at least
\* what the copy lacks, so the result is covered all the same.
LEMMA ApplyPaymentKeepsBooks ==
  ASSUME TypeOK, AmountsAreNatural, Wiring, Books, NEW g \in Handlers, ApplyPayment(g)
  PROVE  Books'
  <1> DEFINE q == RegistrationOf(g[1])
             a == amount[g[1]]
             t == Paid(q, doc[g], a)
  <1>1. /\ g[1] \in Payments /\ hpc[g] = "apply"
        /\ q \in Registrations /\ Saved(q)
        /\ a \in Nat
        /\ doc[g] \in Totals /\ doc[g].totalPaid \in Int
        /\ CopyIsCovered(g)
    BY RegistrationOfHandler
    DEF ApplyPayment, TypeOK, AmountsAreNatural, Books, CopiesAreCovered, Totals
  <1>2. UNCHANGED <<pc, target, amount, commissions>>
    BY DEF ApplyPayment, requestVars
  <1>3. \A h \in Handlers : RegistrationOf(h[1])' = RegistrationOf(h[1])
    BY <1>2 DEF RegistrationOf
  <1>4. CASE Drop(g, "lost") /\ UNCHANGED <<reg, history, credited>>
    BY <1>2, <1>3, <1>4
    DEF Drop, HandlerGoto, TypeOK, Books, BlankBeforeSave, Saved, CopiesAreCovered, CopyIsCovered,
        TotalsNeverOverstate, PaidInFullMeansPaid, CommissionNeedsFullPayment
  <1>5. CASE /\ reg[q].live
             /\ reg' = [reg EXCEPT ![q] = SavedOver(q, doc[g], t)]
             /\ credited' = [credited EXCEPT ![q] = @ + a]
             /\ doc' = [doc EXCEPT ![g] = t]
             /\ HandlerGoto(g, "confirm")
    <2>1. /\ t \in Totals
          /\ t.totalPaid = doc[g].totalPaid + a
          /\ doc[g].isFullyPaid => t.isFullyPaid
          /\ t.isFullyPaid => doc[g].isFullyPaid \/ reg[q].totalAmount <= t.totalPaid
      BY <1>1, PaidEffect DEF TypeOK
    <2>2. /\ reg'[q].live = reg[q].live
          /\ reg'[q].totalAmount = reg[q].totalAmount
          /\ reg'[q].referred = reg[q].referred
          /\ reg'[q].totalPaid \in {reg[q].totalPaid, t.totalPaid}
          /\ reg'[q].isFullyPaid \in {reg[q].isFullyPaid, t.isFullyPaid}
      <3> HIDE DEF q, t
      <3> DEFINE s == SavedOver(q, doc[g], t)
      <3>1. reg'[q] = s
        BY <1>1, <1>5 DEF TypeOK
      <3>2. /\ s.live = reg[q].live
            /\ s.totalAmount = reg[q].totalAmount
            /\ s.referred = reg[q].referred
            /\ s.totalPaid \in {reg[q].totalPaid, t.totalPaid}
            /\ s.isFullyPaid =
                  IF t.isFullyPaid = doc[g].isFullyPaid THEN reg[q].isFullyPaid ELSE t.isFullyPaid
        BY <1>1, <2>1, SaveEffect DEF TypeOK
      <3> HIDE DEF s
      <3> QED
        BY <3>1, <3>2
    <2>3. \A r \in Registrations \ {q} : reg'[r] = reg[r] /\ credited'[r] = credited[r]
      BY <1>5 DEF TypeOK
    <2>4. /\ credited[q] \in Int /\ reg[q].totalAmount \in Int /\ reg[q].totalPaid \in Int
          /\ credited'[q] = credited[q] + a
      BY <1>1, <1>5 DEF TypeOK, Registration
    <2>5. /\ t.totalPaid <= credited'[q]
          /\ t.isFullyPaid => credited'[q] >= reg[q].totalAmount
      <3> HIDE DEF q, t, a
      <3> QED
        BY <1>1, <2>1, <2>4 DEF CopyIsCovered, q
    <2> HIDE DEF t
    <2>6. BlankBeforeSave'
      BY <1>1, <1>2, <2>3 DEF Books, BlankBeforeSave, Saved
    <2>7. CopiesAreCovered'
      <3> SUFFICES ASSUME NEW h \in Handlers, hpc'[h] \in {"apply", "confirm"}
                   PROVE  CopyIsCovered(h)'
        BY DEF CopiesAreCovered
      <3>1. CASE h = g
        <4>1. doc'[g] = t
          BY <1>5 DEF TypeOK
        <4>2. RegistrationOf(g[1])' = q
          BY <1>3
        <4> HIDE DEF q, a
        <4> QED
          BY <2>2, <2>5, <3>1, <4>1, <4>2 DEF CopyIsCovered
      <3>2. CASE h # g
        <4>1. doc'[h] = doc[h] /\ hpc[h] \in {"apply", "confirm"} /\ CopyIsCovered(h)
          BY <1>5, <3>2 DEF HandlerGoto, TypeOK, Books, CopiesAreCovered
        <4>2. RegistrationOf(h[1]) \in Registrations /\ doc[h].totalPaid \in Int
          BY <4>1, RegistrationOfHandler DEF TypeOK, Totals
        <4> QED
          BY <1>1, <1>3, <2>2, <2>3, <2>4, <4>1, <4>2 DEF CopyIsCovered
      <3> QED
        BY <3>1, <3>2
    <2>8. (TotalsNeverOverstate /\ PaidInFullMeansPaid)'
      BY <1>1, <2>2, <2>3, <2>4, <2>5 DEF Books, TotalsNeverOverstate, PaidInFullMeansPaid
    <2>9. CommissionNeedsFullPayment'
      BY <1>1, <1>2, <2>2, <2>3, <2>4 DEF Books, CommissionNeedsFullPayment
    <2> QED
      BY <2>6, <2>7, <2>8, <2>9 DEF Books
  <1> QED
    BY <1>4, <1>5 DEF ApplyPayment

\* A commission is created from a copy that is covered.
LEMMA ConfirmKeepsBooks ==
  ASSUME TypeOK, Wiring, Books, NEW g \in Handlers, Confirm(g)
  PROVE  Books'
  <1> DEFINE q == RegistrationOf(g[1])
  <1>1. q \in Registrations /\ Saved(q) /\ CopyIsCovered(g)
    BY RegistrationOfHandler DEF Confirm, Books, CopiesAreCovered
  <1>2. UNCHANGED <<reg, pc, target, credited>>
    BY DEF Confirm, requestVars
  <1>3. \/ UNCHANGED commissions
        \/ /\ doc[g].isFullyPaid /\ reg[q].referred
           /\ commissions' = [commissions EXCEPT ![q] = @ + 1]
    BY DEF Confirm
  <1> HIDE DEF q
  <1>4. \A h \in Handlers : RegistrationOf(h[1])' = RegistrationOf(h[1])
    BY <1>2 DEF RegistrationOf
  <1>5. CopiesAreCovered'
    BY <1>2, <1>4
    DEF Confirm, Drop, HandlerGoto, TypeOK, Books, CopiesAreCovered, CopyIsCovered
  <1>6. CommissionNeedsFullPayment'
    BY <1>1, <1>2, <1>3 DEF Books, CommissionNeedsFullPayment, CopyIsCovered, TypeOK, q
  <1>7. BlankBeforeSave'
    BY <1>1, <1>2, <1>3 DEF Books, BlankBeforeSave, Saved, TypeOK
  <1> QED
    BY <1>2, <1>5, <1>6, <1>7 DEF Books, TotalsNeverOverstate, PaidInFullMeansPaid

\* Every step keeps the inductive invariant.
LEMMA NextIInv == IInv /\ [Next]_vars => IInv'
  <1> SUFFICES ASSUME TypeOK, AmountsAreNatural, Wiring, Books, [Next]_vars PROVE IInv'
    BY DEF IInv
  <1>1. TypeOK'
    BY NextTypeOK
  <1>2. AmountsAreNatural'
    BY NextAmounts
  <1>3. Wiring'
    BY NextPayments, NextTargets DEF Wiring, Books
  <1>4. Books'
    <2>1. CASE QuietAction
      BY <2>1, QuietActionIsQuiet, QuietKeepsBooks
    <2>2. ASSUME NEW r \in Registrations, SaveRegistration(r) PROVE Books'
      BY <2>2, SaveRegistrationKeepsBooks
    <2>3. ASSUME NEW h \in Handlers, LoadRegistration(h) PROVE Books'
      BY <2>3, LoadRegistrationKeepsBooks
    <2>4. ASSUME NEW h \in Handlers, ApplyPayment(h) PROVE Books'
      BY <2>4, ApplyPaymentKeepsBooks
    <2>5. ASSUME NEW h \in Handlers, Confirm(h) PROVE Books'
      BY <2>5, ConfirmKeepsBooks
    <2> QED
      BY <2>1, <2>2, <2>3, <2>4, <2>5 DEF Next, InitiateStep, HandlerStep, QuietAction
  <1> QED
    BY <1>1, <1>2, <1>3, <1>4 DEF IInv

-----------------------------------------------------------------------------
\* The inductive invariant holds in every run of the payment flow.
THEOREM Invariance == Spec => []IInv
  BY InitIInv, NextIInv, PTL DEF Spec

\* Every variable of the payment flow keeps its type, and an instalment always
\* belongs to a registration.
THEOREM TypeCorrect == Spec => []TypeOK
  <1>1. IInv => TypeOK
    BY DEF IInv
  <1> QED
    BY <1>1, Invariance, PTL

\* Whatever handlers overlap, fail or are cut off by a crash, totalPaid never
\* exceeds the payments entered in the registration's history.
THEOREM NoInventedMoney == Spec => []TotalsNeverOverstate
  <1>1. IInv => TotalsNeverOverstate
    BY DEF IInv, Books
  <1> QED
    BY <1>1, Invariance, PTL

\* A registration is marked fully paid only if the payments in its history
\* cover its total.
THEOREM FullyPaidIsEarned == Spec => []PaidInFullMeansPaid
  <1>1. IInv => PaidInFullMeansPaid
    BY DEF IInv, Books
  <1> QED
    BY <1>1, Invariance, PTL

\* Commissions are created only for referred registrations whose payments cover
\* the total.
THEOREM CommissionIsEarned == Spec => []CommissionNeedsFullPayment
  <1>1. IInv => CommissionNeedsFullPayment
    BY DEF IInv, Books
  <1> QED
    BY <1>1, Invariance, PTL

\* No step of any request, handler, cron or fault takes the mark off a fully
\* paid registration.
LEMMA MarkIsKept ==
  ASSUME IInv, [Next]_vars, NEW q \in Registrations, reg[q].isFullyPaid
  PROVE  reg'[q].isFullyPaid
  <1> TypeOK /\ Wiring /\ BlankBeforeSave
    BY DEF IInv, Books
  <1>1. CASE QuietAction
    BY <1>1, QuietActionIsQuiet DEF Quiet, QuietForRegistrations
  <1>2. ASSUME NEW r \in Registrations, SaveRegistration(r) PROVE reg'[q].isFullyPaid
    BY <1>2 DEF SaveRegistration, BlankBeforeSave, Saved, TypeOK
  <1>3. ASSUME NEW h \in Handlers, LoadRegistration(h) \/ Confirm(h) PROVE reg'[q].isFullyPaid
    BY <1>3 DEF LoadRegistration, Confirm
  <1>4. ASSUME NEW h \in Handlers, ApplyPayment(h) PROVE reg'[q].isFullyPaid
    <2> DEFINE r == RegistrationOf(h[1])
               t == Paid(r, doc[h], amount[h[1]])
    <2>1. /\ r \in Registrations /\ doc[h] \in Totals
          /\ doc[h].isFullyPaid \in BOOLEAN /\ amount[h[1]] \in Int
      BY <1>4, RegistrationOfHandler DEF ApplyPayment, TypeOK, Totals
    <2>2. /\ t \in Totals /\ t.isFullyPaid \in BOOLEAN
          /\ doc[h].isFullyPaid => t.isFullyPaid
      BY <2>1, PaidEffect DEF TypeOK, Totals
    <2>3. reg[r].isFullyPaid => SavedOver(r, doc[h], t).isFullyPaid
      <3> HIDE DEF r, t
      <3> QED
        BY <2>1, <2>2, SaveEffect DEF TypeOK
    <2>4. UNCHANGED reg \/ reg' = [reg EXCEPT ![r] = SavedOver(r, doc[h], t)]
      BY <1>4 DEF ApplyPayment
    <2> HIDE DEF r, t
    <2> QED
      BY <2>3, <2>4 DEF TypeOK
  <1> QED
    BY <1>1, <1>2, <1>3, <1>4 DEF Next, InitiateStep, HandlerStep, QuietAction

\* Once a registration is marked fully paid it stays so, whatever an older copy
\* of it says.
THEOREM FullyPaidForever == Spec => FullyPaidIsFinal
  <1>1. IInv /\ [Next]_vars =>
           [\A r \in Registrations : reg[r].isFullyPaid => reg'[r].isFullyPaid]_vars
    BY MarkIsKept
  <1> QED
    BY <1>1, Invariance, PTL DEF Spec, FullyPaidIsFinal

=============================================================================
