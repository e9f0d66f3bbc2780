---------------------- MODULE PartialPaymentsLossProofs ----------------------
(***************************************************************************)
(* Three more proofs about PartialPayments, for any registrations,         *)
(* payments, cleanups and prices: a payment is lost only by deletion, what *)
(* is owed can be paid, and the payment histories are true.                *)
(*                                                                         *)
(* A handler gives up when the tracker or the registration is not there.   *)
(* Trackers vanish only with their registration: after it when a customer  *)
(* starts over, before it in a cleanup.  What is gone stays gone, because  *)
(* a registration with payments has been saved and is never saved anew.    *)
(*                                                                         *)
(* An entry of a history was made by a handler past its save, and a        *)
(* handler saves once, so each entry adds its amount to the sum once.      *)
(***************************************************************************)
EXTENDS PartialPaymentsProofs, SumsAndSelections

Condemned(r) == \E c \in Cleaners : cpc[c] = "registrations" /\ r \in doomed[c]

Gone(r) == ~reg[r].live \/ Condemned(r)

\* An initiate that replaces a registration deletes it before its trackers.
Replacing ==
    \A r \in Registrations : pc[r] \in {"replace", "purge"} =>
        /\ target[r] \in Registrations
        /\ Saved(target[r])
        /\ pc[r] = "purge" => ~reg[target[r]].live

\* The tracker of a payment that a customer can make exists, or vanished with
\* its registration.
Tracked ==
    \A p \in Payments :
        pc[p] \in {"plan", "offered"} /\ tracker[p] = "absent" => Gone(RegistrationOf(p))

Lost == \A h \in Handlers : hpc[h] = "lost" => Gone(RegistrationOf(h[1]))

LossInv == IInv /\ Replacing /\ (faults = 0 => Tracked /\ Lost)

\* What is left of a live registration that is not fully paid.
RestIsPositive ==
    \A r \in Registrations :
        reg[r].live /\ ~reg[r].isFullyPaid => reg[r].remainingBalance > 0

\* A copy marked as fully paid was made of a registration so marked.
CopiesAreMarked ==
    \A h \in Handlers :
        hpc[h] \in {"apply", "confirm"} /\ doc[h].isFullyPaid
            => reg[RegistrationOf(h[1])].isFullyPaid

Owed == IInv /\ CopiesAreMarked /\ RestIsPositive

\* The entries of a history were made by handlers of its payments that are past
\* their save.
EntriesAreMade ==
    \A r \in Registrations : \A h \in history[r] :
        hpc[h] \in {"confirm", "done", "dead"} /\ RegistrationOf(h[1]) = r

\* A handler completes the tracker before it looks at the registration.
CompletedBefore ==
    \A h \in Handlers :
        hpc[h] \in {"load", "apply"} \/ (\E r \in Registrations : h \in history[r])
            => tracker[h[1]] = "completed"

AmountOf == [h \in Handlers |-> amount[h[1]]]

\* What was credited is what the entries add up to.
AddsUp ==
    \A r \in Registrations :
        IsFiniteSet(history[r]) /\ credited[r] = SumFunctionOnSet(AmountOf, history[r])

Ledger == IInv /\ EntriesAreMade /\ CompletedBefore /\ AddsUp

USE DEF requestVars, handlerVars, cleanupVars

-----------------------------------------------------------------------------
(***************************************************************************)
(* Who writes what                                                         *)
(***************************************************************************)

\* Registrations are deleted, saved once, or given new totals.
LEMMA RegistrationWrites ==
  ASSUME [Next]_vars
  PROVE  \/ UNCHANGED reg
         \/ \E S : Delete(S)
         \/ \E r \in Registrations : SaveRegistration(r)
         \/ \E h \in Handlers : ApplyPayment(h)
  BY DEF Next, vars, InitiateStep, HandlerStep, Cleanup, InitiatePartialPayment,
         ReplaceRegistration, PurgeReplacedTrackers, LinkSession, FinishInitiate, Rollback,
         WindowPasses, MakePayment, CreateSession, SaveTracker, RequestFails, Pay,
         SessionExpires, BeginHandler, FindTracker, CompleteTracker, LoadRegistration, Confirm,
         HandlerFails, FindAbandoned, PurgeAbandonedTrackers, DeleteAbandoned, CleanupFails,
         Crash

LEMMA TrackerWrites ==
  ASSUME [Next]_vars
  PROVE  \/ UNCHANGED tracker
         \/ \E r \in Registrations : PurgeReplacedTrackers(r)
         \/ \E p \in Payments : SaveTracker(p)
         \/ \E h \in Handlers : CompleteTracker(h)
         \/ \E c \in Cleaners : PurgeAbandonedTrackers(c)
  BY DEF Next, vars, InitiateStep, HandlerStep, Cleanup, InitiatePartialPayment,
         ReplaceRegistration, SaveRegistration, LinkSession, FinishInitiate, Rollback,
         WindowPasses, MakePayment, CreateSession, RequestFails, Pay,
         SessionExpires, BeginHandler, FindTracker, LoadRegistration, ApplyPayment, Confirm,
         HandlerFails, FindAbandoned, DeleteAbandoned, CleanupFails, Crash

LEMMA CleanupWrites ==
  ASSUME [Next]_vars
  PROVE  \/ UNCHANGED <<cpc, doomed>>
         \/ \E c \in Cleaners : Cleanup(c)
         \/ faults' = faults + 1
  BY DEF Next, vars, InitiateStep, HandlerStep, InitiatePartialPayment,
         ReplaceRegistration, PurgeReplacedTrackers, SaveRegistration, LinkSession,
         FinishInitiate, Rollback, WindowPasses, MakePayment, CreateSession, SaveTracker,
         RequestFails, Pay, SessionExpires, BeginHandler, FindTracker, CompleteTracker,
         LoadRegistration, ApplyPayment, Confirm, HandlerFails, CleanupFails, Crash

LEMMA HandlerWrites ==
  ASSUME [Next]_vars
  PROVE  \/ UNCHANGED hpc
         \/ \E h \in Handlers : HandlerStep(h)
         \/ faults' = faults + 1
  BY DEF Next, vars, InitiateStep, Cleanup, InitiatePartialPayment,
         ReplaceRegistration, PurgeReplacedTrackers, SaveRegistration, LinkSession,
         FinishInitiate, Rollback, WindowPasses, MakePayment, CreateSession, SaveTracker,
         RequestFails, Pay, SessionExpires, HandlerFails, FindAbandoned,
         PurgeAbandonedTrackers, DeleteAbandoned, CleanupFails, Crash

\* Requests move by their own steps and by a crash.
LEMMA RequestWrites ==
  ASSUME [Next]_vars
  PROVE  \/ UNCHANGED <<pc, target>>
         \/ \E r \in Registrations, a \in Amounts : InitiatePartialPayment(r, a)
         \/ \E r \in Registrations : InitiateStep(r)
         \/ \E i \in Installments, r \in Registrations, a \in Amounts : MakePayment(i, r, a)
         \/ \E p \in Payments : CreateSession(p) \/ SaveTracker(p) \/ RequestFails(p)
         \/ Crash
  BY DEF Next, vars, HandlerStep, Cleanup, WindowPasses, Pay, SessionExpires, BeginHandler,
         FindTracker, CompleteTracker, LoadRegistration, ApplyPayment, Confirm, HandlerFails,
         FindAbandoned, PurgeAbandonedTrackers, DeleteAbandoned, CleanupFails

\* Without a fault, faults was 0 before.
LEMMA FaultsOnlyGrow ==
  ASSUME TypeOK, [Next]_vars, faults' = 0
  PROVE  faults = 0
  <1>1. UNCHANGED faults \/ faults' = faults + 1
    BY DEF Next, vars, InitiateStep, HandlerStep, Cleanup, InitiatePartialPayment,
           ReplaceRegistration, PurgeReplacedTrackers, SaveRegistration, LinkSession,
           FinishInitiate, Rollback, WindowPasses, MakePayment, CreateSession, SaveTracker,
           RequestFails, Pay, SessionExpires, BeginHandler, FindTracker, CompleteTracker,
           LoadRegistration, ApplyPayment, Confirm, HandlerFails, FindAbandoned,
           PurgeAbandonedTrackers, DeleteAbandoned, CleanupFails, Crash
  <1> QED
    BY <1>1 DEF TypeOK

\* The payment of a request keeps its registration.
LEMMA TargetStays ==
  ASSUME TypeOK, [Next]_vars, NEW p \in Payments, pc[p] # "idle"
  PROVE  RegistrationOf(p)' = RegistrationOf(p)
  <1> USE NamesAssumption DEF TypeOK, RegistrationOf, Payments
  <1>1. ASSUME NEW r \in Registrations, NEW a \in Amounts, InitiatePartialPayment(r, a)
        PROVE  RegistrationOf(p)' = RegistrationOf(p)
    BY <1>1 DEF InitiatePartialPayment
  <1>2. ASSUME NEW r \in Registrations, PurgeReplacedTrackers(r)
        PROVE  RegistrationOf(p)' = RegistrationOf(p)
    BY <1>2 DEF PurgeReplacedTrackers
  <1>3. ASSUME NEW i \in Installments, NEW r \in Registrations, NEW a \in Amounts,
               MakePayment(i, r, a)
        PROVE  RegistrationOf(p)' = RegistrationOf(p)
    BY <1>3 DEF MakePayment
  <1>4. CASE UNCHANGED target
    BY <1>4
  <1> QED
    BY <1>1, <1>2, <1>3, <1>4
    DEF Next, vars, InitiateStep, HandlerStep, Cleanup,
         ReplaceRegistration, SaveRegistration, LinkSession,
         FinishInitiate, Rollback, WindowPasses, CreateSession, SaveTracker,
         RequestFails, Pay, SessionExpires, BeginHandler, FindTracker, CompleteTracker,
         LoadRegistration, ApplyPayment, Confirm, HandlerFails, FindAbandoned,
         PurgeAbandonedTrackers, DeleteAbandoned, CleanupFails, Crash

-----------------------------------------------------------------------------
(***************************************************************************)
(* A payment is lost only by deletion                                      *)
(***************************************************************************)

\* A registration that is saved and deleted is not saved again.
LEMMA DeadStays ==
  ASSUME TypeOK, [Next]_vars, NEW q \in Registrations, Saved(q), ~reg[q].live
  PROVE  ~reg'[q].live
  <1> USE DEF TypeOK
  <1>1. ASSUME NEW S, Delete(S) PROVE ~reg'[q].live
    BY <1>1, DeleteEffect
  <1>2. ASSUME NEW r \in Registrations, SaveRegistration(r) PROVE ~reg'[q].live
    <2>1. r # q
      BY <1>2 DEF SaveRegistration, Saved
    <2> QED
      BY <1>2, <2>1 DEF SaveRegistration
  <1>3. ASSUME NEW h \in Handlers, ApplyPayment(h) PROVE ~reg'[q].live
    <2> DEFINE r == RegistrationOf(h[1])
    <2>1. CASE reg[r].live
      <3>1. r # q
        BY <2>1
      <3> QED
        BY <1>3, <2>1, <3>1 DEF ApplyPayment
    <2>2. CASE ~reg[r].live
      BY <1>3, <2>2 DEF ApplyPayment
    <2> QED
      BY <2>1, <2>2
  <1> QED
    BY <1>1, <1>2, <1>3, RegistrationWrites

\* What is gone stays gone: a cleanup ends by deleting what it has found.
LEMMA GoneStays ==
  ASSUME TypeOK, [Next]_vars, faults' = 0, NEW q \in Registrations, Saved(q), Gone(q)
  PROVE  Gone(q)'
  <1> USE DEF TypeOK, Gone
  <1>1. CASE ~reg[q].live
    BY <1>1, DeadStays
  <1>2. CASE Condemned(q)
    <2> PICK d \in Cleaners : cpc[d] = "registrations" /\ q \in doomed[d]
      BY <1>2 DEF Condemned
    <2>1. CASE UNCHANGED <<cpc, doomed>>
      BY <2>1 DEF Condemned
    <2>2. ASSUME NEW c \in Cleaners, DeleteAbandoned(c) PROVE Gone(q)'
      <3>1. CASE c = d
        <4>1. reg'[q] = [reg[q] EXCEPT !.live = FALSE]
          BY <2>2, <3>1 DEF DeleteAbandoned, Delete
        <4> QED
          BY <4>1 DEF Registration
      <3>2. CASE c # d
        BY <2>2, <3>2 DEF DeleteAbandoned, EndCleanup, CleanerGoto, Condemned
      <3> QED
        BY <3>1, <3>2
    <2>3. ASSUME NEW c \in Cleaners, FindAbandoned(c) \/ PurgeAbandonedTrackers(c)
          PROVE  Gone(q)'
      <3>1. c # d \/ cpc[c] # "registrations"
        BY <2>3 DEF FindAbandoned, PurgeAbandonedTrackers
      <3> QED
        BY <2>3, <3>1 DEF FindAbandoned, PurgeAbandonedTrackers, CleanerGoto, Condemned
    <2> QED
      BY <2>1, <2>2, <2>3, CleanupWrites DEF Cleanup
  <1> QED
    BY <1>1, <1>2

\* An initiate deletes a registration before it looks for its trackers.
LEMMA NextReplacing ==
  ASSUME TypeOK, BlankBeforeSave, Replacing, [Next]_vars
  PROVE  Replacing'
  <1> SUFFICES ASSUME NEW r \in Registrations, pc'[r] \in {"replace", "purge"}
               PROVE  /\ target'[r] \in Registrations
                      /\ Saved(target[r])'
                      /\ pc'[r] = "purge" => ~reg'[target'[r]].live
    BY DEF Replacing
  <1> USE NamesAssumption DEF TypeOK, Payments
  <1>1. CASE \E a \in Amounts : InitiatePartialPayment(r, a)
    <2>1. /\ target'[r] \in Registrations /\ reg[target'[r]].live
          /\ pc'[r] = "replace"
      BY <1>1 DEF InitiatePartialPayment, Goto, Live
    <2>2. Saved(target'[r])
      BY <2>1 DEF BlankBeforeSave
    <2>3. Saved(target[r])'
      BY <2>1, <2>2, SavedIsStable DEF Saved
    <2> QED
      BY <2>1, <2>3
  <1>2. CASE ReplaceRegistration(r)
    <2>1. target' = target /\ target[r] \in Registrations /\ Saved(target[r])
      BY <1>2 DEF ReplaceRegistration, Replacing
    <2>2. reg'[target[r]] = [reg[target[r]] EXCEPT !.live = FALSE]
      BY <1>2, <2>1 DEF ReplaceRegistration, Delete
    <2>3. ~reg'[target[r]].live
      BY <2>1, <2>2 DEF Registration
    <2>4. Saved(target[r])'
      BY <2>1, SavedIsStable DEF Saved
    <2> QED
      BY <2>1, <2>3, <2>4
  <1>3. CASE pc'[r] = pc[r] /\ target'[r] = target[r]
    <2>1. target[r] \in Registrations /\ Saved(target[r])
      BY <1>3 DEF Replacing
    <2>2. Saved(target[r])'
      BY <1>3, <2>1, SavedIsStable DEF Saved
    <2>3. pc[r] = "purge" => ~reg'[target[r]].live
      BY <2>1, DeadStays DEF Replacing
    <2> QED
      BY <1>3, <2>1, <2>2, <2>3
  <1>4. CASE ~(\E a \in Amounts : InitiatePartialPayment(r, a)) /\ ~ReplaceRegistration(r)
    <2> USE <1>4 DEF Goto
    <2>1. ASSUME NEW x \in Registrations, NEW a \in Amounts, InitiatePartialPayment(x, a)
          PROVE  pc'[r] = pc[r] /\ target'[r] = target[r]
      BY <2>1 DEF InitiatePartialPayment
    <2>2. ASSUME NEW x \in Registrations, InitiateStep(x)
          PROVE  pc'[r] = pc[r] /\ target'[r] = target[r]
      BY <2>2 DEF InitiateStep, ReplaceRegistration, PurgeReplacedTrackers, SaveRegistration,
                  LinkSession, FinishInitiate, Rollback
    <2>3. ASSUME NEW i \in Installments, NEW x \in Registrations, NEW a \in Amounts,
                 MakePayment(i, x, a)
          PROVE  pc'[r] = pc[r] /\ target'[r] = target[r]
      BY <2>3 DEF MakePayment
    <2>4. ASSUME NEW p \in Payments, CreateSession(p) \/ SaveTracker(p) \/ RequestFails(p)
          PROVE  pc'[r] = pc[r] /\ target'[r] = target[r]
      BY <2>4 DEF CreateSession, SaveTracker, RequestFails
    <2>5. ASSUME Crash PROVE pc'[r] = pc[r] /\ target'[r] = target[r]
      BY <2>5 DEF Crash
    <2> QED
      BY <1>3, <2>1, <2>2, <2>3, <2>4, <2>5, RequestWrites
  <1> QED
    BY <1>1, <1>2, <1>3, <1>4

\* A request gets to where its payment can be made by saving a tracker.
LEMMA OfferedFrom ==
  ASSUME TypeOK, [Next]_vars, NEW p \in Payments, pc'[p] \in {"plan", "offered"}
  PROVE  pc[p] \in {"plan", "offered"} \/ SaveTracker(p)
  <1> USE DEF TypeOK, Goto, Payments
  <1>1. ASSUME NEW r \in Registrations, NEW a \in Amounts, InitiatePartialPayment(r, a)
        PROVE  pc'[p] = pc[p]
    BY <1>1 DEF InitiatePartialPayment
  <1>2. ASSUME NEW r \in Registrations, InitiateStep(r)
        PROVE  pc[p] \in {"plan", "offered"}
    BY <1>2 DEF InitiateStep, ReplaceRegistration, PurgeReplacedTrackers, SaveRegistration,
                LinkSession, FinishInitiate, Rollback
  <1>3. ASSUME NEW i \in Installments, NEW r \in Registrations, NEW a \in Amounts,
               MakePayment(i, r, a)
        PROVE  pc'[p] = pc[p]
    BY <1>3 DEF MakePayment
  <1>4. ASSUME NEW o \in Payments, CreateSession(o) \/ SaveTracker(o) \/ RequestFails(o)
        PROVE  pc[p] \in {"plan", "offered"} \/ SaveTracker(p)
    BY <1>4 DEF CreateSession, SaveTracker, RequestFails
  <1>5. ASSUME Crash PROVE pc'[p] = pc[p]
    BY <1>5 DEF Crash
  <1> QED
    BY <1>1, <1>2, <1>3, <1>4, <1>5, RequestWrites

\* The registration of a payment under way has been saved.
LEMMA RegistrationOfPayment ==
  ASSUME TypeOK, Wiring, NEW p \in Payments, pc[p] \in {"plan", "offered"}
  PROVE  RegistrationOf(p) \in Registrations /\ Saved(RegistrationOf(p))
  BY DEF TypeOK, Wiring, TargetsAreSaved, RegistrationOf, Saved, Payments

\* A tracker disappears only with its registration.
LEMMA NextTracked ==
  ASSUME TypeOK, Wiring, Replacing, Tracked, [Next]_vars, faults' = 0
  PROVE  Tracked'
  <1> SUFFICES ASSUME NEW p \in Payments, pc'[p] \in {"plan", "offered"},
                      tracker'[p] = "absent"
               PROVE  Gone(RegistrationOf(p))'
    BY DEF Tracked
  <1> USE DEF TypeOK
  <1>1. ~SaveTracker(p)
    BY DEF SaveTracker
  <1>2. pc[p] \in {"plan", "offered"}
    BY <1>1, OfferedFrom
  <1> DEFINE q == RegistrationOf(p)
  <1>3. q \in Registrations /\ Saved(q) /\ RegistrationOf(p)' = q
    BY <1>2, RegistrationOfPayment, TargetStays
  <1>4. CASE tracker[p] = "absent"
    <2>1. Gone(q)
      BY <1>2, <1>4 DEF Tracked
    <2>2. Gone(q)'
      BY <1>3, <2>1, GoneStays
    <2> QED
      BY <1>3, <2>2 DEF Gone, Condemned
  <1>5. CASE tracker[p] # "absent"
    <2>1. ASSUME NEW r \in Registrations, PurgeReplacedTrackers(r)
          PROVE  Gone(RegistrationOf(p))'
      <3>1. q = target[r]
        BY <1>5, <2>1 DEF PurgeReplacedTrackers, DeletePendingTrackers
      <3>2. ~reg'[q].live
        BY <2>1, <3>1 DEF PurgeReplacedTrackers, Replacing
      <3> QED
        BY <1>3, <3>2 DEF Gone
    <2>2. ASSUME NEW c \in Cleaners, PurgeAbandonedTrackers(c)
          PROVE  Gone(RegistrationOf(p))'
      <3>1. q \in doomed[c]
        BY <1>5, <2>2 DEF PurgeAbandonedTrackers, DeletePendingTrackers
      <3>2. cpc'[c] = "registrations" /\ doomed'[c] = doomed[c]
        BY <2>2 DEF PurgeAbandonedTrackers, CleanerGoto
      <3> QED
        BY <1>3, <3>1, <3>2 DEF Gone, Condemned
    <2>3. ASSUME NEW o \in Payments, SaveTracker(o) PROVE FALSE
      BY <1>5, <2>3 DEF SaveTracker
    <2>4. ASSUME NEW h \in Handlers, CompleteTracker(h) PROVE FALSE
      BY <1>5, <2>4 DEF CompleteTracker, Handlers
    <2> QED
      BY <1>5, <2>1, <2>2, <2>3, <2>4, TrackerWrites
  <1> QED
    BY <1>4, <1>5

\* A handler gives up only when its tracker or its registration is gone.
LEMMA NextLost ==
  ASSUME TypeOK, Wiring, Tracked, Lost, [Next]_vars, faults' = 0
  PROVE  Lost'
  <1> SUFFICES ASSUME NEW h \in Handlers, hpc'[h] = "lost"
               PROVE  Gone(RegistrationOf(h[1]))'
    BY DEF Lost
  <1> USE DEF TypeOK
  <1> DEFINE q == RegistrationOf(h[1])
  <1>1. hpc[h] # "idle"
    <2>1. ASSUME NEW g \in Handlers, HandlerStep(g), hpc[h] = "idle" PROVE FALSE
      BY <2>1 DEF HandlerStep, BeginHandler, FindTracker, CompleteTracker, LoadRegistration,
                  ApplyPayment, Confirm, HandlerGoto, Drop
    <2> QED
      BY <2>1, HandlerWrites, FaultsOnlyGrow
  <1>2. /\ h[1] \in Payments /\ pc[h[1]] = "offered"
        /\ q \in Registrations /\ Saved(q)
    BY <1>1, RegistrationOfHandler
  <1>3. RegistrationOf(h[1])' = q
    BY <1>2, TargetStays
  <1>4. Gone(q)
    <2>1. CASE hpc[h] = "lost"
      BY <2>1 DEF Lost
    <2>2. CASE hpc[h] # "lost"
      <3>1. PICK g \in Handlers : HandlerStep(g)
        BY <2>2, HandlerWrites, FaultsOnlyGrow
      <3>2. \/ FindTracker(h) /\ tracker[h[1]] = "absent"
            \/ CompleteTracker(h) /\ tracker[h[1]] = "absent"
            \/ LoadRegistration(h) /\ ~reg[q].live
            \/ ApplyPayment(h) /\ ~reg[q].live
        <4>1. ~BeginHandler(g) /\ ~Confirm(g) /\ g = h
          BY <2>2, <3>1 DEF HandlerStep, BeginHandler, FindTracker, CompleteTracker,
                LoadRegistration, ApplyPayment, Confirm, HandlerGoto, Drop
        <4>2. CASE FindTracker(h) \/ CompleteTracker(h)
          BY <4>2 DEF FindTracker, CompleteTracker, HandlerGoto
        <4>3. CASE LoadRegistration(h) \/ ApplyPayment(h)
          BY <4>3 DEF LoadRegistration, ApplyPayment, HandlerGoto, Drop
        <4> QED
          BY <3>1, <4>1, <4>2, <4>3 DEF HandlerStep
      <3> QED
        BY <1>2, <3>2 DEF Tracked, Gone
    <2> QED
      BY <2>1, <2>2
  <1>5. Gone(q)'
    BY <1>2, <1>3, <1>4, GoneStays
  <1> QED
    BY <1>3, <1>5 DEF Gone, Condemned

LEMMA LossHolds == Spec => []LossInv
  <1>1. Init => LossInv
    BY InitIInv, NamesAssumption
    DEF Init, LossInv, Replacing, Tracked, Lost, Payments
  <1>2. LossInv /\ [Next]_vars => LossInv'
    <2> SUFFICES ASSUME LossInv, [Next]_vars PROVE LossInv'
      OBVIOUS
    <2>1. IInv /\ TypeOK /\ Wiring /\ BlankBeforeSave /\ Replacing
      BY DEF LossInv, IInv, Books
    <2>2. IInv' /\ Replacing'
      BY <2>1, NextIInv, NextReplacing
    <2>3. ASSUME faults' = 0 PROVE Tracked' /\ Lost'
      <3>1. Tracked /\ Lost
        BY <2>1, <2>3, FaultsOnlyGrow DEF LossInv
      <3> QED
        BY <2>1, <2>3, <3>1, NextTracked, NextLost
    <2> QED
      BY <2>2, <2>3 DEF LossInv
  <1> QED
    BY <1>1, <1>2, PTL DEF Spec

\* Without a crash or a database error, whatever handlers, customers and
\* cleanups do in whatever order, a payment that was made goes unrecorded only
\* because its registration is deleted or condemned.
THEOREM LostByDeletion == Spec => []LossIsDeletion
  <1>1. LossInv => LossIsDeletion
    BY DEF LossInv, Lost, Gone, Condemned, LossIsDeletion
  <1> QED
    BY <1>1, LossHolds, PTL

-----------------------------------------------------------------------------
(***************************************************************************)
(* What is owed can be paid                                                *)
(***************************************************************************)

\* What a handler saves from its copy, and the mark and rest it leaves.
LEMMA SavedTotals ==
  ASSUME IInv, CopiesAreMarked, NEW h \in Handlers, ApplyPayment(h),
         reg[RegistrationOf(h[1])].live
  PROVE  LET q == RegistrationOf(h[1])
         IN /\ q \in Registrations
            /\ \A r \in Registrations \ {q} : reg'[r] = reg[r]
            /\ doc'[h].isFullyPaid => reg'[q].isFullyPaid
            /\ ~reg'[q].isFullyPaid =>
                  /\ ~reg[q].isFullyPaid
                  /\ reg'[q].remainingBalance > 0 \/
                     reg'[q].remainingBalance = reg[q].remainingBalance
  <1> DEFINE q == RegistrationOf(h[1])
             a == amount[h[1]]
             t == Paid(q, doc[h], a)
             s == SavedOver(q, doc[h], t)
  <1>1. TypeOK /\ Wiring
    BY DEF IInv
  <1>2. /\ hpc[h] = "apply"
        /\ reg' = [reg EXCEPT ![q] = s]
        /\ doc' = [doc EXCEPT ![h] = t]
    BY DEF ApplyPayment
  <1>3. /\ q \in Registrations /\ h[1] \in Payments
        /\ reg[q] \in Registration /\ doc[h] \in Totals /\ a \in Int
    BY <1>1, <1>2, RegistrationOfHandler DEF TypeOK
  <1>4. reg'[q] = s /\ doc'[h] = t /\ \A r \in Registrations \ {q} : reg'[r] = reg[r]
    BY <1>1, <1>2, <1>3 DEF TypeOK
  <1>5. doc[h].isFullyPaid => reg[q].isFullyPaid
    BY <1>2 DEF CopiesAreMarked
  <1>6. /\ t \in Totals
        /\ doc[h].isFullyPaid => t.isFullyPaid
        /\ ~t.isFullyPaid => t.remainingBalance > 0
    BY <1>3 DEF Paid, Totals, Registration
  <1>7. /\ s.isFullyPaid =
              IF t.isFullyPaid = doc[h].isFullyPaid THEN reg[q].isFullyPaid
              ELSE t.isFullyPaid
        /\ s.remainingBalance \in {reg[q].remainingBalance, t.remainingBalance}
    <2> HIDE DEF t
    <2> QED
      BY <1>3 DEF SavedOver, Registration
  <1>8. /\ t.isFullyPaid => s.isFullyPaid
        /\ ~s.isFullyPaid => ~t.isFullyPaid /\ ~reg[q].isFullyPaid
    <2>1. /\ t.isFullyPaid \in BOOLEAN /\ doc[h].isFullyPaid \in BOOLEAN
          /\ reg[q].isFullyPaid \in BOOLEAN
      BY <1>3, <1>6 DEF Totals, Registration
    <2> HIDE DEF s, t, q
    <2> QED
      BY <2>1, <1>5, <1>6, <1>7
  <1> HIDE DEF s, t
  <1> QED
    BY <1>3, <1>4, <1>6, <1>7, <1>8

\* A handler's copy comes from loading the registration or from its own save.
LEMMA CopyFrom ==
  ASSUME TypeOK, [Next]_vars, NEW h \in Handlers, hpc'[h] \in {"apply", "confirm"}
  PROVE  \/ LoadRegistration(h)
         \/ ApplyPayment(h)
         \/ hpc[h] \in {"apply", "confirm"} /\ doc'[h] = doc[h]
  <1> USE DEF TypeOK, HandlerGoto, Drop
  <1>1. ASSUME NEW g \in Handlers, HandlerStep(g) \/ HandlerFails(g)
        PROVE  \/ LoadRegistration(h)
               \/ ApplyPayment(h)
               \/ hpc[h] \in {"apply", "confirm"} /\ doc'[h] = doc[h]
    BY <1>1 DEF HandlerStep, HandlerFails, BeginHandler, FindTracker, CompleteTracker,
                LoadRegistration, ApplyPayment, Confirm
  <1>2. ASSUME Crash PROVE FALSE
    BY <1>2 DEF Crash, HandlerBusy
  <1>3. CASE UNCHANGED <<hpc, doc>>
    BY <1>3
  <1> QED
    BY <1>1, <1>2, <1>3
    DEF Next, vars, InitiateStep, Cleanup, InitiatePartialPayment, ReplaceRegistration,
        PurgeReplacedTrackers, SaveRegistration, LinkSession, FinishInitiate, Rollback,
        WindowPasses, MakePayment, CreateSession, SaveTracker, RequestFails, Pay,
        SessionExpires, FindAbandoned, PurgeAbandonedTrackers, DeleteAbandoned, CleanupFails

\* Copies stay behind the registration as far as the mark goes.
LEMMA NextCopiesAreMarked ==
  ASSUME IInv, CopiesAreMarked, [Next]_vars
  PROVE  CopiesAreMarked'
  <1> SUFFICES ASSUME NEW h \in Handlers, hpc'[h] \in {"apply", "confirm"},
                      doc'[h].isFullyPaid
               PROVE  (reg[RegistrationOf(h[1])].isFullyPaid)'
    BY DEF CopiesAreMarked
  <1>1. TypeOK /\ Wiring
    BY DEF IInv
  <1> DEFINE q == RegistrationOf(h[1])
  <1>2. hpc[h] # "idle"
    BY <1>1, CopyFrom DEF LoadRegistration, ApplyPayment
  <1>3. q \in Registrations /\ RegistrationOf(h[1])' = q
    BY <1>1, <1>2, RegistrationOfHandler, TargetStays
  <1>4. reg'[q].isFullyPaid
    <2>1. CASE LoadRegistration(h)
      BY <1>1, <2>1 DEF LoadRegistration, HandlerGoto, TotalsOf, TypeOK
    <2>2. CASE ApplyPayment(h)
      <3>1. reg[q].live
        BY <1>1, <2>2 DEF ApplyPayment, Drop, HandlerGoto, TypeOK
      <3> QED
        BY <2>2, <3>1, SavedTotals
    <2>3. CASE hpc[h] \in {"apply", "confirm"} /\ doc'[h] = doc[h]
      <3>1. reg[q].isFullyPaid
        BY <2>3 DEF CopiesAreMarked
      <3> QED
        BY <1>3, <3>1, MarkIsKept
    <2> QED
      BY <1>1, <2>1, <2>2, <2>3, CopyFrom
  <1> QED
    BY <1>3, <1>4

\* Whatever is written leaves a registration fully paid or something to pay.
LEMMA NextRestIsPositive ==
  ASSUME Price > 0, DiscountedPrice > 0,
         IInv, CopiesAreMarked, RestIsPositive, [Next]_vars
  PROVE  RestIsPositive'
  <1> SUFFICES ASSUME NEW r \in Registrations, reg'[r].live, ~reg'[r].isFullyPaid
               PROVE  reg'[r].remainingBalance > 0
    BY DEF RestIsPositive
  <1>1. TypeOK
    BY DEF IInv
  <1>2. CASE UNCHANGED reg
    BY <1>2 DEF RestIsPositive
  <1>3. ASSUME NEW S, Delete(S) PROVE reg'[r].remainingBalance > 0
    <2>1. reg'[r] = reg[r] \/ reg'[r] = [reg[r] EXCEPT !.live = FALSE]
      BY <1>3 DEF Delete
    <2>2. reg'[r] = reg[r]
      BY <1>1, <2>1 DEF TypeOK, Registration
    <2> QED
      BY <2>2 DEF RestIsPositive
  <1>4. ASSUME NEW x \in Registrations, SaveRegistration(x)
        PROVE  reg'[r].remainingBalance > 0
    BY <1>1, <1>4, PricesAssumption DEF SaveRegistration, TypeOK, RestIsPositive
  <1>5. ASSUME NEW h \in Handlers, ApplyPayment(h)
        PROVE  reg'[r].remainingBalance > 0
    <2> DEFINE q == RegistrationOf(h[1])
    <2>1. CASE ~reg[q].live
      BY <1>5, <2>1 DEF ApplyPayment, RestIsPositive
    <2>2. CASE reg[q].live /\ r # q
      BY <1>5, <2>2, SavedTotals DEF RestIsPositive
    <2>3. CASE reg[q].live /\ r = q
      BY <1>5, <2>3, SavedTotals DEF RestIsPositive
    <2> QED
      BY <2>1, <2>2, <2>3
  <1> QED
    BY <1>2, <1>3, <1>4, <1>5, RegistrationWrites

\* When the prices are positive, a registration that is not fully paid can be
\* paid: at any moment makePayment accepts the rest, even one below its minimum.
THEOREM OwedIsPayable ==
  ASSUME Price > 0, DiscountedPrice > 0
  PROVE  Spec => []UnpaidCanBePaid
  <1>1. Init => Owed
    BY InitIInv DEF Init, Owed, CopiesAreMarked, RestIsPositive, NoDocument
  <1>2. Owed /\ [Next]_vars => Owed'
    BY NextIInv, NextCopiesAreMarked, NextRestIsPositive DEF Owed
  <1>3. Owed => UnpaidCanBePaid
    <2> SUFFICES ASSUME Owed, NEW r \in Registrations, reg[r].live, ~reg[r].isFullyPaid
                 PROVE  \E a \in 1 .. reg[r].remainingBalance : AllowedAmount(r, a)
      BY DEF UnpaidCanBePaid
    <2> DEFINE rest == reg[r].remainingBalance
    <2>1. rest \in 1 .. rest
      BY DEF Owed, IInv, TypeOK, Registration, RestIsPositive
    <2>2. AllowedAmount(r, rest)
      BY <2>1, PricesAssumption DEF AllowedAmount
    <2> QED
      BY <2>1, <2>2
  <1> QED
    BY <1>1, <1>2, <1>3, PTL DEF Spec

-----------------------------------------------------------------------------
(***************************************************************************)
(* The payment histories are true                                          *)
(***************************************************************************)

\* Only the save of a handler enters a payment.
LEMMA LedgerWrites ==
  ASSUME [Next]_vars
  PROVE  UNCHANGED <<history, credited>> \/ \E h \in Handlers : ApplyPayment(h)
  BY DEF Next, vars, InitiateStep, HandlerStep, Cleanup, InitiatePartialPayment,
         ReplaceRegistration, PurgeReplacedTrackers, SaveRegistration, LinkSession,
         FinishInitiate, Rollback, WindowPasses, MakePayment, CreateSession, SaveTracker,
         RequestFails, Pay, SessionExpires, BeginHandler, FindTracker, CompleteTracker,
         LoadRegistration, Confirm, HandlerFails, FindAbandoned, PurgeAbandonedTrackers,
         DeleteAbandoned, CleanupFails, Crash

\* What a save enters, and on which registration.
LEMMA ApplyEffect ==
  ASSUME IInv, NEW h \in Handlers, ApplyPayment(h)
  PROVE  LET q == RegistrationOf(h[1])
         IN /\ hpc[h] = "apply" /\ q \in Registrations
            /\ amount' = amount
            /\ \A r \in Registrations \ {q} :
                  history'[r] = history[r] /\ credited'[r] = credited[r]
            /\ \/ /\ history'[q] = history[q] \cup {h}
                  /\ credited'[q] = credited[q] + amount[h[1]]
                  /\ hpc'[h] = "confirm"
               \/ history'[q] = history[q] /\ credited'[q] = credited[q]
  <1> DEFINE q == RegistrationOf(h[1])
  <1>1. TypeOK /\ Wiring
    BY DEF IInv
  <1>2. hpc[h] = "apply" /\ amount' = amount
    BY DEF ApplyPayment
  <1>3. q \in Registrations
    BY <1>1, <1>2, RegistrationOfHandler
  <1>4. CASE reg[q].live
    <2>1. /\ history' = [history EXCEPT ![q] = @ \cup {h}]
          /\ credited' = [credited EXCEPT ![q] = @ + amount[h[1]]]
          /\ hpc' = [hpc EXCEPT ![h] = "confirm"]
      BY <1>4 DEF ApplyPayment, HandlerGoto
    <2>2. /\ \A r \in Registrations \ {q} :
                history'[r] = history[r] /\ credited'[r] = credited[r]
          /\ history'[q] = history[q] \cup {h}
          /\ credited'[q] = credited[q] + amount[h[1]]
          /\ hpc'[h] = "confirm"
      <3> HIDE DEF q
      <3> QED
        BY <1>1, <1>3, <2>1 DEF TypeOK
    <2> QED
      BY <1>2, <1>3, <2>2
  <1>5. CASE ~reg[q].live
    <2>1. history' = history /\ credited' = credited
      BY <1>5 DEF ApplyPayment
    <2> QED
      BY <1>2, <1>3, <2>1
  <1> QED
    BY <1>4, <1>5

\* The amount of a payment is fixed when it is asked for.
LEMMA AmountStays ==
  ASSUME TypeOK, [Next]_vars, NEW p \in Payments, pc[p] # "idle"
  PROVE  amount'[p] = amount[p]
  <1> USE DEF TypeOK, Payments
  <1>1. ASSUME NEW r \in Registrations, NEW a \in Amounts, InitiatePartialPayment(r, a)
        PROVE  amount'[p] = amount[p]
    BY <1>1 DEF InitiatePartialPayment
  <1>2. ASSUME NEW i \in Installments, NEW r \in Registrations, NEW a \in Amounts,
               MakePayment(i, r, a)
        PROVE  amount'[p] = amount[p]
    BY <1>2 DEF MakePayment
  <1>3. CASE UNCHANGED amount
    BY <1>3
  <1> QED
    BY <1>1, <1>2, <1>3
    DEF Next, vars, InitiateStep, HandlerStep, Cleanup,
         ReplaceRegistration, PurgeReplacedTrackers, SaveRegistration, LinkSession,
         FinishInitiate, Rollback, WindowPasses, CreateSession, SaveTracker,
         RequestFails, Pay, SessionExpires, BeginHandler, FindTracker, CompleteTracker,
         LoadRegistration, ApplyPayment, Confirm, HandlerFails, FindAbandoned,
         PurgeAbandonedTrackers, DeleteAbandoned, CleanupFails, Crash

\* How a handler moves that has entered its payment, or is about to.
LEMMA HandlerMoves ==
  ASSUME TypeOK, [Next]_vars, NEW h \in Handlers
  PROVE  /\ hpc[h] \in {"confirm", "done", "dead"} => hpc'[h] \in {"confirm", "done", "dead"}
         /\ hpc'[h] = "load" => hpc[h] = "load" \/ CompleteTracker(h)
         /\ hpc'[h] = "apply" => hpc[h] \in {"load", "apply"}
  <1> DEFINE Moves == /\ hpc[h] \in {"confirm", "done", "dead"}
                            => hpc'[h] \in {"confirm", "done", "dead"}
                      /\ hpc'[h] = "load" => hpc[h] = "load" \/ CompleteTracker(h)
                      /\ hpc'[h] = "apply" => hpc[h] \in {"load", "apply"}
  <1> USE DEF TypeOK, HandlerGoto, Drop
  <1>1. ASSUME NEW g \in Handlers, HandlerStep(g) PROVE Moves
    <2>1. CASE g = h
      BY <1>1, <2>1 DEF HandlerStep, BeginHandler, FindTracker, CompleteTracker,
                        LoadRegistration, ApplyPayment, Confirm
    <2>2. CASE g # h
      <3>1. hpc'[h] = hpc[h]
        BY <1>1, <2>2 DEF HandlerStep, BeginHandler, FindTracker, CompleteTracker,
                          LoadRegistration, ApplyPayment, Confirm
      <3> QED
        BY <3>1
    <2> QED
      BY <2>1, <2>2
  <1>2. ASSUME NEW g \in Handlers, HandlerFails(g) PROVE Moves
    BY <1>2 DEF HandlerFails
  <1>3. ASSUME Crash PROVE Moves
    BY <1>3 DEF Crash, HandlerBusy
  <1>4. CASE UNCHANGED hpc
    BY <1>4
  <1> QED
    BY <1>1, <1>2, <1>3, <1>4
    DEF Next, vars, InitiateStep, Cleanup, InitiatePartialPayment,
         ReplaceRegistration, PurgeReplacedTrackers, SaveRegistration, LinkSession,
         FinishInitiate, Rollback, WindowPasses, MakePayment, CreateSession, SaveTracker,
         RequestFails, Pay, SessionExpires, FindAbandoned, PurgeAbandonedTrackers,
         DeleteAbandoned, CleanupFails

\* Nothing takes back that a payment is completed.
LEMMA CompletedStays ==
  ASSUME TypeOK, [Next]_vars, NEW p \in Payments, pc[p] = "offered", tracker[p] = "completed"
  PROVE  tracker'[p] = "completed"
  <1> USE DEF TypeOK
  <1>1. ASSUME NEW S, DeletePendingTrackers(S) PROVE tracker'[p] = "completed"
    BY <1>1 DEF DeletePendingTrackers
  <1>2. ASSUME NEW o \in Payments, SaveTracker(o) PROVE tracker'[p] = "completed"
    BY <1>2 DEF SaveTracker
  <1>3. ASSUME NEW h \in Handlers, CompleteTracker(h) PROVE tracker'[p] = "completed"
    BY <1>3 DEF CompleteTracker
  <1> QED
    BY <1>1, <1>2, <1>3, TrackerWrites DEF PurgeReplacedTrackers, PurgeAbandonedTrackers

\* An entry of the next state is an old one or the one being saved.
LEMMA EntryFrom ==
  ASSUME IInv, [Next]_vars, NEW r \in Registrations, NEW h \in history'[r]
  PROVE  /\ h \in Handlers
         /\ h \in history[r] \/ (ApplyPayment(h) /\ RegistrationOf(h[1]) = r /\ hpc'[h] = "confirm")
  <1>1. TypeOK
    BY DEF IInv
  <1>2. ASSUME NEW g \in Handlers, ApplyPayment(g)
        PROVE  h \in history[r]
               \/ (ApplyPayment(h) /\ RegistrationOf(h[1]) = r /\ hpc'[h] = "confirm")
    BY <1>2, ApplyEffect
  <1>3. h \in history[r]
        \/ (h \in Handlers /\ ApplyPayment(h) /\ RegistrationOf(h[1]) = r /\ hpc'[h] = "confirm")
    <2>1. CASE UNCHANGED <<history, credited>>
      BY <2>1
    <2>2. ASSUME NEW g \in Handlers, ApplyPayment(g)
          PROVE  h \in history[r] \/ h = g
      BY <2>2, ApplyEffect
    <2> QED
      BY <1>2, <2>1, <2>2, LedgerWrites
  <1> QED
    BY <1>1, <1>3 DEF TypeOK

\* Entries are of handlers past their save, on the registration they work for.
LEMMA NextEntriesAreMade ==
  ASSUME IInv, EntriesAreMade, [Next]_vars
  PROVE  EntriesAreMade'
  <1> SUFFICES ASSUME NEW r \in Registrations, NEW h \in history'[r]
               PROVE  /\ hpc'[h] \in {"confirm", "done", "dead"}
                      /\ RegistrationOf(h[1])' = r
    BY DEF EntriesAreMade
  <1>1. TypeOK /\ Wiring /\ h \in Handlers
    BY EntryFrom DEF IInv
  <1>2. hpc[h] # "idle" /\ RegistrationOf(h[1]) = r
    BY EntryFrom DEF EntriesAreMade, ApplyPayment
  <1>3. RegistrationOf(h[1])' = r
    BY <1>1, <1>2, RegistrationOfHandler, TargetStays
  <1>4. hpc'[h] \in {"confirm", "done", "dead"}
    BY <1>1, EntryFrom, HandlerMoves DEF EntriesAreMade
  <1> QED
    BY <1>3, <1>4

\* A completed tracker comes before the entry, and outlives every deletion.
LEMMA NextCompletedBefore ==
  ASSUME IInv, EntriesAreMade, CompletedBefore, [Next]_vars
  PROVE  CompletedBefore'
  <1> SUFFICES ASSUME NEW h \in Handlers,
                      hpc'[h] \in {"load", "apply"} \/ \E r \in Registrations : h \in history'[r]
               PROVE  tracker'[h[1]] = "completed"
    BY DEF CompletedBefore
  <1>1. TypeOK /\ Wiring /\ h[1] \in Payments
    BY DEF IInv, Handlers
  <1>2. CASE CompleteTracker(h) /\ hpc'[h] = "load"
    BY <1>1, <1>2 DEF CompleteTracker, HandlerGoto, TypeOK
  <1>3. CASE ~(CompleteTracker(h) /\ hpc'[h] = "load")
    <2>1. hpc[h] \in {"load", "apply"} \/ \E r \in Registrations : h \in history[r]
      <3>1. ASSUME NEW r \in Registrations, h \in history'[r]
            PROVE  hpc[h] = "apply" \/ h \in history[r]
        BY <3>1, EntryFrom DEF ApplyPayment
      <3> QED
        BY <1>1, <1>3, <3>1, HandlerMoves
    <2>2. hpc[h] # "idle" /\ tracker[h[1]] = "completed"
      BY <2>1 DEF EntriesAreMade, CompletedBefore
    <2> QED
      BY <1>1, <2>2, RegistrationOfHandler, CompletedStays
  <1> QED
    BY <1>2, <1>3

\* What is credited follows the entries: amounts that were entered stay, and a
\* handler that saves has not entered its payment before.
LEMMA NextAddsUp ==
  ASSUME IInv, EntriesAreMade, AddsUp, [Next]_vars
  PROVE  AddsUp'
  <1> SUFFICES ASSUME NEW r \in Registrations
               PROVE  /\ IsFiniteSet(history'[r])
                      /\ credited'[r] = SumFunctionOnSet(AmountOf', history'[r])
    BY DEF AddsUp
  <1> DEFINE H == history[r]
  <1>1. TypeOK /\ Wiring /\ IsFiniteSet(H) /\ credited[r] = SumFunctionOnSet(AmountOf, H)
    BY DEF IInv, AddsUp
  <1>2. H \subseteq Handlers
    BY <1>1 DEF TypeOK
  <1>3. \A h \in Handlers : AmountOf[h] \in Int /\ AmountOf'[h] = amount'[h[1]]
                           /\ AmountOf[h] = amount[h[1]]
    BY <1>1 DEF TypeOK, AmountOf, Handlers
  <1>4. \A h \in H : AmountOf[h] \in Int /\ AmountOf'[h] = AmountOf[h]
    <2> SUFFICES ASSUME NEW h \in H PROVE amount'[h[1]] = amount[h[1]]
      BY <1>2, <1>3
    <2>1. hpc[h] # "idle" /\ h \in Handlers
      BY <1>2 DEF EntriesAreMade
    <2>2. h[1] \in Payments /\ pc[h[1]] # "idle"
      BY <1>1, <2>1, RegistrationOfHandler
    <2> QED
      BY <1>1, <2>2, AmountStays
  <1>5. SumFunctionOnSet(AmountOf', H) = SumFunctionOnSet(AmountOf, H)
    <2> HIDE DEF H
    <2> QED
      BY <1>1, <1>4, SumSame
  <1>6. CASE history'[r] = H /\ credited'[r] = credited[r]
    BY <1>1, <1>5, <1>6
  <1>7. ASSUME NEW h \in Handlers, ApplyPayment(h), history'[r] = H \cup {h},
               credited'[r] = credited[r] + amount[h[1]]
        PROVE  /\ IsFiniteSet(history'[r])
               /\ credited'[r] = SumFunctionOnSet(AmountOf', history'[r])
    <2>1. h \notin H /\ amount' = amount
      BY <1>7 DEF EntriesAreMade, ApplyPayment
    <2>2. AmountOf' = AmountOf
      BY <2>1 DEF AmountOf
    <2>3. \A g \in H \cup {h} : AmountOf[g] \in Int
      BY <1>2, <1>3
    <2>4. SumFunctionOnSet(AmountOf, H \cup {h}) = SumFunctionOnSet(AmountOf, H) + AmountOf[h]
      <3> HIDE DEF H
      <3> QED
        BY <1>1, <2>1, <2>3, SumAdd
    <2>5. IsFiniteSet(H \cup {h})
      BY <1>1, FS_AddElement
    <2> QED
      BY <1>1, <1>3, <1>7, <2>2, <2>4, <2>5
  <1>8. ASSUME NEW h \in Handlers, ApplyPayment(h)
        PROVE  \/ history'[r] = H /\ credited'[r] = credited[r]
               \/ history'[r] = H \cup {h} /\ credited'[r] = credited[r] + amount[h[1]]
    BY <1>8, ApplyEffect
  <1> QED
    BY <1>6, <1>7, <1>8, LedgerWrites

\* The ledger invariant holds throughout every run.
THEOREM LedgerInvariance == Spec => []Ledger
  <1>1. Init => Ledger
    <2> SUFFICES ASSUME Init PROVE Ledger
      OBVIOUS
    <2>1. EntriesAreMade /\ CompletedBefore
      BY DEF Init, EntriesAreMade, CompletedBefore
    <2>2. AddsUp
      BY SumEmpty, FS_EmptySet DEF Init, AddsUp
    <2> QED
      BY <2>1, <2>2, InitIInv DEF Ledger
  <1>2. Ledger /\ [Next]_vars => Ledger'
    BY NextIInv, NextEntriesAreMade, NextCompletedBefore, NextAddsUp DEF Ledger
  <1> QED
    BY <1>1, <1>2, PTL DEF Spec

\* The histories are true, however many callers processSuccessfulPayment has:
\* every entry is of a payment of this registration that was made and whose
\* tracker is completed, and the entries add up to what was credited.
THEOREM LedgerIsTrue == Spec => []LedgerIsReal
  <1>1. Ledger => LedgerIsReal
    <2> SUFFICES ASSUME Ledger, NEW r \in Registrations
                 PROVE  /\ \A h \in history[r] :
                              /\ RegistrationOf(h[1]) = r
                              /\ session[h[1]] = "paid"
                              /\ tracker[h[1]] = "completed"
                        /\ credited[r] = SumFunctionOnSet(AmountOf, history[r])
      BY DEF LedgerIsReal, AmountOf
    <2>1. history[r] \subseteq Handlers
      BY DEF Ledger, IInv, TypeOK
    <2>2. ASSUME NEW h \in history[r]
          PROVE  /\ RegistrationOf(h[1]) = r
                 /\ session[h[1]] = "paid"
                 /\ tracker[h[1]] = "completed"
      BY <2>1 DEF Ledger, EntriesAreMade, CompletedBefore, IInv, Wiring, HandlersArePaid
    <2> QED
      BY <2>2 DEF Ledger, AddsUp
  <1> QED
    BY <1>1, LedgerInvariance, PTL

=============================================================================
