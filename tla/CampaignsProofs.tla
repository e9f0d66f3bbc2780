--------------------------- MODULE CampaignsProofs ---------------------------
(***************************************************************************)
(* Proofs about Campaigns, for any numbers of senders, requests and        *)
(* recipients, listed once or several times: a second mail has a cause, a  *)
(* sent campaign is complete, and its count is exact.                      *)
(***************************************************************************)
EXTENDS Campaigns, SumsAndSelections, TLAPS

AtWork(s) == pc[s] \in Working

\* The entries a sender has yet to serve.
Left(s) == todo[s] \cup batch[s]

Batches ==
    \A s \in Senders :
        /\ todo[s] \cap batch[s] = {}
        /\ pc[s] # "mailing" => batch[s] = {}

\* A sender that has read the recipients misses nobody.
Covered ==
    \A s \in Senders : pc[s] \in {"next", "mailing"} =>
        Wanted \subseteq tried \cup Left(s)

\* Without a cause for a second mail there is one sender at work, which owes a
\* mail to nobody who has one.
Alone == \A s, t \in Senders : AtWork(s) /\ AtWork(t) => s = t

Fresh ==
    \A s \in Senders :
        /\ pc[s] # "fail"
        /\ pc[s] \in {"mark", "read"} => \A r \in Recipients : mails[r] = 0
        /\ pc[s] \in {"next", "mailing"} => \A r \in Left(s) : mails[r] = 0

\* What was sent when nobody is at work was finished.
Closed ==
    (\E r \in Recipients : mails[r] > 0) =>
        \/ status \in {"sent", "deleted"}
        \/ \E s \in Senders : AtWork(s)

Once == \A r \in Recipients : mails[r] <= 1

Orderly == ~excused => Alone /\ Fresh /\ Closed /\ Once

IInv == TypeOK /\ Batches /\ Covered /\ SentIsComplete /\ Orderly

Mailing(s) == pc[s] \in {"next", "mailing"}

Total == SumFunction(mails)

\* A sender counts from zero.
FromZero == \A s \in Senders : ~Mailing(s) => sent[s] = 0

\* While nothing has interfered, the one sender's count is that of all mails, and
\* nobody is at work once the campaign is sent.
Exact ==
    ~excused =>
        /\ \A s \in Senders : Mailing(s) => sent[s] = Total
        /\ status = "sent" /\ ~declared =>
              analytics = Total /\ \A s \in Senders : ~AtWork(s)

Counted == IInv /\ FromZero /\ Exact

-----------------------------------------------------------------------------
\* The initial states satisfy the invariant.
LEMMA Start == Init => IInv
<1> SUFFICES ASSUME Init PROVE IInv
  OBVIOUS
<1> USE DEF Init
<1>1. TypeOK
  BY DEF TypeOK, Statuses, PCs, Dates
<1>2. Batches /\ Covered /\ SentIsComplete
  BY DEF Batches, Covered, SentIsComplete, Senders, Processes
<1>3. Orderly
  BY DEF Orderly, Alone, Fresh, Closed, Once, AtWork, Left, Working, Senders, Processes
<1> QED
  BY <1>1, <1>2, <1>3 DEF IInv

LEMMA TypeStep == ASSUME TypeOK, Batches, [Next]_vars PROVE TypeOK'
<1> USE NamesAssumption, BoundsAssumption DEF TypeOK, Wanted, settings, Dates, Senders, Processes, Goto, Rest, SetStatus, Excuse, Fault, sending, Working, Statuses, PCs
<1>1. ASSUME NEW k \in Crons, CronFind(k) PROVE TypeOK'
  BY <1>1 DEF CronFind
<1>2. ASSUME NEW m \in Manuals, RequestSend(m) PROVE TypeOK'
  BY <1>2 DEF RequestSend
<1>3. ASSUME NEW s \in Senders, Begin(s) PROVE TypeOK'
  BY <1>3 DEF Begin
<1>4. ASSUME NEW s \in Senders, Mark(s) PROVE TypeOK'
  BY <1>4 DEF Mark
<1>5. ASSUME NEW s \in Senders, Read(s) PROVE TypeOK'
  BY <1>5 DEF Read
<1>6. ASSUME NEW s \in Senders, NextBatch(s) PROVE TypeOK'
  BY <1>6 DEF NextBatch
<1>7. ASSUME NEW s \in Senders, NEW r \in Recipients, Mail(s, r) PROVE TypeOK'
  BY <1>7 DEF Mail
<1>8. ASSUME NEW s \in Senders, Progress(s) PROVE TypeOK'
  BY <1>8 DEF Progress
<1>9. ASSUME NEW s \in Senders, Finish(s) PROVE TypeOK'
  BY <1>9 DEF Finish
<1>10. ASSUME NEW s \in Senders, Fail(s) PROVE TypeOK'
  BY <1>10 DEF Fail
<1>11. ASSUME NEW q \in Requests, AskSchedule(q) PROVE TypeOK'
  BY <1>11 DEF AskSchedule
<1>12. ASSUME NEW q \in Requests, AskCancel(q) PROVE TypeOK'
  BY <1>12 DEF AskCancel
<1>13. ASSUME NEW q \in Requests, AskDelete(q) PROVE TypeOK'
  BY <1>13 DEF AskDelete
<1>14. ASSUME NEW q \in Requests, Schedule(q) PROVE TypeOK'
  BY <1>14 DEF Schedule
<1>15. ASSUME NEW q \in Requests, Cancel(q) PROVE TypeOK'
  BY <1>15 DEF Cancel
<1>16. ASSUME NEW q \in Requests, Delete(q) PROVE TypeOK'
  BY <1>16 DEF Delete
<1>17. ASSUME NEW e \in Emails, Unsubscribe(e) PROVE TypeOK'
  BY <1>17 DEF Unsubscribe
<1>18. CASE Due
  BY <1>18 DEF Due
<1>19. ASSUME NEW p \in Processes, CallRejected(p) PROVE TypeOK'
  BY <1>19 DEF CallRejected
<1>20. CASE Crash
  BY <1>20 DEF Crash
<1>21. ASSUME NEW q \in Requests, AskUpdate(q) PROVE TypeOK'
  BY <1>21 DEF AskUpdate
<1>22. ASSUME NEW q \in Requests, Update(q) PROVE TypeOK'
  BY <1>22 DEF Update
<1>23. CASE UNCHANGED vars
  BY <1>23 DEF vars
<1> QED
  BY <1>1, <1>2, <1>3, <1>4, <1>5, <1>6, <1>7, <1>8, <1>9, <1>10, <1>11, <1>12, <1>13, <1>14, <1>15, <1>16, <1>17, <1>18, <1>19, <1>20, <1>21, <1>22, <1>23 DEF Next, Advance

LEMMA BatchStep == ASSUME TypeOK, Batches, [Next]_vars PROVE Batches'
<1> USE NamesAssumption, BoundsAssumption DEF TypeOK, Batches, Wanted, settings, Dates, Senders, Processes, Goto, Rest, SetStatus, Excuse, Fault, sending, Working
<1>1. ASSUME NEW k \in Crons, CronFind(k) PROVE Batches'
  BY <1>1 DEF CronFind
<1>2. ASSUME NEW m \in Manuals, RequestSend(m) PROVE Batches'
  BY <1>2 DEF RequestSend
<1>3. ASSUME NEW s \in Senders, Begin(s) PROVE Batches'
  BY <1>3 DEF Begin
<1>4. ASSUME NEW s \in Senders, Mark(s) PROVE Batches'
  BY <1>4 DEF Mark
<1>5. ASSUME NEW s \in Senders, Read(s) PROVE Batches'
  BY <1>5 DEF Read
<1>6. ASSUME NEW s \in Senders, NextBatch(s) PROVE Batches'
  BY <1>6 DEF NextBatch
<1>7. ASSUME NEW s \in Senders, NEW r \in Recipients, Mail(s, r) PROVE Batches'
  BY <1>7 DEF Mail
<1>8. ASSUME NEW s \in Senders, Progress(s) PROVE Batches'
  BY <1>8 DEF Progress
<1>9. ASSUME NEW s \in Senders, Finish(s) PROVE Batches'
  BY <1>9 DEF Finish
<1>10. ASSUME NEW s \in Senders, Fail(s) PROVE Batches'
  BY <1>10 DEF Fail
<1>11. ASSUME NEW q \in Requests, AskSchedule(q) PROVE Batches'
  BY <1>11 DEF AskSchedule
<1>12. ASSUME NEW q \in Requests, AskCancel(q) PROVE Batches'
  BY <1>12 DEF AskCancel
<1>13. ASSUME NEW q \in Requests, AskDelete(q) PROVE Batches'
  BY <1>13 DEF AskDelete
<1>14. ASSUME NEW q \in Requests, Schedule(q) PROVE Batches'
  BY <1>14 DEF Schedule
<1>15. ASSUME NEW q \in Requests, Cancel(q) PROVE Batches'
  BY <1>15 DEF Cancel
<1>16. ASSUME NEW q \in Requests, Delete(q) PROVE Batches'
  BY <1>16 DEF Delete
<1>17. ASSUME NEW e \in Emails, Unsubscribe(e) PROVE Batches'
  BY <1>17 DEF Unsubscribe
<1>18. CASE Due
  BY <1>18 DEF Due
<1>19. ASSUME NEW p \in Processes, CallRejected(p) PROVE Batches'
  BY <1>19 DEF CallRejected
<1>20. CASE Crash
  BY <1>20 DEF Crash
<1>21. ASSUME NEW q \in Requests, AskUpdate(q) PROVE Batches'
  BY <1>21 DEF AskUpdate
<1>22. ASSUME NEW q \in Requests, Update(q) PROVE Batches'
  BY <1>22 DEF Update
<1>23. CASE UNCHANGED vars
  BY <1>23 DEF vars
<1> QED
  BY <1>1, <1>2, <1>3, <1>4, <1>5, <1>6, <1>7, <1>8, <1>9, <1>10, <1>11, <1>12, <1>13, <1>14, <1>15, <1>16, <1>17, <1>18, <1>19, <1>20, <1>21, <1>22, <1>23 DEF Next, Advance

LEMMA CoverStep == ASSUME TypeOK, Batches, Covered, [Next]_vars PROVE Covered'
<1> USE NamesAssumption, BoundsAssumption DEF TypeOK, Batches, Wanted, settings, Dates, Covered, Left, Senders, Processes, Goto, Rest, SetStatus, Excuse, Fault, sending, Working
<1>1. ASSUME NEW k \in Crons, CronFind(k) PROVE Covered'
  BY <1>1 DEF CronFind
<1>2. ASSUME NEW m \in Manuals, RequestSend(m) PROVE Covered'
  BY <1>2 DEF RequestSend
<1>3. ASSUME NEW s \in Senders, Begin(s) PROVE Covered'
  BY <1>3 DEF Begin
<1>4. ASSUME NEW s \in Senders, Mark(s) PROVE Covered'
  BY <1>4 DEF Mark
<1>5. ASSUME NEW s \in Senders, Read(s) PROVE Covered'
  BY <1>5 DEF Read
<1>6. ASSUME NEW s \in Senders, NextBatch(s) PROVE Covered'
  BY <1>6 DEF NextBatch
<1>7. ASSUME NEW s \in Senders, NEW r \in Recipients, Mail(s, r) PROVE Covered'
  BY <1>7 DEF Mail
<1>8. ASSUME NEW s \in Senders, Progress(s) PROVE Covered'
  BY <1>8 DEF Progress
<1>9. ASSUME NEW s \in Senders, Finish(s) PROVE Covered'
  BY <1>9 DEF Finish
<1>10. ASSUME NEW s \in Senders, Fail(s) PROVE Covered'
  BY <1>10 DEF Fail
<1>11. ASSUME NEW q \in Requests, AskSchedule(q) PROVE Covered'
  BY <1>11 DEF AskSchedule
<1>12. ASSUME NEW q \in Requests, AskCancel(q) PROVE Covered'
  BY <1>12 DEF AskCancel
<1>13. ASSUME NEW q \in Requests, AskDelete(q) PROVE Covered'
  BY <1>13 DEF AskDelete
<1>14. ASSUME NEW q \in Requests, Schedule(q) PROVE Covered'
  BY <1>14 DEF Schedule
<1>15. ASSUME NEW q \in Requests, Cancel(q) PROVE Covered'
  BY <1>15 DEF Cancel
<1>16. ASSUME NEW q \in Requests, Delete(q) PROVE Covered'
  BY <1>16 DEF Delete
<1>17. ASSUME NEW e \in Emails, Unsubscribe(e) PROVE Covered'
  BY <1>17 DEF Unsubscribe
<1>18. CASE Due
  BY <1>18 DEF Due
<1>19. ASSUME NEW p \in Processes, CallRejected(p) PROVE Covered'
  BY <1>19 DEF CallRejected
<1>20. CASE Crash
  BY <1>20 DEF Crash
<1>21. ASSUME NEW q \in Requests, AskUpdate(q) PROVE Covered'
  BY <1>21 DEF AskUpdate
<1>22. ASSUME NEW q \in Requests, Update(q) PROVE Covered'
  BY <1>22 DEF Update
<1>23. CASE UNCHANGED vars
  BY <1>23 DEF vars
<1> QED
  BY <1>1, <1>2, <1>3, <1>4, <1>5, <1>6, <1>7, <1>8, <1>9, <1>10, <1>11, <1>12, <1>13, <1>14, <1>15, <1>16, <1>17, <1>18, <1>19, <1>20, <1>21, <1>22, <1>23 DEF Next, Advance

LEMMA SentStep == ASSUME TypeOK, Batches, Covered, SentIsComplete, [Next]_vars PROVE SentIsComplete'
<1> USE NamesAssumption, BoundsAssumption DEF TypeOK, Batches, Wanted, settings, Dates, Covered, Left, SentIsComplete, Senders, Processes, Goto, Rest, SetStatus, Excuse, Fault, sending, Working
<1>1. ASSUME NEW k \in Crons, CronFind(k) PROVE SentIsComplete'
  BY <1>1 DEF CronFind
<1>2. ASSUME NEW m \in Manuals, RequestSend(m) PROVE SentIsComplete'
  BY <1>2 DEF RequestSend
<1>3. ASSUME NEW s \in Senders, Begin(s) PROVE SentIsComplete'
  BY <1>3 DEF Begin
<1>4. ASSUME NEW s \in Senders, Mark(s) PROVE SentIsComplete'
  BY <1>4 DEF Mark
<1>5. ASSUME NEW s \in Senders, Read(s) PROVE SentIsComplete'
  BY <1>5 DEF Read
<1>6. ASSUME NEW s \in Senders, NextBatch(s) PROVE SentIsComplete'
  BY <1>6 DEF NextBatch
<1>7. ASSUME NEW s \in Senders, NEW r \in Recipients, Mail(s, r) PROVE SentIsComplete'
  BY <1>7 DEF Mail
<1>8. ASSUME NEW s \in Senders, Progress(s) PROVE SentIsComplete'
  BY <1>8 DEF Progress
<1>9. ASSUME NEW s \in Senders, Finish(s) PROVE SentIsComplete'
  BY <1>9 DEF Finish
<1>10. ASSUME NEW s \in Senders, Fail(s) PROVE SentIsComplete'
  BY <1>10 DEF Fail
<1>11. ASSUME NEW q \in Requests, AskSchedule(q) PROVE SentIsComplete'
  BY <1>11 DEF AskSchedule
<1>12. ASSUME NEW q \in Requests, AskCancel(q) PROVE SentIsComplete'
  BY <1>12 DEF AskCancel
<1>13. ASSUME NEW q \in Requests, AskDelete(q) PROVE SentIsComplete'
  BY <1>13 DEF AskDelete
<1>14. ASSUME NEW q \in Requests, Schedule(q) PROVE SentIsComplete'
  BY <1>14 DEF Schedule
<1>15. ASSUME NEW q \in Requests, Cancel(q) PROVE SentIsComplete'
  BY <1>15 DEF Cancel
<1>16. ASSUME NEW q \in Requests, Delete(q) PROVE SentIsComplete'
  BY <1>16 DEF Delete
<1>17. ASSUME NEW e \in Emails, Unsubscribe(e) PROVE SentIsComplete'
  BY <1>17 DEF Unsubscribe
<1>18. CASE Due
  BY <1>18 DEF Due
<1>19. ASSUME NEW p \in Processes, CallRejected(p) PROVE SentIsComplete'
  BY <1>19 DEF CallRejected
<1>20. CASE Crash
  BY <1>20 DEF Crash
<1>21. ASSUME NEW q \in Requests, AskUpdate(q) PROVE SentIsComplete'
  BY <1>21 DEF AskUpdate
<1>22. ASSUME NEW q \in Requests, Update(q) PROVE SentIsComplete'
  BY <1>22 DEF Update
<1>23. CASE UNCHANGED vars
  BY <1>23 DEF vars
<1> QED
  BY <1>1, <1>2, <1>3, <1>4, <1>5, <1>6, <1>7, <1>8, <1>9, <1>10, <1>11, <1>12, <1>13, <1>14, <1>15, <1>16, <1>17, <1>18, <1>19, <1>20, <1>21, <1>22, <1>23 DEF Next, Advance

LEMMA OrderStep == ASSUME TypeOK, Batches, Orderly, [Next]_vars PROVE Orderly'
<1> USE NamesAssumption, BoundsAssumption DEF TypeOK, Batches, Wanted, settings, Dates, Orderly, Alone, Fresh, Closed, Once, AtWork, Left, Senders, Processes, Goto, Rest, SetStatus, Excuse, Fault, sending, Working
<1>1. ASSUME NEW k \in Crons, CronFind(k) PROVE Orderly'
  BY <1>1 DEF CronFind
<1>2. ASSUME NEW m \in Manuals, RequestSend(m) PROVE Orderly'
  BY <1>2 DEF RequestSend
<1>3. ASSUME NEW s \in Senders, Begin(s) PROVE Orderly'
  <2> USE <1>3 DEF Begin
  <2>1. CASE pc'[s] = "mark"
    <3> SUFFICES ASSUME ~excused' PROVE (Alone /\ Fresh /\ Closed /\ Once)'
      OBVIOUS
    <3>1. ~excused /\ status \notin {"sent", "deleted"} /\ complete /\ \A t \in Senders : ~AtWork(t)
      BY <2>1
    <3>2. \A r \in Recipients : mails[r] = 0
      BY <3>1
    <3>3. \A t \in Senders : t # s => pc'[t] = pc[t]
      OBVIOUS
    <3> QED
      BY <2>1, <3>1, <3>2, <3>3
  <2>2. CASE pc'[s] # "mark"
    <3>1. pc'[s] = Rest(s) /\ ~AtWork(s) /\ excused' = excused
      BY <2>2
    <3>2. \A t \in Senders : t # s => pc'[t] = pc[t]
      OBVIOUS
    <3>3. \A t \in Senders : AtWork(t)' = AtWork(t)
      BY <3>1, <3>2
    <3> QED
      BY <3>1, <3>2, <3>3
  <2> QED
    BY <2>1, <2>2
<1>4. ASSUME NEW s \in Senders, Mark(s) PROVE Orderly'
  BY <1>4 DEF Mark
<1>5. ASSUME NEW s \in Senders, Read(s) PROVE Orderly'
  BY <1>5 DEF Read
<1>6. ASSUME NEW s \in Senders, NextBatch(s) PROVE Orderly'
  BY <1>6 DEF NextBatch
<1>7. ASSUME NEW s \in Senders, NEW r \in Recipients, Mail(s, r) PROVE Orderly'
  BY <1>7 DEF Mail
<1>8. ASSUME NEW s \in Senders, Progress(s) PROVE Orderly'
  BY <1>8 DEF Progress
<1>9. ASSUME NEW s \in Senders, Finish(s) PROVE Orderly'
  BY <1>9 DEF Finish
<1>10. ASSUME NEW s \in Senders, Fail(s) PROVE Orderly'
  BY <1>10 DEF Fail
<1>11. ASSUME NEW q \in Requests, AskSchedule(q) PROVE Orderly'
  BY <1>11 DEF AskSchedule
<1>12. ASSUME NEW q \in Requests, AskCancel(q) PROVE Orderly'
  BY <1>12 DEF AskCancel
<1>13. ASSUME NEW q \in Requests, AskDelete(q) PROVE Orderly'
  BY <1>13 DEF AskDelete
<1>14. ASSUME NEW q \in Requests, Schedule(q) PROVE Orderly'
  BY <1>14 DEF Schedule
<1>15. ASSUME NEW q \in Requests, Cancel(q) PROVE Orderly'
  BY <1>15 DEF Cancel
<1>16. ASSUME NEW q \in Requests, Delete(q) PROVE Orderly'
  BY <1>16 DEF Delete
<1>17. ASSUME NEW e \in Emails, Unsubscribe(e) PROVE Orderly'
  BY <1>17 DEF Unsubscribe
<1>18. CASE Due
  BY <1>18 DEF Due
<1>19. ASSUME NEW p \in Processes, CallRejected(p) PROVE Orderly'
  BY <1>19 DEF CallRejected
<1>20. CASE Crash
  BY <1>20 DEF Crash
<1>21. ASSUME NEW q \in Requests, AskUpdate(q) PROVE Orderly'
  BY <1>21 DEF AskUpdate
<1>22. ASSUME NEW q \in Requests, Update(q) PROVE Orderly'
  BY <1>22 DEF Update
<1>23. CASE UNCHANGED vars
  BY <1>23 DEF vars
<1> QED
  BY <1>1, <1>2, <1>3, <1>4, <1>5, <1>6, <1>7, <1>8, <1>9, <1>10, <1>11, <1>12, <1>13, <1>14, <1>15, <1>16, <1>17, <1>18, <1>19, <1>20, <1>21, <1>22, <1>23 DEF Next, Advance

-----------------------------------------------------------------------------
LEMMA Invariant == Spec => []IInv
<1>1. IInv /\ [Next]_vars => IInv'
  BY TypeStep, BatchStep, CoverStep, SentStep, OrderStep DEF IInv
<1> QED
  BY Start, <1>1, PTL DEF Spec

\* The document, the recipients and the senders keep their types through any
\* overlapping sends, requests, crashes and rejected calls.
THEOREM TypeCorrect == Spec => []TypeOK
<1>1. IInv => TypeOK
  BY DEF IInv
<1> QED
  BY Invariant, <1>1, PTL

\* Nobody gets more mails than the list has entries of his e-mail, unless two
\* sends overlapped, a request overwrote the status with an older decision, or
\* something failed.
THEOREM SecondMailNeedsACause == Spec => []SecondMailHasACause
<1>1. ASSUME IInv, ~excused, NEW e \in Emails
      PROVE  MailsTo(e) <= Cardinality(EntriesOf(e)) /\ MailsTo(e) \in Int
             /\ Cardinality(EntriesOf(e)) \in Nat
  <2>1. IsFiniteSet(EntriesOf(e))
    BY NamesAssumption, FS_Subset DEF EntriesOf
  <2>2. \A r \in EntriesOf(e) : mails[r] \in Int /\ mails[r] <= 1
    BY <1>1 DEF EntriesOf, IInv, TypeOK, Orderly, Once
  <2> QED
    BY <2>1, <2>2, SumAtMost, FS_CardinalityType DEF MailsTo
<1>2. IInv => SecondMailHasACause
  <2> SUFFICES ASSUME IInv, ~excused PROVE \A e \in Emails : ~(MailsTo(e) > Cardinality(EntriesOf(e)))
    BY DEF SecondMailHasACause, IInv, TypeOK
  <2> QED
    BY <1>1
<1> QED
  BY Invariant, <1>2, PTL

\* A campaign that a send has marked as sent has reached everyone who has not opted
\* out, whichever of several sends marked it.
THEOREM SentMeansEveryone == Spec => []SentIsComplete
<1>1. IInv => SentIsComplete
  BY DEF IInv
<1> QED
  BY Invariant, <1>1, PTL

-----------------------------------------------------------------------------
(***************************************************************************)
(* The count of a sent campaign                                            *)
(***************************************************************************)

\* What the steps do that neither send mails nor count them.
Uncounted ==
    /\ UNCHANGED <<analytics, mails, sent>>
    /\ \A s \in Senders : Mailing(s)' => Mailing(s) \/ Read(s)
    /\ \A s \in Senders : Mailing(s) => Mailing(s)'
    /\ status' = "sent" /\ ~declared' =>
          status = "sent" /\ ~declared /\ \A s \in Senders : AtWork(s)' => AtWork(s)

\* Mails are sent and counted by Mail, Progress and Finish; a failure forgets
\* the count, and is an excuse.
LEMMA CountWrites ==
  ASSUME TypeOK, [Next]_vars
  PROVE  \/ Uncounted
         \/ \E s \in Senders : (\E r \in Recipients : Mail(s, r)) \/ Progress(s) \/ Finish(s)
         \/ excused' /\ ((\E p \in Processes : CallRejected(p)) \/ Crash)
<1> USE NamesAssumption DEF TypeOK, settings, Uncounted, Mailing, AtWork, Senders, Processes, Goto, Rest, SetStatus, sending, Working
<1>1. ASSUME NEW k \in Crons, CronFind(k) PROVE Uncounted
  BY <1>1 DEF CronFind
<1>2. ASSUME NEW m \in Manuals, RequestSend(m) PROVE Uncounted
  BY <1>2 DEF RequestSend
<1>3. ASSUME NEW s \in Senders, Begin(s) PROVE Uncounted
  BY <1>3 DEF Begin
<1>4. ASSUME NEW s \in Senders, Mark(s) PROVE Uncounted
  BY <1>4 DEF Mark
<1>5. ASSUME NEW s \in Senders, Read(s) PROVE Uncounted
  <2>1. /\ UNCHANGED <<status, declared, analytics, mails, sent>>
        /\ \A t \in Senders : t # s => pc'[t] = pc[t]
        /\ pc[s] = "read" /\ pc'[s] = "next"
    BY <1>5 DEF Read
  <2> QED
    BY <1>5, <2>1
<1>6. ASSUME NEW s \in Senders, NextBatch(s) PROVE Uncounted
  BY <1>6 DEF NextBatch
<1>7. ASSUME NEW s \in Senders, Fail(s) PROVE Uncounted
  BY <1>7 DEF Fail
<1>8. ASSUME NEW q \in Requests, AskSchedule(q) \/ AskCancel(q) \/ AskUpdate(q) \/ AskDelete(q)
      PROVE  Uncounted
  BY <1>8 DEF AskSchedule, AskCancel, AskUpdate, AskDelete
<1>9. ASSUME NEW q \in Requests, Schedule(q) \/ Cancel(q) \/ Update(q) \/ Delete(q)
      PROVE  Uncounted
  BY <1>9 DEF Schedule, Cancel, Update, Delete
<1>10. ASSUME (\E e \in Emails : Unsubscribe(e)) \/ Due \/ UNCHANGED vars
       PROVE  Uncounted
  BY <1>10 DEF Unsubscribe, Due, vars
<1>11. ASSUME NEW p \in Processes, CallRejected(p) PROVE excused'
  BY <1>11 DEF CallRejected, Fault
<1>12. ASSUME Crash PROVE excused'
  BY <1>12 DEF Crash, Fault
<1> QED
  BY <1>1, <1>2, <1>3, <1>4, <1>5, <1>6, <1>7, <1>8, <1>9, <1>10, <1>11, <1>12
  DEF Next, Advance

\* The mails add up to a number, and one mail more to one more.
LEMMA OneMore ==
  ASSUME TypeOK, NEW r \in Recipients, mails' = [mails EXCEPT ![r] = @ + 1]
  PROVE  Total' = Total + 1
<1> DEFINE new == mails'
<1>1. /\ IsFiniteSet(Recipients)
      /\ DOMAIN mails = Recipients /\ DOMAIN new = Recipients
      /\ \A x \in Recipients : mails[x] \in Int /\ new[x] \in Int
      /\ \A x \in Recipients \ {r} : new[x] = mails[x]
      /\ new[r] = mails[r] + 1
  BY NamesAssumption DEF TypeOK
<1> HIDE DEF new
<1>2. new[r] - mails[r] = 1
  BY <1>1
<1>3. SumFunctionOnSet(new, Recipients) = SumFunctionOnSet(mails, Recipients) + (new[r] - mails[r])
  BY <1>1, SumChange
<1> QED
  BY <1>1, <1>2, <1>3 DEF Total, SumFunction, new

LEMMA FromZeroStep ==
  ASSUME TypeOK, FromZero, [Next]_vars
  PROVE  FromZero'
<1> USE NamesAssumption DEF TypeOK, FromZero, Mailing, Senders, Processes, Goto, Rest
<1>1. CASE Uncounted
  BY <1>1 DEF Uncounted
<1>2. ASSUME NEW s \in Senders, NEW r \in Recipients, Mail(s, r) PROVE FromZero'
  BY <1>2 DEF Mail
<1>3. ASSUME NEW s \in Senders, Progress(s) \/ Finish(s) PROVE FromZero'
  BY <1>3 DEF Progress, Finish, sending
<1>4. ASSUME NEW p \in Processes, CallRejected(p) PROVE FromZero'
  BY <1>4 DEF CallRejected
<1>5. ASSUME Crash PROVE FromZero'
  BY <1>5 DEF Crash
<1> QED
  BY <1>1, <1>2, <1>3, <1>4, <1>5, CountWrites

\* An excuse stands.
LEMMA ExcuseStays ==
  ASSUME TypeOK, [Next]_vars, ~excused'
  PROVE  ~excused
BY DEF TypeOK, Next, vars, Advance, CronFind, RequestSend, Begin, Mark, Read, NextBatch, Mail,
       Progress, Finish, Fail, AskSchedule, AskCancel, AskUpdate, AskDelete, Schedule, Cancel,
       Update, Delete, Unsubscribe, Due, CallRejected, Crash, Fault, Excuse

LEMMA ExactStep ==
  ASSUME TypeOK, Orderly, FromZero, Exact, [Next]_vars
  PROVE  Exact'
<1> SUFFICES ASSUME ~excused'
             PROVE  /\ \A s \in Senders : Mailing(s)' => sent'[s] = Total'
                    /\ status' = "sent" /\ ~declared' =>
                       analytics' = Total' /\ \A s \in Senders : ~AtWork(s)'
  BY DEF Exact
<1>1. /\ Alone /\ Fresh
      /\ \A s \in Senders : Mailing(s) => sent[s] = Total
      /\ status = "sent" /\ ~declared =>
            analytics = Total /\ \A s \in Senders : ~AtWork(s)
  BY ExcuseStays DEF Orderly, Exact
<1>2. CASE Uncounted
  <2>1. Total' = Total
    BY <1>2 DEF Uncounted, Total
  <2>2. ASSUME NEW s \in Senders, Mailing(s)' PROVE sent'[s] = Total'
    <3>1. CASE Mailing(s)
      BY <1>1, <1>2, <2>1, <3>1 DEF Uncounted
    <3>2. CASE ~Mailing(s)
      <4>1. pc[s] = "read" /\ sent'[s] = 0
        BY <1>2, <2>2, <3>2 DEF Uncounted, Read, FromZero
      <4>2. \A r \in Recipients : mails[r] = 0
        BY <1>1, <4>1 DEF Fresh
      <4>3. Total = 0
        BY <4>2, SumZero, NamesAssumption DEF Total, SumFunction, TypeOK
      <4> QED
        BY <2>1, <4>1, <4>3
    <3> QED
      BY <3>1, <3>2
  <2> QED
    BY <1>1, <1>2, <2>1, <2>2 DEF Uncounted
<1>3. ASSUME NEW s \in Senders, NEW r \in Recipients, Mail(s, r)
      PROVE  /\ \A t \in Senders : Mailing(t)' => sent'[t] = Total'
             /\ ~(status' = "sent" /\ ~declared')
  <2>1. /\ pc[s] = "mailing" /\ pc' = pc /\ UNCHANGED <<status, declared>>
        /\ \/ mails' = [mails EXCEPT ![r] = @ + 1] /\ sent' = [sent EXCEPT ![s] = @ + 1]
           \/ UNCHANGED <<mails, sent>>
    BY <1>3 DEF Mail
  <2>2. AtWork(s) /\ ~(status' = "sent" /\ ~declared')
    BY <1>1, <2>1 DEF AtWork, Working
  <2>3. ASSUME NEW t \in Senders, Mailing(t)' PROVE t = s /\ sent[s] = Total
    BY <1>1, <2>1, <2>2, <2>3 DEF Alone, AtWork, Working, Mailing
  <2>4. CASE UNCHANGED <<mails, sent>>
    BY <2>2, <2>3, <2>4 DEF Total
  <2>5. CASE mails' = [mails EXCEPT ![r] = @ + 1] /\ sent' = [sent EXCEPT ![s] = @ + 1]
    <3>1. Total' = Total + 1
      BY <2>5, OneMore
    <3> QED
      BY <2>2, <2>3, <2>5, <3>1 DEF TypeOK
  <2> QED
    BY <2>1, <2>4, <2>5
<1>4. ASSUME NEW s \in Senders, Progress(s)
      PROVE  /\ \A t \in Senders : Mailing(t)' => sent'[t] = Total'
             /\ ~(status' = "sent" /\ ~declared')
  <2>1. /\ pc[s] = "mailing" /\ UNCHANGED <<status, declared, mails, sent>>
        /\ pc' = [pc EXCEPT ![s] = "next"]
    BY <1>4 DEF Progress, sending, Goto
  <2>2. Total' = Total /\ ~(status = "sent" /\ ~declared)
    BY <1>1, <2>1 DEF Total, AtWork, Working
  <2>3. \A t \in Senders : Mailing(t)' => Mailing(t)
    BY <2>1 DEF Mailing, TypeOK, Senders, Processes
  <2> QED
    BY <1>1, <2>1, <2>2, <2>3
<1>5. ASSUME NEW s \in Senders, Finish(s)
      PROVE  /\ analytics' = Total'
             /\ \A t \in Senders : ~AtWork(t)'
  <2>1. /\ pc[s] = "next" /\ UNCHANGED mails /\ analytics' = sent[s]
        /\ pc' = [pc EXCEPT ![s] = Rest(s)]
    BY <1>5 DEF Finish, Goto
  <2>2. analytics' = Total'
    BY <1>1, <2>1 DEF Total, Mailing
  <2>3. ASSUME NEW t \in Senders PROVE ~AtWork(t)'
    BY <1>1, <2>1 DEF Alone, AtWork, Working, Rest, TypeOK, Senders, Processes
  <2> QED
    BY <2>2, <2>3
<1>6. (\A s \in Senders : ~AtWork(s)') => \A s \in Senders : ~Mailing(s)'
  BY DEF AtWork, Working, Mailing
<1> QED
  BY <1>2, <1>3, <1>4, <1>5, <1>6, CountWrites

\* The count kept with a sent campaign is that of the mails that went out, unless
\* sends overlapped, a request overwrote the status, or something failed.
THEOREM CountIsExact == Spec => []SentCountIsExact
<1>1. Init => Counted
  <2>1. Init => FromZero /\ Exact
    BY DEF Init, FromZero, Exact, Mailing, AtWork, Working, Senders, Processes
  <2> QED
    BY <2>1, Start DEF Counted
<1>2. Counted /\ [Next]_vars => Counted'
  BY TypeStep, BatchStep, CoverStep, SentStep, OrderStep, FromZeroStep, ExactStep
  DEF Counted, IInv
<1>3. Counted => SentCountIsExact
  BY DEF Counted, Exact, SentCountIsExact, Total
<1> QED
  BY <1>1, <1>2, <1>3, PTL DEF Spec
=============================================================================
