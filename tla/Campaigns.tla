------------------------------ MODULE Campaigns ------------------------------
(***************************************************************************)
(* One e-mail campaign: the runs of the minute job and the requests that   *)
(* send it, the requests that schedule, cancel, edit and delete it, and    *)
(* the recipients who opt out.                                             *)
(*                                                                         *)
(* A run of the job finds the campaign and may get to it much later, after *)
(* the other campaigns it has found; the next run starts meanwhile.        *)
(* sendCampaign tests the status, sets it in a second call and looks at it *)
(* no more.  The recipients are a list: an e-mail that is registered for   *)
(* two of the chosen events is listed, and mailed, twice.                  *)
(***************************************************************************)
EXTENDS Naturals, FiniteSets, Functions

CONSTANTS
    Crons,      \* runs of processScheduledCampaigns that may overlap
    Manuals,    \* requests to send
    Requests,   \* requests to schedule, cancel, edit and delete
    Recipients, \* entries of the list that the filters select
    Emails,
    EmailOf,    \* the e-mail of an entry, which several may share
    BatchSize,  \* mails sent together (50 in the code)
    MaxFaults   \* bound on crashes and rejected calls

Senders == Crons \cup Manuals
Processes == Senders \cup Requests

ASSUME NamesAssumption ==
    /\ Crons \cap Manuals = {} /\ Senders \cap Requests = {}
    /\ IsFiniteSet(Recipients) /\ EmailOf \in [Recipients -> Emails]
ASSUME BoundsAssumption == BatchSize \in Nat \ {0} /\ MaxFaults \in Nat

VARIABLES
    status,    \* of the Campaign document, "deleted" without one
    declared,  \* ghost: an edit gave it this status
    complete,  \* it has recipients, and content or a template
    date,      \* scheduledDate: none, ahead or passed
    analytics, \* analytics.sent of the document
    optedOut,  \* e-mails on the unsubscribe list
    pc,        \* the await at which each process stands
    todo,      \* recipients not yet in a batch of each sender
    batch,     \* recipients in its batch that are not yet served
    sent,      \* its count of mails sent
    mails,     \* mails sent for each entry
    tried,     \* ghost: entries with a mail sent or rejected
    faults,
    excused    \* ghost: a reason for a second mail occurred

settings == <<complete, date>>
sending == <<todo, batch, sent, mails, tried>>
vars == <<status, declared, settings, analytics, optedOut, pc, sending,
          faults, excused>>

Statuses == {"draft", "scheduled", "sending", "sent", "failed", "cancelled", "deleted"}
Dates == {"none", "ahead", "passed"}
PCs == {"idle", "found", "mark", "read", "next", "mailing", "fail",
        "schedule", "cancel", "delete", "update", "done"}

TypeOK ==
    /\ status \in Statuses
    /\ declared \in BOOLEAN /\ complete \in BOOLEAN
    /\ date \in Dates
    /\ analytics \in Nat
    /\ optedOut \subseteq Emails
    /\ pc \in [Processes -> PCs]
    /\ todo \in [Senders -> SUBSET Recipients]
    /\ batch \in [Senders -> SUBSET Recipients]
    /\ sent \in [Senders -> Nat]
    /\ mails \in [Recipients -> Nat]
    /\ tried \subseteq Recipients
    /\ faults \in Nat
    /\ excused \in BOOLEAN

Init ==
    /\ complete \in BOOLEAN
    /\ date \in Dates
    /\ status = IF date = "none" THEN "draft" ELSE "scheduled"
    /\ declared = FALSE
    /\ analytics = 0
    /\ optedOut = {}
    /\ pc = [p \in Processes |-> "idle"]
    /\ todo = [s \in Senders |-> {}]
    /\ batch = [s \in Senders |-> {}]
    /\ sent = [s \in Senders |-> 0]
    /\ mails = [r \in Recipients |-> 0]
    /\ tried = {}
    /\ faults = 0
    /\ excused = FALSE

-----------------------------------------------------------------------------
Goto(p, l) == pc' = [pc EXCEPT ![p] = l]

\* A run of the job that ends makes room for a later one.
Rest(p) == IF p \in Crons THEN "idle" ELSE "done"

\* findByIdAndUpdate: without a document it changes nothing and returns null.
SetStatus(st) ==
    /\ status' = IF status = "deleted" THEN status ELSE st
    /\ declared' = FALSE

\* A reason for a second mail, if b.
Excuse(b) == excused' = (excused \/ b)

Working == {"mark", "read", "next", "mailing", "fail"}

-----------------------------------------------------------------------------
\* sendCampaign.

\* Mutant: the comparison with scheduledDate is turned round.
CronFindFuture(k) ==
    /\ pc[k] = "idle"
    /\ status = "scheduled" /\ date = "ahead"
    /\ Goto(k, "found")
    /\ UNCHANGED <<status, declared, settings, analytics, optedOut, sending, faults, excused>>

\* processScheduledCampaigns looks for the campaigns that are due.
CronFind(k) ==
    /\ pc[k] = "idle"
    /\ status = "scheduled" /\ date = "passed"
    /\ Goto(k, "found")
    /\ UNCHANGED <<status, declared, settings, analytics, optedOut, sending, faults, excused>>

RequestSend(m) ==
    /\ pc[m] = "idle"
    /\ Goto(m, "found")
    /\ UNCHANGED <<status, declared, settings, analytics, optedOut, sending, faults, excused>>

\* Mutant: a sent campaign may be sent again.
BeginUnchecked(s) ==
    /\ pc[s] = "found"
    /\ Goto(s, IF status = "deleted" \/ ~complete THEN Rest(s) ELSE "mark")
    /\ Excuse(status # "deleted" /\ complete /\ \E t \in Senders : pc[t] \in Working)
    /\ UNCHANGED <<status, declared, settings, analytics, optedOut, sending, faults>>

\* The campaign is read; one that is sent, or without recipients or content,
\* is refused and its status left as it is.
Begin(s) ==
    /\ pc[s] = "found"
    /\ LET refused == status \in {"sent", "deleted"} \/ ~complete
       IN  /\ Goto(s, IF refused THEN Rest(s) ELSE "mark")
           /\ Excuse(~refused /\ \E t \in Senders : pc[t] \in Working)
    /\ UNCHANGED <<status, declared, settings, analytics, optedOut, sending, faults>>

Mark(s) ==
    /\ pc[s] = "mark"
    /\ SetStatus("sending")
    /\ Goto(s, "read")
    /\ UNCHANGED <<settings, analytics, optedOut, sending, faults, excused>>

\* The entries of the list, but for the e-mails that have opted out.
Wanted == {r \in Recipients : EmailOf[r] \notin optedOut}

Read(s) ==
    /\ pc[s] = "read"
    /\ todo' = [todo EXCEPT ![s] = Wanted]
    /\ Goto(s, "next")
    /\ UNCHANGED <<status, declared, settings, analytics, optedOut, batch, sent, mails, tried,
                   faults, excused>>

NextBatch(s) ==
    /\ pc[s] = "next"
    /\ \E b \in SUBSET todo[s] \ {{}} :
          /\ Cardinality(b) <= BatchSize /\ (Cardinality(b) = BatchSize \/ b = todo[s])
          /\ batch' = [batch EXCEPT ![s] = b]
          /\ todo' = [todo EXCEPT ![s] = @ \ b]
    /\ Goto(s, "mailing")
    /\ UNCHANGED <<status, declared, settings, analytics, optedOut, sent, mails, tried,
                   faults, excused>>

\* The mails of a batch go out in any order, and one that is rejected ends
\* nothing.
Mail(s, r) ==
    /\ pc[s] = "mailing"
    /\ r \in batch[s]
    /\ batch' = [batch EXCEPT ![s] = @ \ {r}]
    /\ tried' = tried \cup {r}
    /\ \/ /\ mails' = [mails EXCEPT ![r] = @ + 1]
          /\ sent' = [sent EXCEPT ![s] = @ + 1]
       \/ UNCHANGED <<mails, sent>>
    /\ UNCHANGED <<status, declared, settings, analytics, optedOut, pc, todo,
                   faults, excused>>

\* Mutant: the count is that of the batch.
ProgressByBatch(s) ==
    /\ pc[s] = "mailing"
    /\ batch[s] = {}
    /\ analytics' = sent[s]
    /\ sent' = [sent EXCEPT ![s] = 0]
    /\ Goto(s, "next")
    /\ UNCHANGED <<status, declared, settings, optedOut, todo, batch, mails, tried, faults, excused>>

Progress(s) ==
    /\ pc[s] = "mailing"
    /\ batch[s] = {}
    /\ analytics' = sent[s]
    /\ Goto(s, "next")
    /\ UNCHANGED <<status, declared, settings, optedOut, sending, faults, excused>>

\* Mutant: the loop ends one batch early.
FinishEarly(s) ==
    /\ pc[s] = "next"
    /\ Cardinality(todo[s]) <= BatchSize
    /\ SetStatus("sent")
    /\ analytics' = sent[s]
    /\ sent' = [sent EXCEPT ![s] = 0]
    /\ todo' = [todo EXCEPT ![s] = {}]
    /\ Goto(s, Rest(s))
    /\ UNCHANGED <<settings, optedOut, batch, mails, tried, faults, excused>>

\* The campaign is sent, whatever its status has become, unless it is deleted.
Finish(s) ==
    /\ pc[s] = "next"
    /\ todo[s] = {}
    /\ SetStatus("sent")
    /\ analytics' = sent[s]
    /\ sent' = [sent EXCEPT ![s] = 0]
    /\ Goto(s, Rest(s))
    /\ UNCHANGED <<settings, optedOut, todo, batch, mails, tried, faults, excused>>

\* Mutant: a status the schema does not know.
FailAsError(s) ==
    /\ pc[s] = "fail"
    /\ SetStatus("error")
    /\ Goto(s, Rest(s))
    /\ UNCHANGED <<settings, analytics, optedOut, sending, faults, excused>>

\* The catch block.
Fail(s) ==
    /\ pc[s] = "fail"
    /\ SetStatus("failed")
    /\ Goto(s, Rest(s))
    /\ UNCHANGED <<settings, analytics, optedOut, sending, faults, excused>>

-----------------------------------------------------------------------------
\* The other requests read the campaign, test its status, and write.

AskSchedule(q) ==
    /\ pc[q] = "idle"
    /\ Goto(q, IF status \in {"sent", "deleted"} THEN "done" ELSE "schedule")
    /\ UNCHANGED <<status, declared, settings, analytics, optedOut, sending, faults, excused>>

AskCancel(q) ==
    /\ pc[q] = "idle"
    /\ Goto(q, IF status \in {"sent", "sending", "deleted"} THEN "done" ELSE "cancel")
    /\ UNCHANGED <<status, declared, settings, analytics, optedOut, sending, faults, excused>>

AskDelete(q) ==
    /\ pc[q] = "idle"
    /\ Goto(q, IF status \in {"sending", "deleted"} THEN "done" ELSE "delete")
    /\ UNCHANGED <<status, declared, settings, analytics, optedOut, sending, faults, excused>>

AskUpdate(q) ==
    /\ pc[q] = "idle"
    /\ Goto(q, IF status \in {"sent", "deleted"} THEN "done" ELSE "update")
    /\ UNCHANGED <<status, declared, settings, analytics, optedOut, sending, faults, excused>>

\* A status that was set meanwhile is overwritten.
Schedule(q) ==
    /\ pc[q] = "schedule"
    /\ SetStatus("scheduled")
    /\ date' = "ahead"
    /\ Excuse(status = "sent")
    /\ Goto(q, "done")
    /\ UNCHANGED <<complete, analytics, optedOut, sending, faults>>

Cancel(q) ==
    /\ pc[q] = "cancel"
    /\ SetStatus("cancelled")
    /\ Excuse(status = "sent")
    /\ Goto(q, "done")
    /\ UNCHANGED <<settings, analytics, optedOut, sending, faults>>

\* An edit may carry a status, any of the enumeration, a date of any time or
\* null, and other recipients and content.
Update(q) ==
    /\ pc[q] = "update"
    /\ IF status = "deleted"
          THEN UNCHANGED <<status, declared, settings>>
          ELSE /\ \/ UNCHANGED <<status, declared>>
                  \/ status' \in Statuses \ {"deleted"} /\ declared' = TRUE
               /\ complete' \in BOOLEAN
               /\ date' \in Dates
    /\ Excuse(status = "sent" /\ status' # "sent")
    /\ Goto(q, "done")
    /\ UNCHANGED <<analytics, optedOut, sending, faults>>

Delete(q) ==
    /\ pc[q] = "delete"
    /\ SetStatus("deleted")
    /\ Goto(q, "done")
    /\ UNCHANGED <<settings, analytics, optedOut, sending, faults, excused>>

-----------------------------------------------------------------------------
\* Recipients.

Unsubscribe(e) ==
    /\ optedOut' = optedOut \cup {e}
    /\ UNCHANGED <<status, declared, settings, analytics, pc, sending, faults, excused>>

-----------------------------------------------------------------------------
\* The scheduled date passes.
Due ==
    /\ date = "ahead"
    /\ date' = "passed"
    /\ UNCHANGED <<status, declared, complete, analytics, optedOut, pc, sending, faults, excused>>

Fault ==
    /\ faults < MaxFaults
    /\ faults' = faults + 1
    /\ excused' = TRUE

\* A rejected call of sendCampaign reaches the catch block, but for the first
\* one; a rejected call of the others ends them.
CallRejected(p) ==
    /\ pc[p] \notin {"idle", "done"}
    /\ p \in Senders => pc[p] # "mailing" \/ batch[p] = {}
    /\ Fault
    /\ Goto(p, IF pc[p] \in {"read", "next", "mailing"} THEN "fail" ELSE Rest(p))
    /\ todo' = [s \in Senders |-> IF s = p THEN {} ELSE todo[s]]
    /\ sent' = [s \in Senders |-> IF s = p THEN 0 ELSE sent[s]]
    /\ UNCHANGED <<status, declared, settings, analytics, optedOut, batch, mails, tried>>

Crash ==
    /\ Fault
    /\ pc' = [p \in Processes |-> IF pc[p] = "idle" THEN "idle" ELSE Rest(p)]
    /\ todo' = [s \in Senders |-> {}]
    /\ batch' = [s \in Senders |-> {}]
    /\ sent' = [s \in Senders |-> 0]
    /\ UNCHANGED <<status, declared, settings, analytics, optedOut, mails, tried>>

-----------------------------------------------------------------------------
Advance(s) ==
    \/ Begin(s) \/ Mark(s) \/ Read(s) \/ NextBatch(s)
    \/ \E r \in Recipients : Mail(s, r)
    \/ Progress(s) \/ Finish(s) \/ Fail(s)

Next ==
    \/ \E k \in Crons : CronFind(k)
    \/ \E m \in Manuals : RequestSend(m)
    \/ \E s \in Senders : Advance(s)
    \/ \E q \in Requests :
          \/ AskSchedule(q) \/ AskCancel(q) \/ AskUpdate(q) \/ AskDelete(q)
          \/ Schedule(q) \/ Cancel(q) \/ Update(q) \/ Delete(q)
    \/ \E e \in Emails : Unsubscribe(e)
    \/ Due
    \/ \E p \in Processes : CallRejected(p)
    \/ Crash

\* The clock runs, the job is run every minute, and a call returns.
Fairness ==
    /\ WF_vars(Due)
    /\ \A k \in Crons : WF_vars(CronFind(k))
    /\ \A s \in Senders : WF_vars(Advance(s))

Spec == Init /\ [][Next]_vars
FairSpec == Spec /\ Fairness

-----------------------------------------------------------------------------
\* The mails to an e-mail, and the entries of the list that have it.
EntriesOf(e) == {r \in Recipients : EmailOf[r] = e}
MailsTo(e) == SumFunctionOnSet(mails, EntriesOf(e))

\* Nobody gets more mails of the campaign than the list has entries of his
\* e-mail, unless a second sender read the status before the first had set it
\* to sent, a request overwrote that status from an older one, or a call failed
\* or the process died.
SecondMailHasACause ==
    (\E e \in Emails : MailsTo(e) > Cardinality(EntriesOf(e))) => excused

\* A campaign that a sender, whichever of several, marked as sent has been sent,
\* or tried, to everyone listed who has not opted out.
SentIsComplete == status = "sent" /\ ~declared => Wanted \subseteq tried

\* Its count is that of the mails, if no sender interfered with another.
SentCountIsExact ==
    status = "sent" /\ ~declared /\ ~excused => analytics = SumFunction(mails)

\* A scheduled campaign with a date, recipients and content does not stay
\* scheduled, nor half sent unless something failed or an edit said so.
ScheduledIsSettled ==
    status = "scheduled" /\ complete /\ date # "none"
        ~> \/ status \notin {"scheduled", "sending"}
           \/ ~complete \/ date = "none"
           \/ status = "sending" /\ declared
           \/ faults > 0
=============================================================================
