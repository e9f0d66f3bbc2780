------------------------------ MODULE GlobalSync ------------------------------
(***************************************************************************)
(* The replica of one event or meeting of the Global API: RabbitMQService, *)
(* GlobalSyncConsumer and GlobalSyncService.  Resources with different     *)
(* globalIds share no document, so one resource is modelled; the paths of  *)
(* events and of meetings make the same steps (a meeting also looks up its *)
(* host, a read between two steps that are apart anyway).                  *)
(*                                                                         *)
(* The consumer sets no prefetch and does not wait for a handler before it *)
(* takes the next message, so handlers of consecutive messages interleave  *)
(* at every await.  A message is acknowledged by its delivery tag on       *)
(* whatever channel is current when its handler ends; the broker delivers  *)
(* again what was not acknowledged when a connection or the process ends.  *)
(* globalId has no unique index.                                           *)
(*                                                                         *)
(* A message is named by its position, which is also the version it        *)
(* carries; a document by the delivery whose handler inserted it.          *)
(***************************************************************************)
EXTENDS Integers, FiniteSetsExt

CONSTANTS
    MaxMessages,   \* bound on the messages published about the resource
    MaxChannels,   \* bound on the connections opened
    MaxFaults,     \* bound on lost connections and restarts
    MaxErrors      \* bound on rejected database calls

ASSUME MessagesAssumption == MaxMessages \in Nat \ {0}
ASSUME ChannelsAssumption == MaxChannels \in Nat
ASSUME FaultsAssumption == MaxFaults \in Nat /\ MaxErrors \in Nat

Messages == 1 .. MaxMessages
Channels == 1 .. MaxChannels
Tags == Messages              \* a channel delivers a message at most once
Handlers == Channels \X Tags  \* a delivery and the handler call for it

VARIABLES
    kind,        \* what each message published so far says
    refused,     \* messages whose content the schema's validators refuse
    ready,       \* messages waiting in the broker's queue
    unacked,     \* message delivered under each tag of the current channel
    channel, connected, nextTag,
    hpc, work,   \* await of each handler, and its message
    copy,        \* the document a cancellation has loaded
    doc,         \* the Event or Meeting documents with this globalId
    handled,     \* ghost: messages of which a handler has ended
    overlapped,  \* ghost: two handlers have run at the same time
    orphaned,    \* ghost: a new channel was opened while a handler ran
    faults, errors

brokerVars == <<kind, refused, ready, unacked, channel, connected, nextTag>>
handlerVars == <<hpc, work, copy>>
ghostVars == <<handled, overlapped, orphaned>>
vars == <<brokerVars, handlerVars, doc, ghostVars, faults, errors>>

Kinds == {"created", "updated", "cancelled", "deleted", "elsewhere"}
NoMessage == 0
Busy == {"findCreate", "insert", "findUpdate", "write", "findCancel", "cancel",
         "delete", "synced", "failed", "ack"}
Document == [live : BOOLEAN, version : Messages \cup {NoMessage}, cancelled : BOOLEAN]
NoDocument == [live |-> FALSE, version |-> NoMessage, cancelled |-> FALSE]
Copy == [of : Handlers, cancelled : BOOLEAN]
NoCopy(h) == [of |-> h, cancelled |-> FALSE]

TypeOK ==
    /\ kind \in [Messages -> Kinds \cup {"unsent"}]
    /\ refused \subseteq Messages
    /\ ready \subseteq Messages
    /\ unacked \in [Tags -> Messages \cup {NoMessage}]
    /\ channel \in 0 .. MaxChannels
    /\ connected \in BOOLEAN
    /\ nextTag \in 1 .. MaxMessages + 1
    /\ hpc \in [Handlers -> Busy \cup {"idle"}]
    /\ work \in [Handlers -> Messages \cup {NoMessage}]
    /\ copy \in [Handlers -> Copy]
    /\ doc \in [Handlers -> Document]
    /\ handled \subseteq Messages
    /\ overlapped \in BOOLEAN /\ orphaned \in BOOLEAN
    /\ faults \in Nat /\ errors \in Nat
    /\ \A h \in Handlers :
          /\ hpc[h] \in Busy => work[h] \in Messages
          /\ doc[h].live => doc[h].version \in Messages
    /\ connected => channel \in Channels

Init ==
    /\ kind = [m \in Messages |-> "unsent"]
    /\ refused = {}
    /\ ready = {}
    /\ unacked = [t \in Tags |-> NoMessage]
    /\ channel = 0
    /\ connected = FALSE
    /\ nextTag = 1
    /\ hpc = [h \in Handlers |-> "idle"]
    /\ work = [h \in Handlers |-> NoMessage]
    /\ copy = [h \in Handlers |-> NoCopy(h)]
    /\ doc = [h \in Handlers |-> NoDocument]
    /\ handled = {}
    /\ overlapped = FALSE
    /\ orphaned = FALSE
    /\ faults = 0
    /\ errors = 0

-----------------------------------------------------------------------------
Published == {m \in Messages : kind[m] # "unsent"}
Sent(k) == \E m \in Messages : kind[m] = k
Running == {h \in Handlers : hpc[h] \in Busy}
Existing == {d \in Handlers : doc[d].live}
Delivered == {m \in Messages : \E t \in Tags : unacked[t] = m}

HandlerGoto(h, l) == hpc' = [hpc EXCEPT ![h] = l]

(***************************************************************************)
(* The Global API and the broker                                           *)
(***************************************************************************)

\* A resource is created first, not updated after its cancellation, and deleted
\* last; a message may be meant for other regions only.  What a creation or an
\* update says may be refused here: a meeting without a join URL (roomUrl is
\* required), or one of ten minutes.
Publish(k) ==
    /\ Published # Messages
    /\ kind' = [kind EXCEPT ![Min(Messages \ Published)] = k]
    /\ \/ UNCHANGED refused
       \/ /\ k \in {"created", "updated"}
          /\ refused' = refused \cup {Min(Messages \ Published)}
    /\ ready' = ready \cup {Min(Messages \ Published)}
    /\ ~Sent("deleted")
    /\ k = "created" => Published = {}
    /\ k \in {"updated", "cancelled", "deleted"} => Published # {}
    /\ k \in {"updated", "cancelled"} => ~Sent("cancelled")
    /\ UNCHANGED <<unacked, channel, connected, nextTag, handlerVars, doc, ghostVars,
                   faults, errors>>

\* The queue is durable and delivers in order, what it had to requeue first.
Begin(m) == CASE kind[m] = "created" -> "findCreate"
              [] kind[m] = "updated" -> "findUpdate"
              [] kind[m] = "cancelled" -> "findCancel"
              [] kind[m] = "deleted" -> "delete"
              [] kind[m] = "elsewhere" -> "ack"

\* Mutant: messages are consumed without acknowledgement (noAck).
DeliverUnrecorded ==
    /\ connected /\ ready # {} /\ nextTag <= MaxMessages
    /\ LET m == Min(ready)
           h == <<channel, nextTag>>
       IN /\ ready' = ready \ {m}
          /\ work' = [work EXCEPT ![h] = m]
          /\ HandlerGoto(h, Begin(m))
    /\ nextTag' = nextTag + 1
    /\ overlapped' = (overlapped \/ Running # {})
    /\ UNCHANGED <<kind, refused, unacked, channel, connected, copy, doc, handled, orphaned,
                   faults, errors>>

\* The consume callback starts the handler of the message's type.
Deliver ==
    /\ connected /\ ready # {} /\ nextTag <= MaxMessages
    /\ LET m == Min(ready)
           h == <<channel, nextTag>>
       IN /\ ready' = ready \ {m}
          /\ unacked' = [unacked EXCEPT ![nextTag] = m]
          /\ work' = [work EXCEPT ![h] = m]
          /\ HandlerGoto(h, Begin(m))
    /\ nextTag' = nextTag + 1
    /\ overlapped' = (overlapped \/ Running # {})
    /\ UNCHANGED <<kind, refused, channel, connected, copy, doc, handled, orphaned, faults, errors>>

-----------------------------------------------------------------------------
(***************************************************************************)
(* GlobalSyncService.  findOne and findOneAndUpdate take any document with *)
(* the globalId.                                                           *)
(***************************************************************************)

\* Mutant: an event is inserted without looking for it.
InsertUnchecked(h) ==
    /\ hpc[h] = "findCreate"
    /\ HandlerGoto(h, "insert")
    /\ UNCHANGED <<brokerVars, work, copy, doc, ghostVars, faults, errors>>

\* createEventFromGlobal: a document at this version or a later one ends the
\* handler, an older one is left to the update path.
FindForCreate(h) ==
    /\ hpc[h] = "findCreate"
    /\ \/ Existing = {} /\ HandlerGoto(h, "insert")
       \/ \E d \in Existing :
             HandlerGoto(h, IF doc[d].version >= work[h] THEN "synced" ELSE "findUpdate")
    /\ UNCHANGED <<brokerVars, work, copy, doc, ghostVars, faults, errors>>

\* Mutant: the version is not stored.
InsertUnversioned(h) ==
    /\ hpc[h] = "insert"
    /\ doc' = [doc EXCEPT ![h] = [live |-> TRUE, version |-> NoMessage, cancelled |-> FALSE]]
    /\ HandlerGoto(h, "synced")
    /\ UNCHANGED <<brokerVars, work, copy, ghostVars, faults, errors>>

\* save() validates the document first and throws what it refuses.
Insert(h) ==
    /\ hpc[h] = "insert"
    /\ IF work[h] \in refused
       THEN HandlerGoto(h, "failed") /\ UNCHANGED doc
       ELSE /\ doc' = [doc EXCEPT ![h] =
                          [live |-> TRUE, version |-> work[h], cancelled |-> FALSE]]
            /\ HandlerGoto(h, "synced")
    /\ UNCHANGED <<brokerVars, work, copy, ghostVars, faults, errors>>

\* Mutant: an update of an unknown event is ignored.
FindForUpdateOnly(h) ==
    /\ hpc[h] = "findUpdate"
    /\ \/ Existing = {} /\ HandlerGoto(h, "synced")
       \/ \E d \in Existing :
             HandlerGoto(h, IF doc[d].version >= work[h] THEN "synced" ELSE "write")
    /\ UNCHANGED <<brokerVars, work, copy, doc, ghostVars, faults, errors>>

\* updateEventFromGlobal: an unknown event is created instead.
FindForUpdate(h) ==
    /\ hpc[h] = "findUpdate"
    /\ \/ Existing = {} /\ HandlerGoto(h, "findCreate")
       \/ \E d \in Existing :
             HandlerGoto(h, IF doc[d].version >= work[h] THEN "synced" ELSE "write")
    /\ UNCHANGED <<brokerVars, work, copy, doc, ghostVars, faults, errors>>

\* findOneAndUpdate: the filter does not repeat the version.  Without a
\* document its result is null, and reading its name throws.  No validators run,
\* so that refused content is stored, unless it cannot even be cast.
Write(h) ==
    /\ hpc[h] = "write"
    /\ \/ /\ Existing = {} \/ work[h] \in refused
          /\ HandlerGoto(h, "failed")
          /\ UNCHANGED doc
       \/ \E d \in Existing :
             /\ doc' = [doc EXCEPT ![d] =
                           [live |-> TRUE, version |-> work[h], cancelled |-> FALSE]]
             /\ HandlerGoto(h, "synced")
    /\ UNCHANGED <<brokerVars, work, copy, ghostVars, faults, errors>>

\* cancelEventFromGlobal: cancelling an unknown event counts as synced.  Before
\* it writes, save() validates everything that was loaded, and throws if an
\* update has stored refused content.
FindToCancel(h) ==
    /\ hpc[h] = "findCancel"
    /\ \/ Existing = {} /\ HandlerGoto(h, "synced") /\ UNCHANGED copy
       \/ /\ \E d \in Existing : doc[d].version \in refused
          /\ HandlerGoto(h, "failed")
          /\ UNCHANGED copy
       \/ \E d \in Existing :
             /\ copy' = [copy EXCEPT ![h] = [of |-> d, cancelled |-> doc[d].cancelled]]
             /\ HandlerGoto(h, "cancel")
    /\ UNCHANGED <<brokerVars, work, doc, ghostVars, faults, errors>>

\* save() by _id: writes the status if the copy's was another, and throws if the
\* document is gone.
SaveCancelled(h) ==
    /\ hpc[h] = "cancel"
    /\ LET d == copy[h].of
       IN IF doc[d].live
          THEN /\ doc' = [doc EXCEPT ![d].cancelled = IF copy[h].cancelled THEN @ ELSE TRUE]
               /\ HandlerGoto(h, "synced")
          ELSE HandlerGoto(h, "failed") /\ UNCHANGED doc
    /\ copy' = [copy EXCEPT ![h] = NoCopy(h)]
    /\ UNCHANGED <<brokerVars, work, ghostVars, faults, errors>>

\* deleteOne; nothing is reported.
Delete(h) ==
    /\ hpc[h] = "delete"
    /\ \/ Existing = {} /\ UNCHANGED doc
       \/ \E d \in Existing : doc' = [doc EXCEPT ![d] = NoDocument]
    /\ HandlerGoto(h, "ack")
    /\ UNCHANGED <<brokerVars, work, copy, ghostVars, faults, errors>>

\* A database call rejects: the consumer catches it and reports a failure, but
\* not of a deletion.
DatabaseError(h) ==
    /\ errors < MaxErrors
    /\ \/ /\ hpc[h] \in {"findCreate", "insert", "findUpdate", "write", "findCancel", "cancel"}
          /\ HandlerGoto(h, "failed")
       \/ hpc[h] = "delete" /\ HandlerGoto(h, "ack")
    /\ copy' = [copy EXCEPT ![h] = NoCopy(h)]
    /\ errors' = errors + 1
    /\ UNCHANGED <<brokerVars, work, doc, ghostVars, faults>>

-----------------------------------------------------------------------------
(***************************************************************************)
(* Acknowledgement, lost connections and restarts                          *)
(***************************************************************************)
Requeue ==
    /\ ready' = ready \cup Delivered
    /\ unacked' = [t \in Tags |-> NoMessage]
    /\ connected' = FALSE

Restart ==
    /\ hpc' = [h \in Handlers |-> "idle"]
    /\ work' = [h \in Handlers |-> NoMessage]
    /\ copy' = [h \in Handlers |-> NoCopy(h)]

\* The handler call is over.
End(h) ==
    /\ HandlerGoto(h, "idle")
    /\ work' = [work EXCEPT ![h] = NoMessage]
    /\ UNCHANGED copy

\* The status is reported to the Global API (reportSyncStatus never throws) and
\* the handler returns.  The tag is acknowledged on the current channel,
\* whichever channel delivered the message.  The broker answers a tag it does
\* not know by closing the channel, which ends the connection or, unhandled, the
\* process.  Without a connection the call throws and the handler is over.
Ack(h) ==
    /\ hpc[h] \in {"synced", "failed", "ack"}
    /\ handled' = handled \cup {work[h]}
    /\ IF ~connected
       THEN End(h) /\ UNCHANGED <<ready, unacked, connected>>
       ELSE IF unacked[h[2]] # NoMessage
       THEN /\ unacked' = [unacked EXCEPT ![h[2]] = NoMessage]
            /\ End(h)
            /\ UNCHANGED <<ready, connected>>
       ELSE /\ Requeue
            /\ \/ Restart
               \/ End(h)
    /\ UNCHANGED <<kind, refused, channel, nextTag, doc, overlapped, orphaned, faults, errors>>

ConnectionLost ==
    /\ faults < MaxFaults
    /\ connected
    /\ Requeue
    /\ faults' = faults + 1
    /\ UNCHANGED <<kind, refused, channel, nextTag, handlerVars, doc, ghostVars, errors>>

\* Mutant: the connection is not opened again.
ConnectOnce ==
    /\ ~connected
    /\ channel = 0 /\ channel < MaxChannels
    /\ connected' = TRUE
    /\ channel' = channel + 1
    /\ nextTag' = 1
    /\ orphaned' = (orphaned \/ Running # {})
    /\ UNCHANGED <<kind, refused, ready, unacked, handlerVars, doc, handled, overlapped, faults,
                   errors>>

\* connect(), at the start and five seconds after every close.
Connect ==
    /\ ~connected
    /\ channel < MaxChannels
    /\ connected' = TRUE
    /\ channel' = channel + 1
    /\ nextTag' = 1
    /\ orphaned' = (orphaned \/ Running # {})
    /\ UNCHANGED <<kind, refused, ready, unacked, handlerVars, doc, handled, overlapped, faults,
                   errors>>

Crash ==
    /\ faults < MaxFaults
    /\ Requeue
    /\ Restart
    /\ faults' = faults + 1
    /\ UNCHANGED <<kind, refused, channel, nextTag, doc, ghostVars, errors>>

-----------------------------------------------------------------------------
HandlerStep(h) ==
    \/ FindForCreate(h) \/ Insert(h) \/ FindForUpdate(h) \/ Write(h)
    \/ FindToCancel(h) \/ SaveCancelled(h) \/ Delete(h) \/ Ack(h)

Next ==
    \/ \E k \in Kinds : Publish(k)
    \/ Deliver \/ Connect \/ ConnectionLost \/ Crash
    \/ \E h \in Handlers : HandlerStep(h) \/ DatabaseError(h)

Spec == Init /\ [][Next]_vars

\* The client reconnects, the broker delivers, and a handler's awaits settle
\* (its one call outside the database reports to the Global API).
Fairness ==
    /\ WF_vars(Connect)
    /\ WF_vars(Deliver)
    /\ \A h \in Handlers : WF_vars(HandlerStep(h))

FairSpec == Spec /\ Fairness

-----------------------------------------------------------------------------
\* A published message is waiting, delivered, or has been handled to the end,
\* through any crash and any lost connection; it can only get lost once handlers
\* of an old channel acknowledge on a new one.
NothingLost ==
    ~orphaned => \A m \in Published : m \in ready \/ m \in Delivered \/ m \in handled

Versioned == {m \in Published : kind[m] \in {"created", "updated"}}
Accepted == Versioned \ refused

\* Whatever overlaps, crashes and is delivered again: once a creation or an
\* update that the schema accepts has been handled, the resource is known here,
\* until it is deleted.  A refused creation does not keep a later update out.
HandledIsKnown ==
    errors = 0 /\ ~Sent("deleted") /\ Accepted \cap handled # {}
        => Existing # {}

\* A failure is reported to the Global API only when the database failed, the
\* resource was being deleted or its content is refused, never because two
\* handlers met.
FailureIsDeletion ==
    errors = 0 /\ ~Sent("deleted") =>
        \A h \in Handlers : hpc[h] = "failed" =>
            work[h] \in refused \/ (kind[work[h]] = "cancelled" /\ refused # {})

\* Handlers that happen to run one after the other leave exactly what was
\* published last, also when messages are delivered again after a restart.  A
\* refused update may or may not have been stored; if it is, the cancellation may
\* have failed on it.
SequentialReplica ==
    ~overlapped /\ errors = 0 /\ Published \subseteq handled /\ Running = {} =>
        IF Accepted = {} \/ Sent("deleted")
        THEN Existing = {}
        ELSE \E d \in Handlers :
                /\ Existing = {d}
                /\ doc[d].version \in Versioned
                /\ doc[d].version >= Max(Accepted)
                /\ doc[d].version \notin refused => doc[d].cancelled = Sent("cancelled")

\* Every message is handled in the end, if no handler outlives its channel.
Drained == \A m \in Messages : m \in Published ~> m \in handled \/ orphaned
=============================================================================
