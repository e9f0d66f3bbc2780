--------------------------- MODULE GlobalSyncProofs ---------------------------
(***************************************************************************)
(* Proofs about GlobalSync for any numbers of messages, channels, faults   *)
(* and errors.                                                             *)
(*                                                                         *)
(* Three things are added to the properties to make them inductive.  What  *)
(* a handler stands at agrees with what its message says (Stages).  A      *)
(* running handler of the current channel holds a delivery tag of its own, *)
(* and while no channel was opened over a running handler, that tag still  *)
(* names the handler's message (TagsAreOwned).  And until a deletion is    *)
(* published, a document a handler has found stays (FoundStays).           *)
(*                                                                         *)
(* When handlers happen not to overlap, messages are handled in the order  *)
(* of publication: there is a frontier such that the documents are those of*)
(* the messages up to it, all later messages are still to be handled, and  *)
(* what is delivered again is not before it (InTurn).                      *)
(***************************************************************************)
EXTENDS GlobalSync, WellFoundedInduction, TLAPS

\* The await of a handler belongs to the kind of its message.
Stage(h) ==
    /\ work[h] \in Published
    /\ hpc[h] \in {"findCreate", "insert", "findUpdate", "write"} =>
          kind[work[h]] \in {"created", "updated"}
    /\ hpc[h] \in {"findCancel", "cancel"} => kind[work[h]] = "cancelled"
    /\ hpc[h] = "delete" => kind[work[h]] = "deleted"
    /\ hpc[h] = "ack" => kind[work[h]] \in {"deleted", "elsewhere"}

\* Messages in the broker and in handlers were published.
Stages ==
    /\ ready \cup Delivered \cup handled \subseteq Published
    /\ \A h \in Handlers : hpc[h] # "idle" => Stage(h)

\* The tags of the current channel, and who holds them.
TagsAreOwned ==
    /\ \A t \in Tags : t >= nextTag \/ ~connected => unacked[t] = NoMessage
    /\ \A h \in Handlers : hpc[h] # "idle" =>
          /\ h[1] <= channel
          /\ h[1] = channel => h[2] < nextTag
          /\ connected /\ ~orphaned => h[1] = channel /\ unacked[h[2]] = work[h]

\* Before a deletion is published, what a handler has found is still there.
FoundStays ==
    ~Sent("deleted") =>
        \A h \in Handlers :
            /\ hpc[h] = "write" => Existing # {}
            /\ hpc[h] = "cancel" => doc[copy[h].of].live
            /\ hpc[h] = "synced" /\ work[h] \in Versioned => Existing # {}

IInv ==
    /\ TypeOK
    /\ Stages
    /\ TagsAreOwned
    /\ NothingLost
    /\ FoundStays
    /\ FailureIsDeletion
    /\ HandledIsKnown

USE DEF brokerVars, handlerVars, ghostVars

\* Min of a nonempty set of natural numbers is its least member.
LEMMA MinIsMember ==
  ASSUME NEW S \in SUBSET Nat, S # {}
  PROVE  Min(S) \in S /\ \A n \in S : Min(S) <= n
  <1>1. PICK m \in S : \A n \in S : ~(<<n, m>> \in OpToRel(<, Nat))
    BY WFMin, NatLessThanWellFounded, Zenon
  <1>2. \A n \in S : ~(n < m)
    BY <1>1, Zenon DEF OpToRel
  <1>3. \A n \in S : m <= n
    BY <1>2
  <1> QED
    BY <1>3, Zenon DEF Min

\* Max of a nonempty bounded set of natural numbers is its greatest member.
LEMMA MaxIsMember ==
  ASSUME NEW S \in SUBSET Nat, S # {}, \E n \in Nat : \A m \in S : m <= n
  PROVE  Max(S) \in S
  <1>1. PICK n \in Nat : \A m \in S : m <= n
    OBVIOUS
  <1> DEFINE Gaps == {n - m : m \in S}
  <1>2. Gaps \in SUBSET Nat /\ Gaps # {}
    <2>1. \A m \in S : n - m \in Nat
      BY <1>1
    <2> QED
      BY <2>1
  <1>3. PICK g \in Gaps : \A f \in Gaps : g <= f
    <2> HIDE DEF Gaps
    <2> QED
      BY <1>2, MinIsMember
  <1>4. PICK x \in S : g = n - x
    BY <1>3
  <1>5. \A m \in S : x >= m
    <2> SUFFICES ASSUME NEW m \in S PROVE x >= m
      OBVIOUS
    <2>1. n - m \in Gaps
      OBVIOUS
    <2>2. n - x <= n - m
      BY <1>3, <1>4, <2>1
    <2>3. n \in Nat /\ x \in Nat /\ m \in Nat
      OBVIOUS
    <2> QED
      BY <2>2, <2>3
  <1> QED
    BY <1>5, Zenon DEF Max

\* Handlers are pairs of a channel and a tag.
LEMMA HandlerIsPair ==
  /\ \A h \in Handlers : h[1] \in Channels /\ h[2] \in Tags /\ h = <<h[1], h[2]>>
  /\ \A c \in Channels, t \in Tags : <<c, t>> \in Handlers
  BY DEF Handlers

USE MessagesAssumption, ChannelsAssumption, FaultsAssumption

\* The next message published, and the next one delivered, exist.
LEMMA NextMessages ==
  /\ Published # Messages => Min(Messages \ Published) \in Messages \ Published
  /\ TypeOK /\ ready # {} => Min(ready) \in ready
  <1>1. Published # Messages => Min(Messages \ Published) \in Messages \ Published
    <2>1. Published \subseteq Messages /\ Messages \subseteq Nat
      BY DEF Published, Messages
    <2> QED
      BY <2>1, MinIsMember
  <1>2. TypeOK => ready \subseteq Nat
    BY DEF TypeOK, Messages
  <1> QED
    BY <1>1, <1>2, MinIsMember

\* The message delivered next, and the handler that will run for it.
LEMMA NextDelivery ==
  ASSUME TypeOK, Deliver
  PROVE  /\ Min(ready) \in ready /\ Min(ready) \in Messages
         /\ <<channel, nextTag>> \in Handlers
         /\ nextTag \in Tags
  <1>1. Min(ready) \in ready
    BY NextMessages DEF Deliver
  <1>2. ready \subseteq Messages
    BY DEF TypeOK
  <1>3. channel \in Channels
    BY DEF TypeOK, Deliver, Channels
  <1>4. nextTag \in Tags
    <2>1. nextTag <= MaxMessages
      BY DEF Deliver
    <2>2. nextTag \in 1 .. MaxMessages + 1
      BY DEF TypeOK
    <2> QED
      BY <2>1, <2>2 DEF Tags, Messages
  <1>5. <<channel, nextTag>> \in Handlers
    BY <1>3, <1>4 DEF Handlers
  <1> QED
    BY <1>1, <1>2, <1>4, <1>5

\* The invariant holds before the first connection.
LEMMA InitIInv == Init => IInv
  <1> SUFFICES ASSUME Init PROVE IInv
    OBVIOUS
  <1> USE DEF Init
  <1>1. TypeOK
    <2>1. hpc \in [Handlers -> Busy \cup {"idle"}] /\ \A h \in Handlers : hpc[h] \notin Busy
      BY DEF Busy
    <2>2. copy \in [Handlers -> Copy]
      BY DEF Copy, NoCopy
    <2>3. doc \in [Handlers -> Document] /\ \A h \in Handlers : ~doc[h].live
      BY DEF Document, NoDocument
    <2>4. channel \in 0 .. MaxChannels /\ nextTag \in 1 .. MaxMessages + 1
      OBVIOUS
    <2> QED
      BY <2>1, <2>2, <2>3, <2>4 DEF TypeOK
  <1>2. Published = {} /\ Delivered = {}
    BY DEF Published, Delivered, Tags, Messages, NoMessage
  <1>3. Stages /\ TagsAreOwned
    BY <1>2 DEF Stages, TagsAreOwned
  <1>4. NothingLost /\ HandledIsKnown
    BY <1>2 DEF NothingLost, HandledIsKnown, Accepted, Versioned
  <1>5. FoundStays /\ FailureIsDeletion
    BY DEF FoundStays, FailureIsDeletion
  <1> QED
    BY <1>1, <1>3, <1>4, <1>5 DEF IInv

\* The handler of a message begins at an await, whatever the message says.
LEMMA BeginIsBusy ==
  ASSUME TypeOK, NEW m \in Published
  PROVE  Begin(m) \in Busy
  BY DEF TypeOK, Published, Kinds, Begin, Busy

\* Requeueing and restarting keep the types.
LEMMA RequeueTypes ==
  ASSUME TypeOK, Requeue
  PROVE  /\ ready' \subseteq Messages
         /\ unacked' \in [Tags -> Messages \cup {NoMessage}]
         /\ connected' = FALSE
         /\ ready' \cup Delivered' = ready \cup Delivered
  <1>1. NoMessage \notin Messages
    BY DEF NoMessage, Messages
  <1> QED
    BY <1>1 DEF TypeOK, Requeue, Delivered

LEMMA RestartTypes ==
  ASSUME Restart
  PROVE  /\ hpc' \in [Handlers -> Busy \cup {"idle"}]
         /\ \A h \in Handlers : hpc'[h] \notin Busy
         /\ work' \in [Handlers -> Messages \cup {NoMessage}]
         /\ copy' \in [Handlers -> Copy]
  BY DEF Restart, Busy, Copy, NoCopy

\* What TypeOK says of the documents.
DocTypes ==
    /\ doc \in [Handlers -> Document]
    /\ \A d \in Handlers : doc[d].live => doc[d].version \in Messages

\* A handler that moves on keeps the types of everything it leaves alone.
LEMMA HandlerTypes ==
  ASSUME TypeOK, NEW h \in Handlers, NEW l \in Busy, hpc[h] \in Busy, HandlerGoto(h, l),
         copy' \in [Handlers -> Copy], DocTypes',
         faults' \in Nat, errors' \in Nat,
         UNCHANGED <<brokerVars, work, ghostVars>>
  PROVE  TypeOK'
  <1>1. hpc' \in [Handlers -> Busy \cup {"idle"}]
    BY DEF TypeOK, HandlerGoto
  <1>2. \A d \in Handlers : hpc'[d] \in Busy => work'[d] \in Messages
    BY DEF TypeOK, HandlerGoto
  <1> QED
    BY <1>1, <1>2 DEF TypeOK, DocTypes

\* Every step keeps the types.
LEMMA NextTypeOK ==
  ASSUME TypeOK, Stages, [Next]_vars
  PROVE  TypeOK'
  <1> USE DEF TypeOK, DocTypes, Document, NoDocument, Copy, NoCopy, HandlerGoto
  <1>1. ASSUME NEW k \in Kinds, Publish(k) PROVE TypeOK'
    BY <1>1, NextMessages DEF Publish
  <1>2. CASE Deliver
    <2> DEFINE m == Min(ready)
               h == <<channel, nextTag>>
    <2>1. m \in Messages /\ m \in Published /\ h \in Handlers /\ nextTag \in Tags
      BY <1>2, NextDelivery DEF Stages
    <2>2. Begin(m) \in Busy
      BY <2>1, BeginIsBusy
    <2>3. nextTag' \in 1 .. MaxMessages + 1
      BY <1>2 DEF Deliver
    <2> HIDE DEF m, h
    <2>4. /\ hpc' = [hpc EXCEPT ![h] = Begin(m)]
          /\ work' = [work EXCEPT ![h] = m]
          /\ unacked' = [unacked EXCEPT ![nextTag] = m]
          /\ ready' = ready \ {m}
          /\ UNCHANGED <<kind, refused, channel, connected, copy, doc, handled, orphaned, faults, errors>>
          /\ overlapped' \in BOOLEAN
      BY <1>2 DEF Deliver, m, h, Running
    <2> QED
      BY <2>1, <2>2, <2>3, <2>4
  <1>3. CASE Connect
    BY <1>3 DEF Connect, Channels
  <1>4. CASE ConnectionLost
    <2>1. Requeue /\ UNCHANGED <<kind, refused, channel, nextTag, handlerVars, doc, ghostVars, errors>>
          /\ faults' \in Nat
      BY <1>4 DEF ConnectionLost
    <2> QED
      BY <2>1, RequeueTypes
  <1>5. CASE Crash
    <2>1. Requeue /\ Restart /\ UNCHANGED <<kind, refused, channel, nextTag, doc, ghostVars, errors>>
          /\ faults' \in Nat
      BY <1>5 DEF Crash
    <2> QED
      BY <2>1, RequeueTypes, RestartTypes
  <1>6. ASSUME NEW h \in Handlers, HandlerStep(h) PROVE TypeOK'
    <2>1. CASE FindForCreate(h)
      <3>1. \E l \in Busy : HandlerGoto(h, l)
        BY <2>1 DEF FindForCreate, Busy
      <3> QED
        BY <2>1, <3>1, HandlerTypes DEF FindForCreate, Busy
    <2>2. CASE Insert(h)
      <3>1. work[h] \in Messages /\ \E l \in Busy : HandlerGoto(h, l)
        BY <2>2 DEF Insert, Busy
      <3>2. DocTypes'
        <4>1. CASE UNCHANGED doc
          BY <4>1
        <4>2. CASE doc' = [doc EXCEPT ![h] =
                              [live |-> TRUE, version |-> work[h], cancelled |-> FALSE]]
          BY <3>1, <4>2
        <4> QED
          BY <2>2, <4>1, <4>2 DEF Insert
      <3>3. /\ hpc[h] \in Busy /\ copy' \in [Handlers -> Copy]
            /\ UNCHANGED <<brokerVars, work, ghostVars, faults, errors>>
        BY <2>2 DEF Insert, Busy
      <3> QED
        BY <3>1, <3>2, <3>3, HandlerTypes
    <2>3. CASE FindForUpdate(h)
      <3>1. \E l \in Busy : HandlerGoto(h, l)
        BY <2>3 DEF FindForUpdate, Busy
      <3> QED
        BY <2>3, <3>1, HandlerTypes DEF FindForUpdate, Busy
    <2>4. CASE Write(h)
      <3>1. work[h] \in Messages /\ \E l \in Busy : HandlerGoto(h, l)
        BY <2>4 DEF Write, Busy
      <3>2. DocTypes'
        <4>1. CASE UNCHANGED doc
          BY <4>1
        <4>2. ASSUME NEW d \in Handlers,
                     doc' = [doc EXCEPT ![d] =
                                [live |-> TRUE, version |-> work[h], cancelled |-> FALSE]]
              PROVE  DocTypes'
          BY <3>1, <4>2
        <4> QED
          BY <2>4, <4>1, <4>2 DEF Write, Existing
      <3> QED
        BY <2>4, <3>1, <3>2, HandlerTypes DEF Write, Busy
    <2>5. CASE FindToCancel(h)
      <3>1. \E l \in Busy : HandlerGoto(h, l)
        BY <2>5 DEF FindToCancel, Busy
      <3>2. copy' \in [Handlers -> Copy]
        BY <2>5 DEF FindToCancel, Existing
      <3> QED
        BY <2>5, <3>1, <3>2, HandlerTypes DEF FindToCancel, Busy
    <2>6. CASE SaveCancelled(h)
      <3>1. \E l \in Busy : HandlerGoto(h, l)
        BY <2>6 DEF SaveCancelled, Busy
      <3>2. copy' \in [Handlers -> Copy] /\ copy[h].of \in Handlers
        BY <2>6 DEF SaveCancelled
      <3>3. DocTypes'
        <4>1. CASE UNCHANGED doc
          BY <4>1
        <4>2. ASSUME NEW d \in Handlers, NEW b \in BOOLEAN, doc[d].live,
                     doc' = [doc EXCEPT ![d].cancelled = b]
              PROVE  DocTypes'
          BY <4>2
        <4>3. copy[h].cancelled \in BOOLEAN /\ doc[copy[h].of].cancelled \in BOOLEAN
          BY <3>2
        <4> QED
          BY <2>6, <3>2, <4>1, <4>2, <4>3 DEF SaveCancelled
      <3> QED
        BY <2>6, <3>1, <3>2, <3>3, HandlerTypes DEF SaveCancelled, Busy
    <2>7. CASE Delete(h)
      <3>1. DocTypes'
        <4>1. CASE UNCHANGED doc
          BY <4>1
        <4>2. ASSUME NEW d \in Handlers, doc' = [doc EXCEPT ![d] = NoDocument]
              PROVE  DocTypes'
          BY <4>2
        <4> QED
          BY <2>7, <4>1, <4>2 DEF Delete, Existing
      <3> QED
        BY <2>7, <3>1, HandlerTypes DEF Delete, Busy
    <2>8. CASE Ack(h)
      <3>1. handled' \subseteq Messages
        BY <2>8 DEF Ack, Busy
      <3>2. CASE End(h) /\ UNCHANGED <<ready, unacked, connected>>
        <4>1. /\ hpc' \in [Handlers -> Busy \cup {"idle"}]
              /\ work' \in [Handlers -> Messages \cup {NoMessage}]
              /\ \A d \in Handlers : hpc'[d] \in Busy => work'[d] \in Messages
          BY <3>2 DEF End, Busy
        <4> QED
          BY <2>8, <3>1, <3>2, <4>1 DEF Ack, End
      <3>3. CASE End(h) /\ unacked' = [unacked EXCEPT ![h[2]] = NoMessage]
                        /\ UNCHANGED <<ready, connected>>
        <4>1. /\ hpc' \in [Handlers -> Busy \cup {"idle"}]
              /\ work' \in [Handlers -> Messages \cup {NoMessage}]
              /\ \A d \in Handlers : hpc'[d] \in Busy => work'[d] \in Messages
          BY <3>3 DEF End, Busy
        <4>2. unacked' \in [Tags -> Messages \cup {NoMessage}]
          BY <3>3
        <4> QED
          BY <2>8, <3>1, <3>3, <4>1, <4>2 DEF Ack, End
      <3>4. CASE Requeue /\ Restart
        BY <2>8, <3>1, <3>4, RequeueTypes, RestartTypes DEF Ack
      <3>5. CASE Requeue /\ End(h)
        <4>1. /\ hpc' \in [Handlers -> Busy \cup {"idle"}]
              /\ work' \in [Handlers -> Messages \cup {NoMessage}]
              /\ \A d \in Handlers : hpc'[d] \in Busy => work'[d] \in Messages
          BY <3>5 DEF End, Busy
        <4> QED
          BY <2>8, <3>1, <3>5, <4>1, RequeueTypes DEF Ack, End
      <3> QED
        BY <2>8, <3>2, <3>3, <3>4, <3>5 DEF Ack
    <2> QED
      BY <1>6, <2>1, <2>2, <2>3, <2>4, <2>5, <2>6, <2>7, <2>8 DEF HandlerStep
  <1>7. ASSUME NEW h \in Handlers, DatabaseError(h) PROVE TypeOK'
    <2>1. HandlerGoto(h, "failed") \/ HandlerGoto(h, "ack")
      BY <1>7 DEF DatabaseError
    <2>2. hpc[h] \in Busy /\ "failed" \in Busy /\ "ack" \in Busy
      BY <1>7 DEF DatabaseError, Busy
    <2>3. /\ copy' \in [Handlers -> Copy] /\ DocTypes'
          /\ faults' \in Nat /\ errors' \in Nat
          /\ UNCHANGED <<brokerVars, work, ghostVars>>
      BY <1>7 DEF DatabaseError
    <2> QED
      BY <2>1, <2>2, <2>3, HandlerTypes
  <1>8. CASE UNCHANGED vars
    BY <1>8 DEF vars
  <1> QED
    BY <1>1, <1>2, <1>3, <1>4, <1>5, <1>6, <1>7, <1>8 DEF Next

\* The facts of the old channel that every handler step but Ack leaves alone.
LEMMA HandlerStepKeeps ==
  ASSUME NEW h \in Handlers, HandlerStep(h) \/ DatabaseError(h), ~Ack(h)
  PROVE  UNCHANGED <<brokerVars, work, ghostVars>>
  BY DEF HandlerStep, FindForCreate, Insert, FindForUpdate, Write, FindToCancel, SaveCancelled,
         Delete, DatabaseError

\* A handler's message keeps deciding which awaits it passes.
LEMMA NextStages ==
  ASSUME TypeOK, Stages, [Next]_vars
  PROVE  Stages'
  <1> USE DEF TypeOK, Stages, Stage, Published, HandlerGoto
  <1>1. ASSUME NEW k \in Kinds, Publish(k) PROVE Stages'
    <2> DEFINE m == Min(Messages \ Published)
    <2>1. m \in Messages /\ kind[m] = "unsent" /\ k # "unsent"
      BY <1>1, NextMessages DEF Publish, Kinds
    <2>2. kind' = [kind EXCEPT ![m] = k] /\ ready' = ready \cup {m}
          /\ UNCHANGED <<unacked, handled, hpc, work>>
      BY <1>1 DEF Publish
    <2> HIDE DEF m
    <2>3. Published \subseteq Published' /\ m \in Published'
          /\ \A n \in Published : kind'[n] = kind[n]
      BY <2>1, <2>2
    <2> QED
      BY <2>2, <2>3 DEF Delivered
  <1>2. CASE Deliver
    <2> DEFINE m == Min(ready)
               h == <<channel, nextTag>>
    <2>1. m \in ready /\ h \in Handlers /\ nextTag \in Tags
      BY <1>2, NextDelivery
    <2> HIDE DEF m, h
    <2>2. /\ hpc' = [hpc EXCEPT ![h] = Begin(m)]
          /\ work' = [work EXCEPT ![h] = m]
          /\ unacked' = [unacked EXCEPT ![nextTag] = m]
          /\ ready' = ready \ {m}
          /\ UNCHANGED <<kind, refused, handled>>
      BY <1>2 DEF Deliver, m, h
    <2>3. (ready \cup Delivered \cup handled)' \subseteq Published'
      BY <2>1, <2>2 DEF Delivered
    <2>4. kind[m] \in Kinds
      BY <2>1
    <2> QED
      BY <2>1, <2>2, <2>3, <2>4 DEF Begin, Kinds
  <1>3. CASE Connect
    BY <1>3 DEF Connect, Delivered
  <1>4. CASE ConnectionLost
    BY <1>4, RequeueTypes DEF ConnectionLost
  <1>5. CASE Crash
    BY <1>5, RequeueTypes DEF Crash, Restart
  <1>6. ASSUME NEW h \in Handlers, HandlerStep(h) \/ DatabaseError(h) PROVE Stages'
    <2>1. CASE Ack(h)
      <3>1. handled' \subseteq Published' /\ kind' = kind
        BY <2>1 DEF Ack
      <3>2. ready' \cup Delivered' \subseteq Published'
        <4>1. CASE Requeue
          BY <3>1, <4>1, RequeueTypes
        <4>2. CASE UNCHANGED <<ready, unacked>>
          BY <3>1, <4>2 DEF Delivered
        <4>3. CASE unacked' = [unacked EXCEPT ![h[2]] = NoMessage] /\ UNCHANGED ready
          <5>1. NoMessage \notin Messages
            BY DEF NoMessage, Messages
          <5> QED
            BY <3>1, <4>3, <5>1 DEF Delivered
        <4> QED
          BY <2>1, <4>1, <4>2, <4>3 DEF Ack
      <3>3. \A g \in Handlers : hpc'[g] # "idle" => hpc'[g] = hpc[g] /\ work'[g] = work[g]
        BY <2>1 DEF Ack, End, Restart
      <3> QED
        BY <3>1, <3>2, <3>3
    <2>2. CASE ~Ack(h)
      <3>1. UNCHANGED <<brokerVars, work, ghostVars>>
        BY <1>6, <2>2, HandlerStepKeeps
      <3>2. (ready \cup Delivered \cup handled)' \subseteq Published'
        BY <3>1 DEF Delivered
      <3>3. \A g \in Handlers : g # h => hpc'[g] = hpc[g]
        BY <1>6, <2>2 DEF HandlerStep, FindForCreate, Insert, FindForUpdate, Write, FindToCancel,
                          SaveCancelled, Delete, DatabaseError
      <3>4. hpc[h] # "idle" /\ Stage(h)'
        BY <1>6, <2>2 DEF HandlerStep, FindForCreate, Insert, FindForUpdate, Write, FindToCancel,
                          SaveCancelled, Delete, DatabaseError
      <3> QED
        BY <3>1, <3>2, <3>3, <3>4
    <2> QED
      BY <2>1, <2>2
  <1>7. CASE UNCHANGED vars
    BY <1>7 DEF vars, Delivered
  <1> QED
    BY <1>1, <1>2, <1>3, <1>4, <1>5, <1>6, <1>7 DEF Next

\* A tag names the message of the handler that holds it, and so no message is
\* lost by an acknowledgement.
LEMMA NextTags ==
  ASSUME TypeOK, Stages, TagsAreOwned, NothingLost, [Next]_vars
  PROVE  TagsAreOwned' /\ NothingLost'
  <1> USE HandlerIsPair DEF TypeOK, TagsAreOwned, NothingLost, Published, Delivered, HandlerGoto
  <1>1. ASSUME NEW k \in Kinds, Publish(k) PROVE TagsAreOwned' /\ NothingLost'
    <2>1. TagsAreOwned'
      BY <1>1 DEF Publish
    <2>2. NothingLost'
      BY <1>1, NextMessages DEF Publish
    <2> QED
      BY <2>1, <2>2
  <1>2. CASE Deliver
    <2> DEFINE m == Min(ready)
               h == <<channel, nextTag>>
    <2>1. m \in ready /\ h \in Handlers /\ nextTag \in Tags
      BY <1>2, NextDelivery
    <2> HIDE DEF m
    <2>2. /\ hpc' = [hpc EXCEPT ![h] = Begin(m)]
          /\ work' = [work EXCEPT ![h] = m]
          /\ unacked' = [unacked EXCEPT ![nextTag] = m]
          /\ ready' = ready \ {m}
          /\ nextTag' = nextTag + 1
          /\ connected
          /\ UNCHANGED <<kind, refused, handled, channel, connected, orphaned>>
      BY <1>2 DEF Deliver, m
    <2>3. \A t \in Tags : t >= nextTag' \/ ~connected' => unacked'[t] = NoMessage
      BY <2>1, <2>2 DEF Tags, Messages
    <2>4. \A g \in Handlers : hpc'[g] # "idle" /\ g # h =>
            /\ g[1] <= channel'
            /\ g[1] = channel' => g[2] < nextTag'
            /\ ~orphaned' => g[1] = channel' /\ unacked'[g[2]] = work'[g]
      BY <2>1, <2>2 DEF Tags, Messages, Channels
    <2>5. /\ h[1] <= channel'
          /\ h[2] < nextTag'
          /\ unacked'[h[2]] = work'[h]
      BY <2>1, <2>2 DEF Tags, Messages, Channels
    <2>6. TagsAreOwned'
      BY <2>1, <2>2, <2>3, <2>4, <2>5
    <2>7. \A n \in Delivered : n \in Delivered'
      <3>1. unacked[nextTag] = NoMessage
        BY <2>1 DEF Tags, Messages
      <3>2. NoMessage \notin Messages
        BY DEF NoMessage, Messages
      <3> QED
        BY <2>1, <2>2, <3>1, <3>2
    <2>8. NothingLost'
      BY <2>1, <2>2, <2>7
    <2> QED
      BY <2>6, <2>8
  <1>3. CASE Connect
    <2>1. /\ \A t \in Tags : unacked[t] = NoMessage
          /\ channel' = channel + 1 /\ connected'
          /\ UNCHANGED <<unacked, kind, ready, handled, hpc, work>>
      BY <1>3 DEF Connect
    <2>2. \A h \in Handlers : hpc[h] # "idle" => h[1] < channel' /\ orphaned'
      <3>1. \A h \in Handlers : hpc[h] # "idle" => h \in Running
        BY DEF Running
      <3>2. Running # {} => orphaned'
        BY <1>3 DEF Connect
      <3> QED
        BY <2>1, <3>1, <3>2 DEF Channels
    <2>3. orphaned => orphaned'
      BY <1>3 DEF Connect
    <2>4. TagsAreOwned'
      BY <2>1, <2>2 DEF Channels
    <2> QED
      BY <2>1, <2>3, <2>4
  <1>4. ASSUME Requeue, UNCHANGED <<kind, refused, channel, nextTag, orphaned>>,
               \A h \in Handlers : hpc'[h] # "idle" => hpc'[h] = hpc[h],
               handled \subseteq handled'
        PROVE  TagsAreOwned' /\ NothingLost'
    <2>1. TagsAreOwned'
      BY <1>4 DEF Requeue
    <2>2. NothingLost'
      BY <1>4 DEF Requeue
    <2> QED
      BY <2>1, <2>2
  <1>5. CASE ConnectionLost
    BY <1>4, <1>5 DEF ConnectionLost
  <1>6. CASE Crash
    BY <1>4, <1>6 DEF Crash, Restart
  <1>7. ASSUME NEW h \in Handlers, HandlerStep(h) \/ DatabaseError(h)
        PROVE  TagsAreOwned' /\ NothingLost'
    <2>1. CASE Ack(h)
      <3>1. /\ hpc[h] # "idle"
            /\ handled' = handled \cup {work[h]}
            /\ UNCHANGED <<kind, refused, channel, nextTag, orphaned>>
        BY <2>1 DEF Ack
      <3>2. CASE Requeue /\ (Restart \/ End(h))
        BY <3>1, <3>2, <1>4 DEF Restart, End
      <3>3. CASE ~connected /\ End(h) /\ UNCHANGED <<ready, unacked, connected>>
        <4>1. TagsAreOwned'
          BY <3>1, <3>3 DEF End
        <4> QED
          BY <3>1, <3>3, <4>1 DEF End
      <3>4. CASE /\ connected /\ End(h)
                 /\ unacked' = [unacked EXCEPT ![h[2]] = NoMessage]
                 /\ UNCHANGED <<ready, connected>>
        <4>1. \A g \in Handlers : g # h /\ ~orphaned /\ hpc[g] # "idle" => g[2] # h[2]
          BY <3>1, <3>4
        <4>2. \A g \in Handlers : hpc'[g] # "idle" =>
                g # h /\ hpc'[g] = hpc[g] /\ work'[g] = work[g]
          BY <3>1, <3>4 DEF End
        <4>3. TagsAreOwned'
          BY <3>1, <3>4, <4>1, <4>2
        <4>4. ~orphaned => \A n \in Delivered : n = work[h] \/ n \in Delivered'
          BY <3>1, <3>4
        <4> QED
          BY <3>1, <3>4, <4>3, <4>4
      <3> QED
        BY <2>1, <3>2, <3>3, <3>4 DEF Ack
    <2>2. CASE ~Ack(h)
      <3>1. UNCHANGED <<brokerVars, work, ghostVars>>
        BY <1>7, <2>2, HandlerStepKeeps
      <3>2. \A g \in Handlers : hpc'[g] # "idle" => hpc[g] # "idle"
        BY <1>7, <2>2 DEF HandlerStep, FindForCreate, Insert, FindForUpdate, Write, FindToCancel,
                          SaveCancelled, Delete, DatabaseError
      <3> QED
        BY <3>1, <3>2
    <2> QED
      BY <1>7, <2>1, <2>2
  <1>8. CASE UNCHANGED vars
    BY <1>8 DEF vars
  <1> QED
    BY <1>1, <1>2, <1>3, <1>5, <1>6, <1>7, <1>8 DEF Next

\* Until a deletion is published, no step removes a document, and what was
\* published, handled or rejected before stays so.
LEMMA NothingIsUndone ==
  ASSUME TypeOK, Stages, [Next]_vars, ~Sent("deleted")'
  PROVE  /\ ~Sent("deleted")
         /\ \A d \in Handlers : doc[d].live => doc'[d].live
         /\ errors' = 0 => errors = 0
         /\ \A m \in Published : kind'[m] = kind[m]
         /\ \A m \in Published : m \in refused' <=> m \in refused
         /\ refused \subseteq refused'
  <1>1. /\ \A m \in Published : kind'[m] = kind[m]
        /\ \A m \in Published : m \in refused' <=> m \in refused
        /\ refused \subseteq refused'
    <2>1. ASSUME NEW k \in Kinds, Publish(k)
          PROVE  /\ \A m \in Published : kind'[m] = kind[m]
                 /\ \A m \in Published : m \in refused' <=> m \in refused
                 /\ refused \subseteq refused'
      <3> DEFINE p == Min(Messages \ Published)
      <3>1. p \notin Published
        BY <2>1, NextMessages DEF Publish
      <3>2. /\ kind' = [kind EXCEPT ![p] = k]
            /\ refused' = refused \/ refused' = refused \cup {p}
        BY <2>1 DEF Publish
      <3> HIDE DEF p
      <3> QED
        BY <3>1, <3>2 DEF Published, TypeOK
    <2>2. CASE UNCHANGED <<kind, refused>>
      BY <2>2
    <2>3. (\E k \in Kinds : Publish(k)) \/ UNCHANGED <<kind, refused>>
      BY DEF Next, vars, Deliver, Connect, ConnectionLost, Crash, HandlerStep, FindForCreate, Insert,
             FindForUpdate, Write, FindToCancel, SaveCancelled, Delete, Ack, DatabaseError
    <2> QED
      BY <2>1, <2>2, <2>3
  <1>2. ~Sent("deleted")
    BY <1>1 DEF Sent, Published
  <1>3. \A h \in Handlers : hpc[h] # "delete"
    BY <1>2 DEF Sent, Stages, Stage, Published
  <1>4. \A d \in Handlers : doc[d].live => doc'[d].live
    <2>1. ASSUME NEW h \in Handlers, Insert(h) \/ Write(h) \/ SaveCancelled(h)
          PROVE  \A d \in Handlers : doc[d].live => doc'[d].live
      <3>1. doc \in [Handlers -> Document]
        BY DEF TypeOK
      <3>2. CASE Insert(h)
        BY <3>1, <3>2 DEF Insert
      <3>3. CASE Write(h)
        BY <3>1, <3>3 DEF Write, Existing
      <3>4. CASE SaveCancelled(h)
        BY <3>1, <3>4 DEF SaveCancelled, Document
      <3> QED
        BY <2>1, <3>2, <3>3, <3>4
    <2>2. CASE UNCHANGED doc
      BY <2>2
    <2>3. (\E h \in Handlers : Insert(h) \/ Write(h) \/ SaveCancelled(h)) \/ UNCHANGED doc
      BY <1>3 DEF Next, vars, Publish, Deliver, Connect, ConnectionLost, Crash, HandlerStep,
             FindForCreate, FindForUpdate, FindToCancel, Delete, Ack, DatabaseError
    <2> QED
      BY <2>1, <2>2, <2>3
  <1>5. errors' = errors \/ errors' = errors + 1
    BY DEF Next, vars, Publish, Deliver, Connect, ConnectionLost, Crash, HandlerStep, FindForCreate,
           Insert, FindForUpdate, Write, FindToCancel, SaveCancelled, Delete, Ack, DatabaseError
  <1> QED
    BY <1>1, <1>2, <1>4, <1>5 DEF TypeOK

\* What a handler has found stays, so it neither fails nor ends with nothing
\* recorded.
LEMMA NextKnown ==
  ASSUME TypeOK, Stages, FoundStays, FailureIsDeletion, HandledIsKnown, [Next]_vars
  PROVE  FoundStays' /\ FailureIsDeletion' /\ HandledIsKnown'
  <1> SUFFICES ASSUME ~Sent("deleted")'
               PROVE  FoundStays' /\ FailureIsDeletion' /\ HandledIsKnown'
    BY DEF FoundStays, FailureIsDeletion, HandledIsKnown
  <1>1. /\ ~Sent("deleted")
        /\ \A d \in Handlers : doc[d].live => doc'[d].live
        /\ Existing # {} => Existing' # {}
        /\ errors' = 0 => errors = 0
        /\ \A m \in Published : kind'[m] = kind[m]
        /\ \A m \in Published : m \in refused' <=> m \in refused
        /\ refused # {} => refused' # {}
    BY NothingIsUndone DEF Existing
  <1>2. \A m \in Published : m \in Versioned' => m \in Versioned
    BY <1>1 DEF Versioned
  <1>3. ASSUME \A h \in Handlers : hpc'[h] \in {"write", "cancel", "synced", "failed"} =>
                  hpc'[h] = hpc[h] /\ work'[h] = work[h] /\ copy'[h] = copy[h],
               handled' = handled
        PROVE  FoundStays' /\ FailureIsDeletion' /\ HandledIsKnown'
    <2>1. \A h \in Handlers : hpc[h] = "cancel" => copy[h].of \in Handlers
      BY DEF TypeOK, Copy
    <2>2. FoundStays'
      BY <1>1, <1>2, <1>3, <2>1 DEF FoundStays, Stages, Stage
    <2>3. FailureIsDeletion'
      BY <1>1, <1>3 DEF FailureIsDeletion, Stages, Stage
    <2>4. HandledIsKnown'
      BY <1>1, <1>2, <1>3 DEF HandledIsKnown, Accepted, Stages
    <2> QED
      BY <2>2, <2>3, <2>4
  <1>4. ASSUME NEW k \in Kinds, Publish(k)
        PROVE  FoundStays' /\ FailureIsDeletion' /\ HandledIsKnown'
    BY <1>3, <1>4 DEF Publish
  <1>5. CASE Deliver
    <2> DEFINE h == <<channel, nextTag>>
    <2>1. /\ handled' = handled /\ copy' = copy
          /\ hpc' = [hpc EXCEPT ![h] = Begin(Min(ready))]
          /\ work' = [work EXCEPT ![h] = Min(ready)]
          /\ Min(ready) \in Published
      BY <1>5, NextMessages DEF Deliver, HandlerGoto, Stages
    <2>2. Begin(Min(ready)) \in {"findCreate", "findUpdate", "findCancel", "delete", "ack"}
      BY <2>1 DEF Begin, Published, Kinds, TypeOK
    <2> HIDE DEF h
    <2> QED
      BY <1>3, <2>1, <2>2 DEF TypeOK
  <1>6. CASE Connect \/ ConnectionLost \/ Crash
    BY <1>3, <1>6 DEF Connect, ConnectionLost, Crash, Restart
  <1>7. ASSUME NEW h \in Handlers, NEW l \in Busy, HandlerGoto(h, l),
               \A g \in Handlers : g # h => copy'[g] = copy[g],
               UNCHANGED <<brokerVars, work, ghostVars>>,
               l = "failed" => errors' # 0 \/ work[h] \in refused
                               \/ (kind[work[h]] = "cancelled" /\ refused # {}),
               l = "write" => Existing # {},
               l = "cancel" => doc'[copy'[h].of].live,
               l = "synced" /\ work[h] \in Versioned => Existing' # {}
        PROVE  FoundStays' /\ FailureIsDeletion' /\ HandledIsKnown'
    <2>1. hpc'[h] = l /\ \A g \in Handlers : g # h => hpc'[g] = hpc[g]
      BY <1>7 DEF HandlerGoto, TypeOK
    <2>2. \A g \in Handlers : copy[g].of \in Handlers
      BY DEF TypeOK, Copy
    <2>3. Versioned' = Versioned
      BY <1>7 DEF Versioned, Published
    <2>4. FoundStays'
      BY <1>1, <1>7, <2>1, <2>2, <2>3 DEF FoundStays
    <2>5. FailureIsDeletion' /\ HandledIsKnown'
      BY <1>1, <1>7, <2>1, <2>3 DEF FailureIsDeletion, HandledIsKnown, Accepted
    <2> QED
      BY <2>4, <2>5
  <1>8. ASSUME NEW h \in Handlers, HandlerStep(h)
        PROVE  FoundStays' /\ FailureIsDeletion' /\ HandledIsKnown'
    <2>1. CASE FindForCreate(h)
      <3>1. PICK l \in Busy : HandlerGoto(h, l) /\ l \in {"insert", "synced", "findUpdate"}
                                /\ (l = "synced" => Existing # {})
        BY <2>1 DEF FindForCreate, Busy
      <3> QED
        BY <1>1, <1>7, <2>1, <3>1 DEF FindForCreate
    <2>2. CASE Insert(h)
      <3>1. CASE work[h] \in refused
        BY <1>7, <2>2, <3>1 DEF Insert, Busy
      <3>2. CASE work[h] \notin refused
        <4>1. doc'[h].live
          BY <2>2, <3>2 DEF Insert, TypeOK
        <4>2. Existing' # {}
          BY <4>1 DEF Existing
        <4> QED
          BY <1>7, <2>2, <3>2, <4>2 DEF Insert, Busy
      <3> QED
        BY <3>1, <3>2
    <2>3. CASE FindForUpdate(h)
      <3>1. PICK l \in Busy : HandlerGoto(h, l) /\ l \in {"findCreate", "synced", "write"}
                                /\ (l # "findCreate" => Existing # {})
        BY <2>3 DEF FindForUpdate, Busy
      <3> QED
        BY <1>1, <1>7, <2>3, <3>1 DEF FindForUpdate
    <2>4. CASE Write(h)
      <3>1. Existing # {}
        BY <1>1, <2>4 DEF Write, FoundStays
      <3> QED
        BY <1>1, <1>7, <2>4, <3>1 DEF Write, Busy
    <2>5. CASE FindToCancel(h)
      <3>1. work[h] \notin Versioned
        BY <2>5 DEF FindToCancel, Stages, Stage, Versioned
      <3>2. CASE HandlerGoto(h, "synced") /\ UNCHANGED copy
        BY <1>7, <2>5, <3>1, <3>2 DEF FindToCancel, Busy
      <3>4. CASE refused # {} /\ HandlerGoto(h, "failed") /\ UNCHANGED copy
        <4>1. kind[work[h]] = "cancelled"
          BY <2>5 DEF FindToCancel, Stages, Stage
        <4> QED
          BY <1>7, <2>5, <3>4, <4>1 DEF FindToCancel, Busy
      <3>3. ASSUME NEW d \in Existing, HandlerGoto(h, "cancel"),
                   copy' = [copy EXCEPT ![h] = [of |-> d, cancelled |-> doc[d].cancelled]]
            PROVE  FoundStays' /\ FailureIsDeletion' /\ HandledIsKnown'
        <4>1. copy'[h].of = d /\ doc[d].live /\ doc' = doc
          BY <2>5, <3>3 DEF FindToCancel, TypeOK, Existing
        <4>2. \A g \in Handlers : g # h => copy'[g] = copy[g]
          BY <3>3 DEF TypeOK
        <4> QED
          BY <1>7, <2>5, <3>3, <4>1, <4>2 DEF FindToCancel, Busy
      <3> QED
        BY <2>5, <3>2, <3>3, <3>4 DEF FindToCancel
    <2>6. CASE SaveCancelled(h)
      <3>1. work[h] \notin Versioned
        BY <2>6 DEF SaveCancelled, Stages, Stage, Versioned
      <3>2. doc[copy[h].of].live
        BY <1>1, <2>6 DEF SaveCancelled, FoundStays
      <3>3. \A g \in Handlers : g # h => copy'[g] = copy[g]
        BY <2>6 DEF SaveCancelled, TypeOK
      <3> QED
        BY <1>7, <2>6, <3>1, <3>2, <3>3 DEF SaveCancelled, Busy
    <2>7. CASE Delete(h)
      BY <1>1, <2>7 DEF Delete, Sent, Stages, Stage, Published
    <2>8. CASE Ack(h)
      <3>1. /\ handled' = handled \cup {work[h]} /\ errors' = errors /\ UNCHANGED <<kind, refused>>
            /\ Existing' = Existing
        BY <2>8 DEF Ack, Existing
      <3>2. \A g \in Handlers : hpc'[g] # "idle" =>
              hpc'[g] = hpc[g] /\ work'[g] = work[g] /\ copy'[g] = copy[g]
        BY <2>8 DEF Ack, End, Restart, HandlerGoto, TypeOK
      <3>3. errors = 0 /\ work[h] \in Accepted => Existing # {}
        BY <1>1, <2>8 DEF Ack, FoundStays, FailureIsDeletion, Stages, Stage, Versioned,
                             Accepted
      <3>4. Versioned' = Versioned /\ Accepted' = Accepted
        BY <3>1 DEF Accepted, Versioned, Published
      <3>5. FoundStays'
        BY <1>1, <2>8, <3>1, <3>2, <3>4 DEF FoundStays, Ack
      <3>6. FailureIsDeletion'
        BY <1>1, <3>1, <3>2 DEF FailureIsDeletion
      <3>7. HandledIsKnown'
        BY <1>1, <3>1, <3>3, <3>4 DEF HandledIsKnown
      <3> QED
        BY <3>5, <3>6, <3>7
    <2> QED
      BY <1>8, <2>1, <2>2, <2>3, <2>4, <2>5, <2>6, <2>7, <2>8 DEF HandlerStep
  <1>9. ASSUME NEW h \in Handlers, DatabaseError(h)
        PROVE  FoundStays' /\ FailureIsDeletion' /\ HandledIsKnown'
    <2>1. PICK l \in Busy : HandlerGoto(h, l) /\ l \in {"failed", "ack"}
      BY <1>9 DEF DatabaseError, Busy
    <2>2. errors' # 0 /\ \A g \in Handlers : g # h => copy'[g] = copy[g]
      BY <1>9 DEF DatabaseError, TypeOK
    <2> QED
      BY <1>7, <1>9, <2>1, <2>2 DEF DatabaseError
  <1>10. CASE UNCHANGED vars
    BY <1>3, <1>10 DEF vars
  <1> QED
    BY <1>4, <1>5, <1>6, <1>8, <1>9, <1>10 DEF Next

\* Every step keeps the invariant.
LEMMA NextIInv == IInv /\ [Next]_vars => IInv'
  BY NextTypeOK, NextStages, NextTags, NextKnown DEF IInv

LEMMA InvariantHolds == Spec => []IInv
  BY InitIInv, NextIInv, PTL DEF Spec

\* The broker, the handlers and the documents keep their types; every stored
\* document carries the version of a message.
THEOREM TypeCorrect == Spec => []TypeOK
  BY InvariantHolds, PTL DEF IInv

\* Through lost connections and restarts, a message leaves the queue only when
\* its handler has ended, unless a handler outlived its channel.
THEOREM NoMessageLost == Spec => []NothingLost
  BY InvariantHolds, PTL DEF IInv

\* However handlers overlap and messages are delivered again, the consumer
\* reports a failure only after a rejected database call, beside a deletion or
\* because of refused content.
THEOREM FailuresAreReal == Spec => []FailureIsDeletion
  BY InvariantHolds, PTL DEF IInv

\* However handlers overlap, a handled creation or update that the schema accepts
\* leaves a document for the resource until a deletion is published.
THEOREM HandledResourceIsKnown == Spec => []HandledIsKnown
  BY InvariantHolds, PTL DEF IInv

-----------------------------------------------------------------------------
(***************************************************************************)
(* Handlers one after the other                                            *)
(***************************************************************************)
Pending == ready \cup Delivered

\* Messages are published one after the other; a deletion is the last one, and
\* nothing is updated after a cancellation.
InOrder ==
    \A m \in Published : \A i \in Messages : i < m =>
        /\ i \in Published
        /\ kind[i] # "deleted"
        /\ kind[m] \in {"created", "updated"} => kind[i] # "cancelled"

UpTo(k, K) == \E m \in Published : m <= k /\ kind[m] \in K

\* A version that can be inserted is among the messages up to k.
Announced(k) == \E v \in Accepted : v <= k

Latest(d, k) ==
    /\ Existing = {d}
    /\ doc[d].version \in Versioned /\ doc[d].version <= k
    /\ \A v \in Accepted : v <= k => v <= doc[d].version
    /\ doc[d].version \notin refused => (doc[d].cancelled <=> UpTo(k, {"cancelled"}))

\* The documents are what the messages up to k say.
Replica(k) ==
    IF Announced(k) /\ ~UpTo(k, {"deleted"})
    THEN \E d \in Handlers : Latest(d, k)
    ELSE Existing = {}

\* Exactly the messages after k, and perhaps k once more, are to be handled.
Frontier(k) ==
    /\ k \in Published \cup {0}
    /\ Replica(k)
    /\ \A m \in Pending : k <= m
    /\ \A m \in Published : k < m => m \in Pending
    /\ \A m \in handled : m <= k
    /\ \A h \in Running : hpc[h] \in {"synced", "failed", "ack"} => work[h] <= k

\* h runs alone, for the first message to be handled, and what it has found is so.
Turn(h) ==
    /\ work[h] \in Pending
    /\ \A m \in Pending : work[h] <= m
    /\ \A g \in Running : g = h
    /\ \A t \in Tags : unacked[t] # NoMessage => t = h[2] /\ unacked[t] = work[h]
    /\ hpc[h] = "insert" => Existing = {}
    /\ hpc[h] = "write" => Existing # {}
    /\ hpc[h] = "cancel" =>
          doc[copy[h].of].live /\ copy[h].cancelled = doc[copy[h].of].cancelled

Sequential(k) ==
    /\ Frontier(k)
    /\ \A h \in Running : Turn(h)
    /\ Running = {} => Delivered = {}

InTurn == ~overlapped /\ errors = 0 => \E k \in Nat : Sequential(k)

\* The order in which messages are published.
LEMMA NextInOrder ==
  ASSUME TypeOK, InOrder, [Next]_vars
  PROVE  InOrder'
  <1>1. ASSUME NEW k \in Kinds, Publish(k) PROVE InOrder'
    <2> DEFINE p == Min(Messages \ Published)
    <2>1. /\ p \in Messages \ Published
          /\ \A i \in Messages : i < p => i \in Published
      <3>1. Messages \ Published \in SUBSET Nat /\ Messages \ Published # {}
        BY <1>1 DEF Publish, Published, Messages
      <3>2. p \in Messages \ Published /\ \A i \in Messages \ Published : p <= i
        BY <3>1, MinIsMember
      <3> HIDE DEF p
      <3> QED
        BY <3>2 DEF Messages
    <2>2. \A m \in Published : m < p
      <3> SUFFICES ASSUME NEW m \in Published, ~(m < p) PROVE FALSE
        OBVIOUS
      <3> HIDE DEF p
      <3>1. p < m
        BY <2>1 DEF Published, Messages
      <3> QED
        BY <2>1, <3>1 DEF InOrder
    <2>3. /\ kind' = [kind EXCEPT ![p] = k]
          /\ ~Sent("deleted")
          /\ k \in {"created", "updated"} => Published = {} \/ ~Sent("cancelled")
      BY <1>1 DEF Publish
    <2> HIDE DEF p
    <2>4. Published' = Published \cup {p}
      BY <2>1, <2>3 DEF Published, TypeOK, Kinds
    <2> SUFFICES ASSUME NEW m \in Published', NEW i \in Messages, i < m
                 PROVE  /\ i \in Published'
                        /\ kind'[i] # "deleted"
                        /\ kind'[m] \in {"created", "updated"} => kind'[i] # "cancelled"
      BY DEF InOrder
    <2>5. CASE m \in Published
      <3>1. i \in Published /\ i # p /\ m # p
        BY <2>1, <2>5 DEF InOrder
      <3>2. kind'[i] = kind[i] /\ kind'[m] = kind[m]
        BY <2>3, <3>1 DEF TypeOK, Published
      <3> QED
        BY <2>4, <2>5, <3>1, <3>2 DEF InOrder
    <2>6. CASE m = p
      <3>1. i \in Published /\ i # p
        BY <2>1, <2>6
      <3>2. kind'[i] = kind[i] /\ kind'[m] = k
        BY <2>1, <2>3, <2>6, <3>1 DEF TypeOK, Published
      <3> QED
        BY <2>3, <2>4, <3>1, <3>2 DEF Sent, Published
    <2> QED
      BY <2>4, <2>5, <2>6
  <1>2. CASE UNCHANGED kind
    BY <1>2 DEF InOrder, Published
  <1> QED
    BY <1>1, <1>2
    DEF Next, vars, Deliver, Connect, ConnectionLost, Crash, HandlerStep, FindForCreate, Insert,
        FindForUpdate, Write, FindToCancel, SaveCancelled, Delete, Ack, DatabaseError

\* The first message to be handled, beside the frontier.
LEMMA FirstPending ==
  ASSUME TypeOK, Stages, InOrder, NEW k \in Nat, Frontier(k),
         NEW w \in Pending, \A m \in Pending : w <= m
  PROVE  /\ w \in Published /\ w \in Nat /\ k <= w
         /\ \A m \in Published : m < w => m <= k
         /\ kind[w] # "deleted" => ~UpTo(w, {"deleted"}) /\ ~UpTo(k, {"deleted"})
         /\ kind[w] \in {"created", "updated"} => ~UpTo(w, {"cancelled"}) /\ ~UpTo(k, {"cancelled"})
  <1>1. w \in Published
    BY DEF Stages, Pending
  <1>2. w \in Messages /\ Published \subseteq Messages /\ Messages \subseteq Nat
    BY <1>1 DEF Published, Messages
  <1>3. k <= w
    BY DEF Frontier
  <1>4. ASSUME NEW m \in Published, m < w PROVE m <= k
    <2>1. m \notin Pending
      BY <1>2, <1>4
    <2> QED
      BY <1>2, <2>1 DEF Frontier
  <1>5. \A K : UpTo(k, K) => UpTo(w, K)
    BY <1>2, <1>3 DEF UpTo
  <1>6. ASSUME NEW m \in Published, m <= w, m # w
        PROVE  /\ kind[m] # "deleted"
               /\ kind[w] \in {"created", "updated"} => kind[m] # "cancelled"
    <2>1. m < w /\ m \in Messages
      BY <1>2, <1>6
    <2> QED
      BY <1>1, <2>1 DEF InOrder
  <1>7. kind[w] # "deleted" => ~UpTo(w, {"deleted"})
    BY <1>6 DEF UpTo
  <1>8. kind[w] \in {"created", "updated"} => ~UpTo(w, {"cancelled"})
    BY <1>6 DEF UpTo
  <1> QED
    BY <1>1, <1>2, <1>3, <1>4, <1>5, <1>7, <1>8

\* A message that says nothing new of the resource, or nothing that can be stored,
\* leaves the documents as they should be.
LEMMA NothingNew ==
  ASSUME TypeOK, Stages, InOrder, NEW k \in Nat, Frontier(k),
         NEW w \in Pending, \A m \in Pending : w <= m,
         \/ kind[w] = "elsewhere"
         \/ kind[w] = "cancelled" /\ Existing = {}
         \/ kind[w] = "cancelled" /\ \E d \in Existing : doc[d].version \in refused
         \/ kind[w] \in {"created", "updated"} /\ w \in refused
  PROVE  Replica(w)
  <1>1. /\ w \in Published /\ w \in Nat /\ k <= w
        /\ \A m \in Published : m < w => m <= k
        /\ ~UpTo(w, {"deleted"}) /\ ~UpTo(k, {"deleted"})
    BY FirstPending
  <1>2. Published \subseteq Nat
    BY DEF Published, Messages
  <1>3. \A m \in Published : m <= w => m <= k \/ m = w
    BY <1>1, <1>2
  <1>4. \A m \in Published : m <= k => m <= w
    BY <1>1, <1>2
  <1>5. /\ w \notin Accepted
        /\ Accepted \subseteq Published /\ Versioned \subseteq Published
    BY DEF Accepted, Versioned
  <1>6. Announced(w) <=> Announced(k)
    BY <1>3, <1>4, <1>5 DEF Announced
  <1>7. CASE ~Announced(k)
    BY <1>1, <1>6, <1>7 DEF Frontier, Replica
  <1>8. CASE Announced(k)
    <2>1. PICK d \in Handlers : Latest(d, k)
      BY <1>1, <1>8 DEF Frontier, Replica
    <2>2. Existing = {d} /\ doc[d].version \in Versioned /\ doc[d].version <= k
      BY <2>1 DEF Latest
    <2>3. doc[d].version <= w
      BY <1>4, <1>5, <2>2
    <2>4. \A v \in Accepted : v <= w => v <= doc[d].version
      BY <1>3, <1>5, <2>1 DEF Latest
    <2>5. doc[d].version \notin refused => (doc[d].cancelled <=> UpTo(w, {"cancelled"}))
      <3>1. doc[d].version \notin refused => kind[w] # "cancelled"
        BY <2>2
      <3>2. kind[w] # "cancelled" => (UpTo(w, {"cancelled"}) <=> UpTo(k, {"cancelled"}))
        BY <1>3, <1>4 DEF UpTo
      <3> QED
        BY <2>1, <3>1, <3>2 DEF Latest
    <2>6. Latest(d, w)
      BY <2>2, <2>3, <2>4, <2>5 DEF Latest
    <2> QED
      BY <1>1, <1>6, <1>8, <2>6 DEF Replica
  <1> QED
    BY <1>7, <1>8

\* A document that has the version of the message or a later one is up to date.
LEMMA FoundLater ==
  ASSUME TypeOK, Stages, InOrder, NEW k \in Nat, Frontier(k),
         NEW w \in Pending, \A m \in Pending : w <= m,
         kind[w] \in {"created", "updated"},
         NEW d \in Existing, doc[d].version >= w
  PROVE  Replica(w)
  <1>1. /\ w \in Published /\ w \in Nat /\ k <= w
        /\ ~UpTo(w, {"deleted"}) /\ ~UpTo(k, {"deleted"})
        /\ ~UpTo(w, {"cancelled"}) /\ ~UpTo(k, {"cancelled"})
    BY FirstPending
  <1>2. Versioned \subseteq Nat /\ Accepted \subseteq Nat
    BY DEF Accepted, Versioned, Published, Messages
  <1>3. Announced(k) /\ \E e \in Handlers : Latest(e, k)
    BY DEF Frontier, Replica
  <1>4. PICK e \in Handlers : Latest(e, k)
    BY <1>3
  <1>5. e = d
    BY <1>4 DEF Latest
  <1>6. doc[d].version \in Nat /\ doc[d].version <= k
    BY <1>2, <1>4, <1>5 DEF Latest
  <1>7. Latest(d, w)
    <2> DEFINE v == doc[d].version
    <2>1. v \in Nat /\ v <= k /\ k <= w /\ w <= v
      BY <1>1, <1>6
    <2> HIDE DEF v
    <2>2. v <= w /\ \A u \in Accepted : u <= w => u <= v
      BY <1>1, <1>2, <2>1
    <2>3. doc[d].version <= w /\ \A u \in Accepted : u <= w => u <= doc[d].version
      BY <2>2 DEF v
    <2> QED
      BY <1>1, <1>4, <1>5, <2>3 DEF Latest
  <1>8. Announced(w)
    <2>1. PICK u \in Accepted : u <= k
      BY <1>3 DEF Announced
    <2>2. u <= w
      BY <1>1, <1>2, <2>1
    <2> QED
      BY <2>2 DEF Announced
  <1> QED
    BY <1>1, <1>4, <1>5, <1>7, <1>8 DEF Replica

\* Messages and documents that stay as they are stay a replica.
LEMMA SameReplica ==
  ASSUME UNCHANGED <<kind, refused, doc>>
  PROVE  /\ \A k : Replica(k)' = Replica(k)
         /\ Published' = Published /\ Versioned' = Versioned /\ Existing' = Existing
  BY DEF Replica, Latest, Announced, UpTo, Published, Accepted, Versioned, Existing

\* A handler that moves on, and with it the frontier or not.
LEMMA MovesOn ==
  ASSUME TypeOK, Stages, InOrder, NEW k \in Nat, Sequential(k), NEW h \in Handlers, hpc[h] \in Busy,
         NEW l \in Busy, HandlerGoto(h, l), UNCHANGED <<brokerVars, work, ghostVars>>,
         NEW j \in {k, work[h]}, Replica(j)',
         l \in {"synced", "failed", "ack"} => j = work[h],
         l = "insert" => Existing' = {},
         l = "write" => Existing' # {},
         l = "cancel" => /\ doc'[copy'[h].of].live
                         /\ copy'[h].cancelled = doc'[copy'[h].of].cancelled
  PROVE  j \in Nat /\ Sequential(j)'
  <1>1. h \in Running /\ Turn(h) /\ Frontier(k)
    BY DEF Running, Sequential
  <1>2. /\ work[h] \in Published /\ work[h] \in Nat /\ k <= work[h]
        /\ work[h] \in Pending /\ \A m \in Pending : work[h] <= m
    BY <1>1, FirstPending DEF Turn
  <1>3. Pending' = Pending /\ Published' = Published /\ Delivered' = Delivered
    BY DEF Pending, Published, Delivered
  <1>4. hpc' = [hpc EXCEPT ![h] = l] /\ hpc'[h] = l
    BY DEF HandlerGoto, TypeOK
  <1>5. \A g \in Handlers : g # h => g \notin Running /\ g \notin Running'
    BY <1>1, <1>4 DEF Turn, Running, TypeOK
  <1>6. h \in Running'
    BY <1>4 DEF Running
  <1>7. j \in Nat /\ k <= j /\ j <= work[h]
    BY <1>2
  <1>8. Published \subseteq Nat /\ handled \subseteq Published /\ Pending \subseteq Published
    BY DEF Published, Messages, Stages, Pending
  <1>9. Frontier(j)'
    <2>1. (j \in Published \cup {0})'
      BY <1>1, <1>2, <1>3 DEF Frontier
    <2>2. (\A m \in Pending : j <= m)'
      BY <1>2, <1>3, <1>7, <1>8
    <2>3. (\A m \in Published : j < m => m \in Pending)'
      BY <1>1, <1>3, <1>7, <1>8 DEF Frontier
    <2>4. (\A m \in handled : m <= j)'
      BY <1>1, <1>7, <1>8 DEF Frontier
    <2>5. (\A g \in Running : hpc[g] \in {"synced", "failed", "ack"} => work[g] <= j)'
      <3> SUFFICES ASSUME NEW g \in Running', hpc'[g] \in {"synced", "failed", "ack"}
                   PROVE  work'[g] <= j
        OBVIOUS
      <3>1. g = h
        BY <1>5 DEF Running
      <3> QED
        BY <1>2, <1>4, <3>1
    <2> QED
      BY <2>1, <2>2, <2>3, <2>4, <2>5 DEF Frontier
  <1>10. Turn(h)'
    BY <1>1, <1>3, <1>4, <1>5 DEF Turn, Running
  <1>11. (\A g \in Running : Turn(g))' /\ (Running = {} => Delivered = {})'
    BY <1>5, <1>6, <1>10 DEF Running
  <1> QED
    BY <1>7, <1>9, <1>11 DEF Sequential

\* The handlers of creations and updates.
LEMMA VersionsInTurn ==
  ASSUME TypeOK, Stages, InOrder, NEW k \in Nat, Sequential(k), NEW h \in Handlers,
         FindForCreate(h) \/ Insert(h) \/ FindForUpdate(h) \/ Write(h)
  PROVE  \E j \in Nat : Sequential(j)'
  <1> DEFINE w == work[h]
  <1>1. hpc[h] \in {"findCreate", "insert", "findUpdate", "write"} /\ hpc[h] \in Busy
    BY DEF FindForCreate, Insert, FindForUpdate, Write, Busy
  <1>2. h \in Running /\ Turn(h) /\ Frontier(k)
    BY <1>1 DEF Running, Sequential
  <1>3. w \in Pending /\ kind[w] \in {"created", "updated"} /\ \A m \in Pending : w <= m
    BY <1>1, <1>2 DEF Turn, Stages, Stage
  <1>4. /\ w \in Published /\ w \in Nat /\ k <= w
        /\ ~UpTo(w, {"deleted"}) /\ ~UpTo(w, {"cancelled"})
    BY <1>2, <1>3, FirstPending
  <1>5. w \in Versioned /\ Versioned \subseteq Nat
    BY <1>3, <1>4 DEF Versioned, Published, Messages
  <1>6. Announced(k) => Announced(w)
    <2>1. Accepted \subseteq Nat
      BY DEF Accepted, Versioned, Published, Messages
    <2> QED
      BY <1>4, <2>1 DEF Announced
  <1>7. CASE FindForCreate(h)
    <2>1. UNCHANGED <<brokerVars, work, copy, doc, ghostVars>> /\ Existing' = Existing
      BY <1>7 DEF FindForCreate, Existing
    <2>2. CASE Existing = {} /\ HandlerGoto(h, "insert")
      BY <1>1, <1>2, <2>1, <2>2, SameReplica, MovesOn DEF Busy, Frontier
    <2>3. ASSUME NEW d \in Existing,
                 HandlerGoto(h, IF doc[d].version >= w THEN "synced" ELSE "findUpdate")
          PROVE  \E j \in Nat : Sequential(j)'
      <3>1. CASE doc[d].version >= w
        <4>1. Replica(w)'
          BY <1>2, <1>3, <2>1, <3>1, FoundLater, SameReplica
        <4>2. HandlerGoto(h, "synced")
          BY <2>3, <3>1
        <4> QED
          BY <1>1, <2>1, <4>1, <4>2, MovesOn DEF Busy
      <3>2. CASE ~(doc[d].version >= w)
        <4>1. HandlerGoto(h, "findUpdate")
          BY <2>3, <3>2
        <4> QED
          BY <1>1, <1>2, <2>1, <4>1, SameReplica, MovesOn DEF Busy, Frontier
      <3> QED
        BY <3>1, <3>2
    <2> QED
      BY <1>7, <2>2, <2>3 DEF FindForCreate
  <1>8. CASE FindForUpdate(h)
    <2>1. UNCHANGED <<brokerVars, work, copy, doc, ghostVars>> /\ Existing' = Existing
      BY <1>8 DEF FindForUpdate, Existing
    <2>2. CASE Existing = {} /\ HandlerGoto(h, "findCreate")
      BY <1>1, <1>2, <2>1, <2>2, SameReplica, MovesOn DEF Busy, Frontier
    <2>3. ASSUME NEW d \in Existing,
                 HandlerGoto(h, IF doc[d].version >= w THEN "synced" ELSE "write")
          PROVE  \E j \in Nat : Sequential(j)'
      <3>1. CASE doc[d].version >= w
        <4>1. Replica(w)'
          BY <1>2, <1>3, <2>1, <3>1, FoundLater, SameReplica
        <4>2. HandlerGoto(h, "synced")
          BY <2>3, <3>1
        <4> QED
          BY <1>1, <2>1, <4>1, <4>2, MovesOn DEF Busy
      <3>2. CASE ~(doc[d].version >= w)
        <4>1. HandlerGoto(h, "write")
          BY <2>3, <3>2
        <4> QED
          BY <1>1, <1>2, <2>1, <4>1, SameReplica, MovesOn DEF Busy, Frontier
      <3> QED
        BY <3>1, <3>2
    <2> QED
      BY <1>8, <2>2, <2>3 DEF FindForUpdate
  <1>9. ASSUME NEW d \in Handlers, Existing \subseteq {d}, Announced(w),
               doc' = [doc EXCEPT ![d] = [live |-> TRUE, version |-> w, cancelled |-> FALSE]],
               HandlerGoto(h, "synced"), UNCHANGED <<brokerVars, work, copy, ghostVars>>
        PROVE  \E j \in Nat : Sequential(j)'
    <2>1. /\ doc'[d].live /\ doc'[d].version = w /\ doc'[d].cancelled = FALSE
          /\ \A e \in Handlers \ {d} : doc'[e] = doc[e]
      BY <1>9 DEF TypeOK
    <2>2. Existing' = {d}
      BY <1>9, <2>1 DEF Existing
    <2>3. \A j, K : UpTo(j, K)' = UpTo(j, K)
      BY <1>9 DEF UpTo, Published
    <2>4. Versioned' = Versioned /\ Accepted' = Accepted /\ work'[h] = w
      BY <1>9 DEF Accepted, Versioned, Published
    <2>5. \A j : j = w => Latest(d, j)'
      <3>1. \A j : j = w => (doc'[d].cancelled <=> UpTo(j, {"cancelled"})')
        BY <1>4, <2>1, <2>3
      <3> HIDE DEF w
      <3> QED
        BY <1>5, <2>1, <2>2, <2>4, <3>1 DEF Latest
    <2>6. \A j : j = w => Replica(j)'
      <3>1. \A j : j = w => Announced(j)' /\ ~UpTo(j, {"deleted"})'
        BY <1>4, <1>9, <2>3, <2>4 DEF Announced
      <3> HIDE DEF w
      <3> QED
        BY <2>5, <3>1 DEF Replica
    <2>7. Replica(work[h])'
      BY <2>4, <2>6
    <2> QED
      BY <1>1, <1>9, <2>7, MovesOn DEF Busy
  <1>12. ASSUME w \in refused, HandlerGoto(h, "failed"),
                UNCHANGED <<brokerVars, work, copy, doc, ghostVars>>
         PROVE  \E j \in Nat : Sequential(j)'
    <2>1. Replica(w)'
      BY <1>2, <1>3, <1>12, NothingNew, SameReplica
    <2> QED
      BY <1>1, <1>12, <2>1, MovesOn DEF Busy
  <1>10. CASE Insert(h)
    <2>1. Existing \subseteq {h}
      BY <1>2, <1>10 DEF Insert, Turn
    <2>2. CASE w \in refused
      BY <1>10, <1>12, <2>2 DEF Insert
    <2>3. CASE w \notin refused
      <3>1. Announced(w)
        BY <1>4, <1>5, <2>3 DEF Announced, Accepted
      <3> QED
        BY <1>9, <1>10, <2>1, <2>3, <3>1 DEF Insert
    <2> QED
      BY <2>2, <2>3
  <1>11. CASE Write(h)
    <2>1. Existing # {}
      BY <1>2, <1>11 DEF Write, Turn
    <2>2. CASE w \in refused /\ HandlerGoto(h, "failed") /\ UNCHANGED doc
      BY <1>11, <1>12, <2>2 DEF Write
    <2>3. ASSUME NEW d \in Existing, HandlerGoto(h, "synced"),
                 doc' = [doc EXCEPT ![d] = [live |-> TRUE, version |-> w, cancelled |-> FALSE]]
          PROVE  \E j \in Nat : Sequential(j)'
      <3>1. Existing \subseteq {d} /\ d \in Handlers /\ Announced(w)
        BY <1>2, <1>6, <2>1 DEF Frontier, Replica, Latest, Existing
      <3> QED
        BY <1>9, <1>11, <2>3, <3>1 DEF Write
    <2> QED
      BY <1>11, <2>1, <2>2, <2>3 DEF Write
  <1> QED
    BY <1>7, <1>8, <1>10, <1>11

\* The handlers of cancellations.
LEMMA CancellationsInTurn ==
  ASSUME TypeOK, Stages, InOrder, NEW k \in Nat, Sequential(k), NEW h \in Handlers,
         FindToCancel(h) \/ SaveCancelled(h)
  PROVE  \E j \in Nat : Sequential(j)'
  <1> DEFINE w == work[h]
  <1>1. hpc[h] \in {"findCancel", "cancel"} /\ hpc[h] \in Busy
    BY DEF FindToCancel, SaveCancelled, Busy
  <1>2. h \in Running /\ Turn(h) /\ Frontier(k)
    BY <1>1 DEF Running, Sequential
  <1>3. w \in Pending /\ kind[w] = "cancelled" /\ \A m \in Pending : w <= m
    BY <1>1, <1>2 DEF Turn, Stages, Stage
  <1>4. /\ w \in Published /\ w \in Nat /\ k <= w
        /\ \A m \in Published : m < w => m <= k
        /\ ~UpTo(w, {"deleted"}) /\ ~UpTo(k, {"deleted"})
    BY <1>2, <1>3, FirstPending
  <1>5. CASE FindToCancel(h)
    <2>1. UNCHANGED <<brokerVars, work, doc, ghostVars>> /\ Existing' = Existing
      BY <1>5 DEF FindToCancel, Existing
    <2>2. CASE Existing = {} /\ HandlerGoto(h, "synced")
      <3>1. Replica(w)'
        BY <1>2, <1>3, <2>1, <2>2, NothingNew, SameReplica
      <3> QED
        BY <1>1, <2>1, <2>2, <3>1, MovesOn DEF Busy
    <2>3. ASSUME NEW d \in Existing,
                 copy' = [copy EXCEPT ![h] = [of |-> d, cancelled |-> doc[d].cancelled]],
                 HandlerGoto(h, "cancel")
          PROVE  \E j \in Nat : Sequential(j)'
      <3>1. copy'[h].of = d /\ copy'[h].cancelled = doc[d].cancelled /\ doc[d].live
        BY <2>3 DEF TypeOK, Existing
      <3> QED
        BY <1>1, <1>2, <2>1, <2>3, <3>1, SameReplica, MovesOn DEF Busy, Frontier
    <2>4. CASE (\E d \in Existing : doc[d].version \in refused) /\ HandlerGoto(h, "failed")
      <3>1. Replica(w)'
        BY <1>2, <1>3, <2>1, <2>4, NothingNew, SameReplica
      <3> QED
        BY <1>1, <2>1, <2>4, <3>1, MovesOn DEF Busy
    <2> QED
      BY <1>5, <2>2, <2>3, <2>4 DEF FindToCancel
  <1>6. CASE SaveCancelled(h)
    <2>1. PICK d \in Handlers : d = copy[h].of
      BY DEF TypeOK, Copy
    <2>2. doc[d].live /\ copy[h].cancelled = doc[d].cancelled /\ doc[d] \in Document
      BY <1>2, <1>6, <2>1 DEF SaveCancelled, Turn, TypeOK
    <2>3. /\ doc' = [doc EXCEPT ![d].cancelled = IF copy[h].cancelled THEN @ ELSE TRUE]
          /\ HandlerGoto(h, "synced")
          /\ UNCHANGED <<brokerVars, work, ghostVars>>
      BY <1>6, <2>1, <2>2 DEF SaveCancelled
    <2>4. /\ doc'[d].live /\ doc'[d].version = doc[d].version /\ doc'[d].cancelled = TRUE
          /\ \A e \in Handlers \ {d} : doc'[e] = doc[e]
      BY <2>2, <2>3 DEF TypeOK, Document
    <2>5. Existing' = Existing /\ Existing # {}
      BY <2>2, <2>4 DEF Existing
    <2>6. \A j, K : UpTo(j, K)' = UpTo(j, K)
      BY <2>3 DEF UpTo, Published
    <2>7. Versioned' = Versioned /\ Accepted' = Accepted
      BY <2>3 DEF Accepted, Versioned, Published
    <2>8. Announced(k) /\ Latest(d, k)
      <3>1. PICK e \in Handlers : Latest(e, k)
        BY <1>2, <2>5 DEF Frontier, Replica
      <3>2. e = d
        BY <2>2, <3>1 DEF Latest, Existing
      <3> QED
        BY <1>2, <2>5, <3>1, <3>2 DEF Frontier, Replica
    <2>9. /\ Versioned \subseteq Published /\ w \notin Versioned /\ Published \subseteq Nat
          /\ Accepted \subseteq Versioned
      BY <1>3 DEF Accepted, Versioned, Published, Messages
    <2>10. Announced(w) /\ UpTo(w, {"cancelled"})
      BY <1>3, <1>4, <2>8, <2>9 DEF UpTo, Announced
    <2> DEFINE v == doc[d].version
    <2>11. v \in Versioned /\ v \in Nat /\ v <= k /\ \A u \in Accepted : u <= k => u <= v
      BY <2>8, <2>9 DEF Latest
    <2> HIDE DEF v
    <2>12. v <= w /\ \A u \in Accepted : u <= w => u <= v
      <3>1. v <= w
        BY <1>4, <2>11
      <3>2. ASSUME NEW u \in Accepted, u <= w PROVE u <= v
        <4>1. u < w
          BY <1>4, <2>9, <3>2
        <4> QED
          BY <1>4, <2>9, <2>11, <4>1
      <3> QED
        BY <3>1, <3>2
    <2>13. work'[h] = w /\ doc'[d].version = v
      BY <2>3, <2>4 DEF v
    <2>14. Existing' = {d}
      BY <2>5, <2>8 DEF Latest
    <2> HIDE DEF w
    <2>15. \A j : j = w => Latest(d, j)'
      BY <2>4, <2>6, <2>7, <2>10, <2>11, <2>12, <2>13, <2>14 DEF Latest
    <2>16. \A j : j = w => Replica(j)'
      BY <1>4, <2>6, <2>7, <2>10, <2>15 DEF Replica, Announced
    <2>17. Replica(work[h])'
      BY <2>13, <2>16 DEF w
    <2> QED
      BY <1>1, <2>3, <2>17, MovesOn DEF Busy
  <1> QED
    BY <1>5, <1>6

\* The handlers of deletions.
LEMMA DeletionsInTurn ==
  ASSUME TypeOK, Stages, InOrder, NEW k \in Nat, Sequential(k), NEW h \in Handlers, Delete(h)
  PROVE  \E j \in Nat : Sequential(j)'
  <1> DEFINE w == work[h]
  <1>1. hpc[h] = "delete" /\ hpc[h] \in Busy
    BY DEF Delete, Busy
  <1>2. h \in Running /\ Turn(h) /\ Frontier(k)
    BY <1>1 DEF Running, Sequential
  <1>3. w \in Published /\ kind[w] = "deleted" /\ w \in Nat
    BY <1>1, <1>2 DEF Stages, Stage, Published, Messages
  <1>4. HandlerGoto(h, "ack") /\ UNCHANGED <<brokerVars, work, copy, ghostVars>>
    BY DEF Delete
  <1>5. UpTo(w, {"deleted"})'
    BY <1>3, <1>4 DEF UpTo, Published
  <1>6. Existing' = {}
    <2>1. CASE Existing = {} /\ UNCHANGED doc
      BY <2>1 DEF Existing
    <2>2. ASSUME NEW d \in Existing, doc' = [doc EXCEPT ![d] = NoDocument]
          PROVE  Existing' = {}
      <3>1. Existing = {d}
        BY <1>2, <2>2 DEF Frontier, Replica, Latest
      <3>2. \A e \in Handlers : ~doc'[e].live
        BY <2>2, <3>1 DEF TypeOK, NoDocument, Existing
      <3> QED
        BY <3>2 DEF Existing
    <2> QED
      BY <2>1, <2>2 DEF Delete
  <1>7. Replica(w)'
    BY <1>4, <1>5, <1>6 DEF Replica
  <1> QED
    BY <1>1, <1>4, <1>7, MovesOn DEF Busy

\* Nobody runs any more; the broker holds what it held, but perhaps for a message
\* that has been handled.
LEMMA Rests ==
  ASSUME TypeOK, Stages, NEW k \in Nat, Frontier(k), Running' = {}, Delivered' = {},
         UNCHANGED <<kind, refused, doc>>,
         ready' \subseteq Pending, Pending \ {k} \subseteq ready',
         \A m \in handled' : m <= k
  PROVE  Sequential(k)'
  <1>1. Published' = Published /\ Pending' = ready' /\ Replica(k)'
    BY SameReplica DEF Pending, Frontier
  <1>2. Published \subseteq Nat
    BY DEF Published, Messages
  <1>3. Frontier(k)'
    BY <1>1, <1>2 DEF Frontier
  <1> QED
    BY <1>3 DEF Sequential

\* The end of a handler: its message is before or at the frontier, and is the
\* only one the broker may forget.
LEMMA AckInTurn ==
  ASSUME TypeOK, Stages, TagsAreOwned, InOrder, NEW k \in Nat, Sequential(k),
         NEW h \in Handlers, Ack(h)
  PROVE  Sequential(k)'
  <1> DEFINE w == work[h]
  <1>1. hpc[h] \in {"synced", "failed", "ack"} /\ hpc[h] \in Busy
    BY DEF Ack, Busy
  <1>2. h \in Running /\ Turn(h) /\ Frontier(k)
    BY <1>1 DEF Running, Sequential
  <1>3. w \in Pending /\ w <= k /\ k <= w /\ w \in Nat
    BY <1>1, <1>2 DEF Turn, Frontier, Pending, Stages, Published, Messages
  <1>4. w = k
    BY <1>3
  <1>5. UNCHANGED <<kind, refused, doc>> /\ handled' = handled \cup {w} /\ \A m \in handled' : m <= k
    BY <1>2, <1>3 DEF Ack, Frontier
  <1>6. ASSUME End(h) \/ Restart PROVE Running' = {}
    BY <1>2, <1>6 DEF End, Restart, HandlerGoto, Turn, Running, TypeOK, Busy
  <1>7. Delivered \subseteq {k}
    BY <1>2, <1>4 DEF Turn, Delivered, Messages, NoMessage
  <1>8. h[2] \in Tags /\ NoMessage \notin Messages
    BY HandlerIsPair DEF NoMessage, Messages
  <1>9. CASE ~connected
    <2>1. End(h) /\ UNCHANGED <<ready, unacked>>
      BY <1>9 DEF Ack
    <2>2. Delivered = {} /\ Delivered' = {}
      BY <1>8, <1>9, <2>1 DEF TagsAreOwned, Delivered
    <2>3. Pending = ready
      BY <2>2 DEF Pending
    <2> QED
      BY <1>2, <1>5, <1>6, <2>1, <2>2, <2>3, Rests
  <1>10. CASE connected /\ unacked[h[2]] # NoMessage
    <2>1. End(h) /\ unacked' = [unacked EXCEPT ![h[2]] = NoMessage] /\ UNCHANGED ready
      BY <1>10 DEF Ack
    <2>2. Delivered' = {}
      BY <1>2, <1>8, <2>1 DEF Turn, Delivered, TypeOK
    <2>3. ready \subseteq Pending /\ Pending \ {k} \subseteq ready
      BY <1>7 DEF Pending
    <2> QED
      BY <1>2, <1>5, <1>6, <2>1, <2>2, <2>3, Rests
  <1>11. CASE connected /\ unacked[h[2]] = NoMessage
    <2>1. Requeue /\ (Restart \/ End(h))
      BY <1>11 DEF Ack
    <2>2. Delivered' = {} /\ ready' = Pending
      BY <1>8, <2>1 DEF Requeue, Delivered, Pending
    <2> QED
      BY <1>2, <1>5, <1>6, <2>1, <2>2, Rests
  <1> QED
    BY <1>9, <1>10, <1>11

\* A message is delivered while nobody runs.
LEMMA DeliverInTurn ==
  ASSUME TypeOK, Stages, InOrder, NEW k \in Nat, Sequential(k), Deliver, ~overlapped'
  PROVE  \E j \in Nat : Sequential(j)'
  <1> PICK m \in Messages, h \in Handlers, tag \in Tags :
         m = Min(ready) /\ h = <<channel, nextTag>> /\ tag = nextTag
    BY NextDelivery
  <1>1. m \in ready
    BY NextDelivery
  <1>2. Running = {} /\ Delivered = {} /\ Frontier(k)
    BY DEF Deliver, Sequential
  <1>3. Pending = ready /\ \A n \in Pending : m <= n
    <2>1. ready \in SUBSET Nat /\ ready # {}
      BY DEF TypeOK, Messages, Deliver
    <2>2. \A n \in ready : m <= n
      BY <2>1, MinIsMember
    <2> QED
      BY <1>2, <2>2 DEF Pending
  <1>4. /\ hpc' = [hpc EXCEPT ![h] = Begin(m)]
        /\ work' = [work EXCEPT ![h] = m]
        /\ unacked' = [unacked EXCEPT ![tag] = m]
        /\ ready' = ready \ {m}
        /\ UNCHANGED <<kind, refused, copy, doc, handled>>
    BY DEF Deliver, HandlerGoto
  <1>5. /\ m \in Published /\ m \in Nat /\ k <= m
        /\ m \in Pending
    BY <1>1, <1>2, <1>3, FirstPending
  <1>6. hpc'[h] = Begin(m) /\ work'[h] = m /\ Begin(m) \in Busy
    BY <1>1, <1>4, <1>5, BeginIsBusy DEF TypeOK
  <1>7. Running' = {h}
    BY <1>1, <1>2, <1>4, <1>6 DEF Running, TypeOK
  <1>8. h[2] = tag
    OBVIOUS
  <1>9. \A t \in Tags : unacked[t] = NoMessage
    BY <1>2 DEF Delivered, TypeOK
  <1>10. /\ unacked'[tag] = m
         /\ \A t \in Tags : unacked'[t] # NoMessage => t = tag
    BY <1>1, <1>4, <1>9 DEF TypeOK
  <1>11. Delivered' = {m}
    BY <1>1, <1>10 DEF Delivered, NoMessage, Messages
  <1>12. Pending' = Pending
    BY <1>1, <1>3, <1>4, <1>11 DEF Pending
  <1>13. /\ Begin(m) \notin {"insert", "write", "cancel", "synced", "failed"}
         /\ Begin(m) = "ack" => kind[m] = "elsewhere"
    BY <1>5 DEF Begin, TypeOK, Published, Kinds
  <1>14. Turn(h)'
    <2>1. (work[h] \in Pending /\ \A n \in Pending : work[h] <= n)'
      BY <1>3, <1>5, <1>6, <1>12
    <2>2. (\A t \in Tags : unacked[t] # NoMessage => t = tag /\ unacked[t] = m)'
      BY <1>10
    <2> QED
      BY <1>6, <1>7, <1>8, <1>13, <2>1, <2>2 DEF Turn
  <1>15. \E j \in {k, m} : Replica(j) /\ (Begin(m) = "ack" => j = m)
    <2>1. CASE kind[m] = "elsewhere"
      BY <1>2, <1>3, <1>5, <2>1, NothingNew
    <2>2. CASE kind[m] # "elsewhere"
      BY <1>2, <1>13, <2>2 DEF Frontier
    <2> QED
      BY <2>1, <2>2
  <1>16. PICK j \in {k, m} : Replica(j) /\ (Begin(m) = "ack" => j = m)
    BY <1>15
  <1>17. j \in Nat /\ k <= j /\ j <= m
    BY <1>5
  <1>18. Frontier(j)'
    <2>1. Published \subseteq Nat /\ handled \subseteq Published /\ Pending \subseteq Published
      BY DEF Published, Messages, Stages, Pending
    <2>2. Published' = Published /\ Replica(j)'
      BY <1>4, <1>16, SameReplica
    <2>3. j \in Published \cup {0}
      BY <1>2, <1>5, <1>16 DEF Frontier
    <2>4. \A n \in Pending : j <= n
      BY <1>3, <1>5, <1>17, <2>1
    <2>5. \A n \in Published : j < n => n \in Pending
      BY <1>2, <1>17, <2>1 DEF Frontier
    <2>6. \A n \in handled : n <= j
      BY <1>2, <1>17, <2>1 DEF Frontier
    <2>7. \A g \in Running' : hpc'[g] \in {"synced", "failed", "ack"} => work'[g] <= j
      BY <1>6, <1>7, <1>13, <1>16, <1>17
    <2> QED
      BY <1>4, <1>12, <2>2, <2>3, <2>4, <2>5, <2>6, <2>7 DEF Frontier
  <1> QED
    BY <1>7, <1>14, <1>17, <1>18 DEF Sequential

\* A message that is published comes after all others.
LEMMA PublishInTurn ==
  ASSUME TypeOK, Stages, InOrder, NEW k \in Nat, Sequential(k), NEW c \in Kinds, Publish(c)
  PROVE  Sequential(k)'
  <1> DEFINE p == Min(Messages \ Published)
  <1>1. p \in Messages /\ p \notin Published
    BY NextMessages DEF Publish
  <1>2. \A m \in Published : m < p
    <2> SUFFICES ASSUME NEW m \in Published, ~(m < p) PROVE FALSE
      OBVIOUS
    <2> HIDE DEF p
    <2>1. p < m
      BY <1>1 DEF Published, Messages
    <2> QED
      BY <1>1, <2>1 DEF InOrder
  <1>3. /\ kind' = [kind EXCEPT ![p] = c] /\ ready' = ready \cup {p}
        /\ refused' = refused \/ refused' = refused \cup {p}
        /\ UNCHANGED <<unacked, channel, connected, nextTag, handlerVars, doc, ghostVars>>
    BY DEF Publish
  <1> HIDE DEF p
  <1>4. /\ Published' = Published \cup {p} /\ \A m \in Published : kind'[m] = kind[m]
        /\ p \in Nat /\ Published \subseteq Nat
    BY <1>1, <1>3 DEF Published, TypeOK, Kinds, Messages
  <1>5. /\ Pending' = Pending \cup {p} /\ Delivered' = Delivered
        /\ Running' = Running /\ Existing' = Existing
    BY <1>3 DEF Pending, Delivered, Running, Existing
  <1>6. Frontier(k) /\ \A h \in Running : Turn(h)
    BY DEF Sequential
  <1>7. k < p
    BY <1>1, <1>2, <1>4, <1>6 DEF Frontier, Messages
  <1>8. \A K : UpTo(k, K)' = UpTo(k, K)
    BY <1>1, <1>4, <1>7 DEF UpTo
  <1>9. /\ \A m \in Versioned : m \in Versioned'
        /\ \A m \in Versioned' : m <= k => m \in Versioned
        /\ \A m \in Accepted : m \in Accepted'
        /\ \A m \in Accepted' : m <= k => m \in Accepted
        /\ \A m \in Versioned : m \in refused' <=> m \in refused
        /\ \A m \in Versioned' : m <= k => (m \in refused' <=> m \in refused)
    <2>1. ~(p <= k)
      BY <1>4, <1>7
    <2> QED
      BY <1>1, <1>3, <1>4, <2>1 DEF Accepted, Versioned
  <1>10. \A d : Latest(d, k)' = Latest(d, k)
    <2> SUFFICES ASSUME NEW d PROVE Latest(d, k)' = Latest(d, k)
      OBVIOUS
    <2>1. doc'[d] = doc[d]
      BY <1>3
    <2> QED
      BY <1>5, <1>8, <1>9, <2>1 DEF Latest
  <1>11. Replica(k)'
    BY <1>5, <1>6, <1>8, <1>9, <1>10 DEF Frontier, Replica, Announced
  <1>12. Frontier(k)'
    <2>1. (k \in Published \cup {0})' /\ (\A m \in Pending : k <= m)'
      BY <1>4, <1>5, <1>6, <1>7 DEF Frontier
    <2>2. (\A m \in Published : k < m => m \in Pending)'
      BY <1>4, <1>5, <1>6 DEF Frontier
    <2>3. (\A m \in handled : m <= k)'
      BY <1>3, <1>6 DEF Frontier
    <2>4. (\A h \in Running : hpc[h] \in {"synced", "failed", "ack"} => work[h] <= k)'
      BY <1>3, <1>5, <1>6 DEF Frontier
    <2> QED
      BY <1>11, <2>1, <2>2, <2>3, <2>4 DEF Frontier
  <1>13. ASSUME NEW h \in Running PROVE Turn(h)'
    <2>1. Turn(h) /\ work[h] \in Published
      BY <1>6 DEF Turn, Pending, Stages
    <2>2. work[h] \in Nat /\ p \in Nat /\ work[h] < p
      BY <1>2, <1>4, <2>1
    <2>3. (\A m \in Pending : work[h] <= m)'
      <3>1. work[h] <= p
        BY <2>2
      <3>2. work' = work
        BY <1>3
      <3> QED
        BY <1>5, <2>1, <3>1, <3>2 DEF Turn
    <2> QED
      BY <1>3, <1>5, <2>1, <2>3 DEF Turn
  <1> QED
    BY <1>5, <1>12, <1>13 DEF Sequential

\* Connections and restarts put messages back and end handlers.
LEMMA BrokerInTurn ==
  ASSUME TypeOK, Stages, InOrder, NEW k \in Nat, Sequential(k),
         Connect \/ ConnectionLost \/ Crash
  PROVE  Sequential(k)'
  <1>1. Frontier(k) /\ \A h \in Running : Turn(h)
    BY DEF Sequential
  <1>2. CASE Connect
    <2>1. UNCHANGED <<kind, refused, ready, unacked, handlerVars, doc, handled>>
      BY <1>2 DEF Connect
    <2>2. /\ Published' = Published /\ Pending' = Pending /\ Running' = Running
          /\ Existing' = Existing /\ Delivered' = Delivered /\ Replica(k)' = Replica(k)
      BY <2>1, SameReplica DEF Published, Pending, Running, Existing, Delivered
    <2>3. Frontier(k)'
      BY <1>1, <2>1, <2>2 DEF Frontier
    <2>4. \A h \in Running : Turn(h)'
      BY <1>1, <2>1, <2>2 DEF Turn
    <2> QED
      BY <2>2, <2>3, <2>4 DEF Sequential
  <1>3. CASE ConnectionLost \/ Crash
    <2>1. Requeue /\ UNCHANGED <<kind, refused, doc, handled>>
      BY <1>3 DEF ConnectionLost, Crash
    <2>2. Delivered' = {} /\ ready' = Pending /\ Pending' = Pending
      BY <2>1 DEF Requeue, Delivered, Pending, NoMessage, Messages
    <2>3. CASE Crash
      <3>1. Running' = {}
        BY <2>3 DEF Crash, Restart, Running, Busy
      <3> QED
        BY <1>1, <2>1, <2>2, <3>1, Rests DEF Frontier
    <2>4. CASE ConnectionLost
      <3>1. UNCHANGED handlerVars
        BY <2>4 DEF ConnectionLost
      <3>2. /\ Published' = Published /\ Running' = Running
            /\ Existing' = Existing /\ Replica(k)' = Replica(k)
        BY <2>1, <3>1, SameReplica DEF Published, Running, Existing
      <3>3. Frontier(k)'
        BY <1>1, <2>1, <2>2, <3>1, <3>2 DEF Frontier
      <3>4. ASSUME NEW h \in Running PROVE Turn(h)'
        <4>1. (\A t \in Tags : unacked[t] # NoMessage => t = h[2] /\ unacked[t] = work[h])'
          BY <2>1 DEF Requeue
        <4> QED
          BY <1>1, <2>1, <2>2, <3>1, <3>2, <4>1 DEF Turn
      <3> QED
        BY <2>2, <3>2, <3>3, <3>4 DEF Sequential
    <2> QED
      BY <1>3, <2>3, <2>4
  <1> QED
    BY <1>2, <1>3

\* Without overlapping handlers or rejected calls there were none before.
LEMMA FlagsStay ==
  ASSUME TypeOK, [Next]_vars, ~overlapped', errors' = 0
  PROVE  /\ ~overlapped /\ errors = 0
         /\ \A h \in Handlers : ~DatabaseError(h)
  <1>1. \A h \in Handlers : ~DatabaseError(h)
    BY DEF DatabaseError, TypeOK
  <1>2. ~overlapped
    BY <1>1
    DEF Next, vars, Publish, Deliver, Connect, ConnectionLost, Crash, HandlerStep, FindForCreate,
        Insert, FindForUpdate, Write, FindToCancel, SaveCancelled, Delete, Ack
  <1>3. errors = 0
    BY <1>1
    DEF Next, vars, Publish, Deliver, Connect, ConnectionLost, Crash, HandlerStep, FindForCreate,
        Insert, FindForUpdate, Write, FindToCancel, SaveCancelled, Delete, Ack
  <1> QED
    BY <1>1, <1>2, <1>3

\* Every step keeps the frontier, or moves it past the message being handled.
LEMMA NextInTurn ==
  ASSUME TypeOK, Stages, TagsAreOwned, InOrder, InTurn, [Next]_vars
  PROVE  InTurn'
  <1> SUFFICES ASSUME ~overlapped', errors' = 0
               PROVE  \E k \in Nat : Sequential(k)'
    BY DEF InTurn
  <1>1. ~overlapped /\ errors = 0 /\ \A h \in Handlers : ~DatabaseError(h)
    BY FlagsStay
  <1>2. PICK k \in Nat : Sequential(k)
    BY <1>1 DEF InTurn
  <1>3. ASSUME NEW c \in Kinds, Publish(c) PROVE \E j \in Nat : Sequential(j)'
    BY <1>2, <1>3, PublishInTurn
  <1>4. ASSUME Deliver PROVE \E j \in Nat : Sequential(j)'
    BY <1>2, <1>4, DeliverInTurn
  <1>5. ASSUME Connect \/ ConnectionLost \/ Crash PROVE \E j \in Nat : Sequential(j)'
    BY <1>2, <1>5, BrokerInTurn
  <1>6. ASSUME NEW h \in Handlers, HandlerStep(h) PROVE \E j \in Nat : Sequential(j)'
    BY <1>2, <1>6, VersionsInTurn, CancellationsInTurn, DeletionsInTurn, AckInTurn
    DEF HandlerStep
  <1>7. ASSUME UNCHANGED vars PROVE \E j \in Nat : Sequential(j)'
    <2>1. UNCHANGED <<brokerVars, handlerVars, doc, handled>>
      BY <1>7 DEF vars
    <2>2. /\ Published' = Published /\ Pending' = Pending /\ Running' = Running
          /\ Existing' = Existing /\ Delivered' = Delivered /\ Replica(k)' = Replica(k)
      BY <2>1, SameReplica DEF Published, Pending, Running, Existing, Delivered
    <2>3. Frontier(k)' /\ \A h \in Running : Turn(h)'
      BY <1>2, <2>1, <2>2 DEF Sequential, Frontier, Turn
    <2> QED
      BY <1>2, <2>2, <2>3 DEF Sequential
  <1> QED
    BY <1>1, <1>3, <1>4, <1>5, <1>6, <1>7 DEF Next

\* What the frontier says once every message has been handled.
LEMMA FrontierIsLast ==
  ASSUME TypeOK, Stages, InOrder, InTurn
  PROVE  SequentialReplica
  <1> SUFFICES ASSUME ~overlapped, errors = 0, Published \subseteq handled, Running = {}
               PROVE  IF Accepted = {} \/ Sent("deleted")
                      THEN Existing = {}
                      ELSE \E d \in Handlers :
                              /\ Existing = {d}
                              /\ doc[d].version \in Versioned
                              /\ doc[d].version >= Max(Accepted)
                              /\ doc[d].version \notin refused =>
                                    doc[d].cancelled = Sent("cancelled")
    BY DEF SequentialReplica
  <1>1. PICK k \in Nat : Frontier(k)
    BY DEF InTurn, Sequential
  <1>2. \A m \in Published : m <= k
    BY <1>1 DEF Frontier
  <1>3. Published \subseteq Messages /\ Messages \subseteq Nat
    BY DEF Published, Messages
  <1>4. \A c \in Kinds : Sent(c) <=> UpTo(k, {c})
    BY <1>2 DEF UpTo, Sent, Published, Kinds
  <1>5. Accepted # {} <=> Announced(k)
    BY <1>2 DEF Announced, Accepted, Versioned
  <1>6. CASE Accepted = {} \/ Sent("deleted")
    BY <1>1, <1>4, <1>5, <1>6 DEF Frontier, Replica, Kinds
  <1>7. CASE ~(Accepted = {} \/ Sent("deleted"))
    <2>1. PICK d \in Handlers : Latest(d, k)
      BY <1>1, <1>4, <1>5, <1>7 DEF Frontier, Replica, Kinds
    <2>2. doc[d].version \in Versioned /\ \A v \in Accepted : v <= doc[d].version
      BY <1>2, <2>1 DEF Latest, Accepted, Versioned
    <2>3. Max(Accepted) \in Accepted
      <3>1. /\ Accepted \in SUBSET Nat /\ Accepted # {}
            /\ \E n \in Nat : \A v \in Accepted : v <= n
        BY <1>3, <1>7, <2>2 DEF Accepted, Versioned
      <3> QED
        BY <3>1, MaxIsMember
    <2>4. doc[d].version \in Nat /\ Max(Accepted) \in Nat
      BY <1>3, <2>2, <2>3 DEF Accepted, Versioned
    <2>5. doc[d].version >= Max(Accepted)
      <3> DEFINE x == Max(Accepted)
      <3>1. x <= doc[d].version /\ x \in Nat
        BY <2>2, <2>3, <2>4
      <3> HIDE DEF x
      <3>2. doc[d].version >= x
        BY <2>4, <3>1
      <3> QED
        BY <3>2 DEF x
    <2>6. doc[d].version \notin refused => doc[d].cancelled = Sent("cancelled")
      <3>1. doc[d].cancelled \in BOOLEAN /\ Sent("cancelled") \in BOOLEAN
        BY DEF TypeOK, Document, Sent
      <3>2. doc[d].version \notin refused => (doc[d].cancelled <=> Sent("cancelled"))
        BY <1>4, <2>1 DEF Latest, Kinds
      <3> QED
        BY <3>1, <3>2
    <2> QED
      BY <1>7, <2>1, <2>2, <2>5, <2>6 DEF Latest
  <1> QED
    BY <1>6, <1>7

\* Handlers that happen to run one after the other leave what was published last:
\* nothing, or one document, no older than the last accepted version and, unless
\* it holds refused content, cancelled or not as published; also when messages are
\* delivered again after lost connections and restarts.
THEOREM SequentialIsReplica == Spec => []SequentialReplica
  <1> DEFINE I == IInv /\ InOrder /\ InTurn
  <1>1. Init => I
    <2> SUFFICES ASSUME Init PROVE InOrder /\ Sequential(0)
      BY InitIInv DEF InTurn
    <2>1. /\ Published = {} /\ Delivered = {} /\ Running = {} /\ Existing = {}
          /\ ready = {} /\ handled = {}
      BY DEF Init, Published, Delivered, Running, Existing, NoDocument, Busy, NoMessage, Messages
    <2> QED
      BY <2>1 DEF InOrder, Sequential, Frontier, Replica, Announced, Accepted, Versioned, Pending
  <1>2. I /\ [Next]_vars => I'
    BY NextIInv, NextInOrder, NextInTurn DEF IInv
  <1>3. I => SequentialReplica
    BY FrontierIsLast DEF IInv
  <1> QED
    BY <1>1, <1>2, <1>3, PTL DEF Spec

=============================================================================
