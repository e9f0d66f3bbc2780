---------------------- MODULE EventRegistrationsProofs ----------------------
(***************************************************************************)
(* What holds of the seats of an event for any numbers of checkouts,       *)
(* deposits, guests, busy handlers and faults.                             *)
(*                                                                         *)
(* Four invariants rest on the types, each beside the steps it is about:   *)
(* Seating (a document with money on it is in nobody's list of documents   *)
(* to delete), Counting (no counter, nor any copy of it, runs ahead of the *)
(* documents), Finding (who has checked an e-mail knows what is there) and *)
(* Entries (a copy of a ledger is a ledger that was).                      *)
(***************************************************************************)
EXTENDS EventRegistrations, FiniteSetTheorems, TLAPS

-----------------------------------------------------------------------------
(***************************************************************************)
(* Types                                                                   *)
(***************************************************************************)

\* What initiatePartialPayment goes on with: an insert, or the first document
\* of the e-mail that it finds.
LEMMA InitiateEffect ==
    ASSUME NEW d \in Deposits, Initiate(d)
    PROVE  \/ Registered(EmailOf[d]) = {} /\ Goto(d, "insert") /\ target' = target
           \/ \E r \in Registered(EmailOf[d]) :
                 \/ Goto(d, "refused") /\ target' = target
                 \/ r \notin paid /\ Goto(d, "replace") /\ target' = [target EXCEPT ![d] = r]
<1>1. CASE Registered(EmailOf[d]) = {}
  BY <1>1 DEF Initiate, Begin
<1>2. CASE Registered(EmailOf[d]) # {}
  <2>1. PICK r \in Registered(EmailOf[d]) :
           IF r \in paid
           THEN Goto(d, "refused") /\ UNCHANGED target
           ELSE Begin(d, "replace") /\ target' = [target EXCEPT ![d] = r]
    BY <1>2 DEF Initiate
  <2> QED BY <2>1 DEF Begin
<1> QED BY <1>1, <1>2

\* No step leaves the types.
LEMMA TypeStep == TypeOK /\ [Next]_vars => TypeOK'
<1> SUFFICES ASSUME TypeOK, [Next]_vars PROVE TypeOK'
  OBVIOUS
<1> USE NamesAssumption DEF TypeOK, Seats, PCs, Goto, Begin, Fault, ledgers
<1>1. ASSUME NEW c \in Checkouts,
             RequestCheckout(c) \/ BeginCheckout(c) \/ Count(c) \/ Record(c) \/ Reward(c) \/ AddSale(c)
      PROVE TypeOK'
  <2>1. CASE RequestCheckout(c)
    BY <2>1 DEF RequestCheckout
  <2>2. CASE BeginCheckout(c)
    BY <2>2 DEF BeginCheckout
  <2>3. CASE Count(c)
    BY <2>3 DEF Count
  <2>4. CASE Record(c)
    BY <2>4 DEF Record
  <2>5. CASE Reward(c) \/ AddSale(c)
    BY <2>5 DEF Reward, AddSale
  <2> QED BY <1>1, <2>1, <2>2, <2>3, <2>4, <2>5
<1>2. ASSUME NEW v \in Vips, RequestVip(v) \/ BeginVip(v) PROVE TypeOK'
  BY <1>2 DEF RequestVip, BeginVip
<1>3. ASSUME NEW f \in Frees, RequestFree(f) PROVE TypeOK'
  BY <1>3 DEF RequestFree
<1>4. ASSUME NEW a \in Seats, Validate(a) \/ Insert(a) \/ Notify(a) PROVE TypeOK'
  BY <1>4 DEF Validate, Insert, Notify, Races
<1>5. ASSUME NEW d \in Deposits, Initiate(d) \/ Replace(d) \/ InsertDeposit(d) \/ RecordDeposit(d)
      PROVE TypeOK'
  <2>1. CASE Initiate(d)
    <3>1. target' = target \/ \E r \in live : target' = [target EXCEPT ![d] = r]
      BY <2>1, InitiateEffect DEF Registered
    <3>2. \E l \in PCs : pc' = [pc EXCEPT ![d] = l]
      BY <2>1, InitiateEffect
    <3> QED BY <2>1, <3>1, <3>2 DEF Initiate
  <2>2. CASE Replace(d) \/ InsertDeposit(d)
    BY <2>2 DEF Replace, InsertDeposit, Races
  <2>3. CASE RecordDeposit(d)
    BY <2>3 DEF RecordDeposit
  <2> QED BY <1>5, <2>1, <2>2, <2>3
<1>6. CASE FindAbandoned \/ DeleteAbandoned
  BY <1>6 DEF FindAbandoned, DeleteAbandoned
<1>7. ASSUME NEW g \in Guests,
             LoadGuests(g) \/ WriteGuests(g) \/ \E r \in Hosts : RequestGuests(g, r)
      PROVE TypeOK'
  <2>1. CASE LoadGuests(g)
    <3>1. copy' \in [Guests -> [guests : SUBSET Guests, amountPaid : Nat]]
      BY <2>1 DEF LoadGuests
    <3>2. \E l \in PCs : pc' = [pc EXCEPT ![g] = l]
      BY <2>1 DEF LoadGuests
    <3> QED BY <2>1, <3>1, <3>2 DEF LoadGuests
  <2>2. CASE WriteGuests(g)
    <3>1. guests' \in [Seats -> SUBSET Guests] /\ amountPaid' \in [Seats -> Nat]
      <4>1. copy[g].guests \cup {g} \in SUBSET Guests /\ copy[g].amountPaid + 1 \in Nat
        OBVIOUS
      <4>2. CASE target[g] \in live
        BY <2>2, <4>1, <4>2 DEF WriteGuests
      <4>3. CASE target[g] \notin live
        BY <2>2, <4>3 DEF WriteGuests
      <4> QED BY <4>2, <4>3
    <3> QED BY <2>2, <3>1 DEF WriteGuests
  <2>3. ASSUME NEW r \in Hosts, RequestGuests(g, r) PROVE TypeOK'
    BY <2>3 DEF RequestGuests
  <2> QED BY <1>7, <2>1, <2>2, <2>3
<1>8. ASSUME NEW a \in Seats \cup Guests, CallRejected(a) PROVE TypeOK'
  BY <1>8 DEF CallRejected
<1>9. CASE CleanupFails \/ Crash
  BY <1>9 DEF CleanupFails, Crash
<1>10. CASE UNCHANGED vars
  BY <1>10 DEF vars
<1> QED BY <1>1, <1>2, <1>3, <1>4, <1>5, <1>6, <1>7, <1>8, <1>9, <1>10 DEF Next

-----------------------------------------------------------------------------
(***************************************************************************)
(* Places                                                                  *)
(***************************************************************************)

Seated == {"notify", "count", "record", "reward", "stats", "done"}

Seating ==
    /\ \A c \in Checkouts : pc[c] \in Seated => c \in live
    /\ \A c \in Checkouts : pc[c] \in {"reward", "stats", "done"} => c \in transactions
    /\ live \cap Checkouts \subseteq paid
    /\ \A d \in Deposits : pc[d] = "replace" => target[d] \notin Checkouts

\* No step disturbs Seating, and no step takes a place away.
LEMMA SeatingStep ==
    TypeOK /\ Seating /\ [Next]_vars => Seating' /\ live \cap Checkouts \subseteq live'
<1> SUFFICES ASSUME TypeOK, Seating, [Next]_vars
             PROVE Seating' /\ live \cap Checkouts \subseteq live'
  OBVIOUS
<1> DEFINE Kept == Seating' /\ live \cap Checkouts \subseteq live'
<1> USE NamesAssumption DEF TypeOK, Seating, Seated, Seats, PCs, Goto, Begin, Fault, ledgers
<1>1. ASSUME NEW c \in Checkouts,
             RequestCheckout(c) \/ BeginCheckout(c) \/ Count(c) \/ Record(c) \/ Reward(c) \/ AddSale(c)
      PROVE Kept
  <2>1. CASE RequestCheckout(c) \/ BeginCheckout(c)
    BY <2>1 DEF RequestCheckout, BeginCheckout
  <2>2. CASE Count(c) \/ Record(c)
    BY <2>2 DEF Count, Record
  <2>3. CASE Reward(c) \/ AddSale(c)
    BY <2>3 DEF Reward, AddSale
  <2> QED BY <1>1, <2>1, <2>2, <2>3
<1>2. ASSUME NEW v \in Vips, RequestVip(v) \/ BeginVip(v) PROVE Kept
  BY <1>2 DEF RequestVip, BeginVip
<1>3. ASSUME NEW f \in Frees, RequestFree(f) PROVE Kept
  BY <1>3 DEF RequestFree
<1>4. ASSUME NEW a \in Seats, Validate(a) \/ Insert(a) \/ Notify(a) PROVE Kept
  <2>1. CASE Validate(a)
    BY <2>1 DEF Validate
  <2>2. CASE Insert(a)
    BY <2>2 DEF Insert, Races
  <2>3. CASE Notify(a)
    BY <2>3 DEF Notify
  <2> QED BY <1>4, <2>1, <2>2, <2>3
<1>5. ASSUME NEW d \in Deposits, Initiate(d) \/ Replace(d) \/ InsertDeposit(d) \/ RecordDeposit(d)
      PROVE Kept
  <2>1. CASE Initiate(d)
    <3>1. \/ target' = target /\ pc'[d] # "replace"
          \/ \E r \in live \ paid : target' = [target EXCEPT ![d] = r]
      BY <2>1, InitiateEffect DEF Registered
    <3>2. \A a \in Seats : a # d => pc'[a] = pc[a]
      BY <2>1, InitiateEffect
    <3> QED BY <2>1, <3>1, <3>2 DEF Initiate
  <2>2. CASE Replace(d)
    BY <2>2 DEF Replace
  <2>3. CASE InsertDeposit(d)
    BY <2>3 DEF InsertDeposit, Races
  <2>4. CASE RecordDeposit(d)
    BY <2>4 DEF RecordDeposit
  <2> QED BY <1>5, <2>1, <2>2, <2>3, <2>4
<1>6. CASE FindAbandoned \/ DeleteAbandoned
  BY <1>6 DEF FindAbandoned, DeleteAbandoned
<1>7. ASSUME NEW g \in Guests,
             LoadGuests(g) \/ WriteGuests(g) \/ \E r \in Hosts : RequestGuests(g, r)
      PROVE Kept
  BY <1>7 DEF LoadGuests, WriteGuests, RequestGuests
<1>8. ASSUME NEW a \in Seats \cup Guests, CallRejected(a) PROVE Kept
  BY <1>8 DEF CallRejected
<1>9. CASE CleanupFails \/ Crash
  BY <1>9 DEF CleanupFails, Crash
<1>10. CASE UNCHANGED vars
  BY <1>10 DEF vars
<1> QED BY <1>1, <1>2, <1>3, <1>4, <1>5, <1>6, <1>7, <1>8, <1>9, <1>10 DEF Next

-----------------------------------------------------------------------------
(***************************************************************************)
(* The counter                                                             *)
(***************************************************************************)

Taken == live \cap Checkouts

Counting ==
    /\ current <= Cardinality(Taken)
    /\ \A c \in Checkouts :
          pc[c] \in {"idle", "full", "offered", "validate", "insert"} => c \notin live
    /\ \A c \in Checkouts :
          pc[c] \in {"validate", "insert", "notify", "count"}
              => seen[c] <= Cardinality(Taken \ {c})
    /\ RefusedOnlyWhenFull

LEMMA TakenIsFinite == IsFiniteSet(Taken)
BY NamesAssumption, FS_Subset DEF Taken

\* Places are only added, so a count of them that was true stays below.
LEMMA Growing ==
    ASSUME live \cap Checkouts \subseteq live', NEW c
    PROVE  /\ Taken \subseteq Taken'
           /\ Cardinality(Taken) <= Cardinality(Taken')
           /\ Cardinality(Taken \ {c}) <= Cardinality(Taken' \ {c})
           /\ Cardinality(Taken) \in Nat /\ Cardinality(Taken') \in Nat
           /\ Cardinality(Taken \ {c}) \in Nat /\ Cardinality(Taken' \ {c}) \in Nat
<1>1. Taken \subseteq Taken' /\ Taken \ {c} \subseteq Taken' \ {c}
  BY DEF Taken
<1>2. IsFiniteSet(Taken) /\ IsFiniteSet(Taken')
  BY NamesAssumption, FS_Subset DEF Taken
<1>3. IsFiniteSet(Taken \ {c}) /\ IsFiniteSet(Taken' \ {c})
  BY <1>2, FS_Subset
<1> QED BY <1>1, <1>2, <1>3, FS_Subset, FS_CardinalityType

\* No step lets the counter, or a copy of it, run ahead of the places taken.
LEMMA CountingStep == TypeOK /\ Seating /\ Counting /\ [Next]_vars => Counting'
<1> SUFFICES ASSUME TypeOK, Seating, Counting, [Next]_vars PROVE Counting'
  OBVIOUS
<1>1. TypeOK' /\ Seating' /\ live \cap Checkouts \subseteq live'
  BY TypeStep, SeatingStep
<1>2. \A c \in Checkouts :
         /\ Cardinality(Taken) <= Cardinality(Taken')
         /\ Cardinality(Taken \ {c}) <= Cardinality(Taken' \ {c})
         /\ Cardinality(Taken) \in Nat /\ Cardinality(Taken') \in Nat
         /\ Cardinality(Taken \ {c}) \in Nat /\ Cardinality(Taken' \ {c}) \in Nat
  BY <1>1, Growing
<1>3. Cardinality(Taken) <= Cardinality(Taken') /\ Cardinality(Taken) \in Nat /\ Cardinality(Taken') \in Nat
  BY <1>1, Growing
\* What a step must show that writes neither the counter nor a copy of it.
<1>4. ASSUME UNCHANGED <<current, seen>>,
             \A c \in Checkouts : c \in live' /\ c \notin live =>
                 pc'[c] \notin {"idle", "full", "offered", "validate", "insert"},
             \A c \in Checkouts :
                 /\ pc'[c] \in {"idle", "full", "offered", "validate", "insert"} =>
                       pc[c] \in {"idle", "full", "offered", "validate", "insert"}
                 /\ pc'[c] \in {"validate", "insert", "notify", "count"} =>
                       pc[c] \in {"validate", "insert", "notify", "count"}
                 /\ pc'[c] = "full" => pc[c] = "full" \/ current >= Capacity
      PROVE Counting'
  <2> USE <1>4, <1>2, <1>3, BoundsAssumption DEF TypeOK, Counting
  <2>1. current' <= Cardinality(Taken')
    OBVIOUS
  <2>2. \A c \in Checkouts :
           pc'[c] \in {"idle", "full", "offered", "validate", "insert"} => c \notin live'
    OBVIOUS
  <2>3. \A c \in Checkouts :
           pc'[c] \in {"validate", "insert", "notify", "count"} => seen'[c] <= Cardinality(Taken' \ {c})
    <3> SUFFICES ASSUME NEW c \in Checkouts, pc'[c] \in {"validate", "insert", "notify", "count"}
                 PROVE  seen'[c] <= Cardinality(Taken' \ {c})
      OBVIOUS
    <3>1. seen[c] <= Cardinality(Taken \ {c}) /\ seen'[c] = seen[c] /\ seen[c] \in Nat
      OBVIOUS
    <3> HIDE DEF Counting, TypeOK
    <3> QED BY <3>1, <1>2
  <2>4. RefusedOnlyWhenFull'
    <3> SUFFICES ASSUME NEW c \in Checkouts, pc'[c] = "full"
                 PROVE  Cardinality(Taken') >= Capacity
      BY DEF RefusedOnlyWhenFull, Taken
    <3>1. CASE pc[c] = "full"
      <4>1. Cardinality(Taken) >= Capacity
        BY <3>1 DEF RefusedOnlyWhenFull, Taken
      <4> HIDE DEF Counting, TypeOK
      <4> QED BY <4>1, <1>3
    <3>2. CASE current >= Capacity
      <4>1. current <= Cardinality(Taken) /\ current \in Nat
        OBVIOUS
      <4> HIDE DEF Counting, TypeOK
      <4> QED BY <3>2, <4>1, <1>3
    <3> QED BY <3>1, <3>2
  <2> QED BY <2>1, <2>2, <2>3, <2>4
<1> USE NamesAssumption DEF TypeOK, Seats, PCs, Goto, Begin, Fault, ledgers
<1>5. ASSUME NEW c \in Checkouts, RequestCheckout(c) PROVE Counting'
  BY <1>5, <1>4 DEF RequestCheckout
<1>6. ASSUME NEW c \in Checkouts, BeginCheckout(c) PROVE Counting'
  <2> USE <1>6 DEF BeginCheckout
  <2>1. Taken' = Taken /\ current' = current
    BY DEF Taken
  <2>2. c \notin Taken
    BY DEF Counting, Taken
  <2>3. seen'[c] <= Cardinality(Taken' \ {c})
    <3>1. Taken \ {c} = Taken
      BY <2>2
    <3> QED BY <3>1, <2>1 DEF Counting
  <2>4. \A b \in Checkouts : b # c => seen'[b] = seen[b] /\ pc'[b] = pc[b]
    OBVIOUS
  <2>5. pc'[c] = "validate"
    OBVIOUS
  <2>6. RefusedOnlyWhenFull'
    BY <2>4, <2>5 DEF Counting, RefusedOnlyWhenFull
  <2> QED BY <2>1, <2>2, <2>3, <2>4, <2>5, <2>6 DEF Counting, Taken
<1>7. ASSUME NEW c \in Checkouts, Count(c) PROVE Counting'
  <2> USE <1>7 DEF Count
  <2>1. Taken' = Taken /\ seen' = seen
    BY DEF Taken
  <2>2. c \in Taken
    BY DEF Seating, Seated, Taken
  <2>3. Cardinality(Taken \ {c}) = Cardinality(Taken) - 1
    BY <2>2, TakenIsFinite, FS_RemoveElement
  <2>4. seen[c] <= Cardinality(Taken \ {c})
    BY DEF Counting
  <2>5. current' <= Cardinality(Taken')
    BY <2>1, <2>3, <2>4, <1>3
  <2>6. pc'[c] = "record" /\ \A b \in Checkouts : b # c => pc'[b] = pc[b]
    OBVIOUS
  <2>7. RefusedOnlyWhenFull'
    BY <2>6 DEF Counting, RefusedOnlyWhenFull
  <2> QED BY <2>1, <2>5, <2>6, <2>7 DEF Counting
<1>8. ASSUME NEW c \in Checkouts, Record(c) \/ Reward(c) \/ AddSale(c) PROVE Counting'
  BY <1>8, <1>4 DEF Record, Reward, AddSale
<1>9. ASSUME NEW v \in Vips, RequestVip(v) \/ BeginVip(v) PROVE Counting'
  BY <1>9, <1>4 DEF RequestVip, BeginVip
<1>10. ASSUME NEW f \in Frees, RequestFree(f) PROVE Counting'
  BY <1>10, <1>4 DEF RequestFree
<1>11. ASSUME NEW a \in Seats, Validate(a) \/ Insert(a) \/ Notify(a) PROVE Counting'
  <2>1. CASE Validate(a)
    BY <2>1, <1>4 DEF Validate
  <2>2. CASE Insert(a)
    BY <2>2, <1>4 DEF Insert, Races
  <2>3. CASE Notify(a)
    BY <2>3, <1>4 DEF Notify
  <2> QED BY <1>11, <2>1, <2>2, <2>3
<1>12. ASSUME NEW d \in Deposits, Initiate(d) \/ Replace(d) \/ InsertDeposit(d) \/ RecordDeposit(d)
       PROVE Counting'
  <2>1. \A c \in Checkouts : pc'[c] = pc[c]
    <3>1. \E l \in PCs : pc' = [pc EXCEPT ![d] = l]
      <4>1. CASE Initiate(d)
        BY <4>1 DEF Initiate
      <4>2. CASE Replace(d) \/ InsertDeposit(d) \/ RecordDeposit(d)
        BY <4>2 DEF Replace, InsertDeposit, RecordDeposit
      <4> QED BY <1>12, <4>1, <4>2
    <3> QED BY <3>1
  <2>2. \A c \in Checkouts : c \in live' => c \in live
    BY <1>12 DEF Initiate, Replace, InsertDeposit, RecordDeposit
  <2>3. UNCHANGED <<current, seen>>
    BY <1>12 DEF Initiate, Replace, InsertDeposit, RecordDeposit
  <2> QED BY <2>1, <2>2, <2>3, <1>4
<1>13. CASE FindAbandoned \/ DeleteAbandoned
  BY <1>13, <1>4 DEF FindAbandoned, DeleteAbandoned
<1>14. ASSUME NEW g \in Guests,
              LoadGuests(g) \/ WriteGuests(g) \/ \E r \in Hosts : RequestGuests(g, r)
       PROVE Counting'
  <2>1. \A c \in Checkouts : pc'[c] = pc[c]
    BY <1>14 DEF LoadGuests, WriteGuests, RequestGuests
  <2>2. UNCHANGED <<current, seen, live>>
    BY <1>14 DEF LoadGuests, WriteGuests, RequestGuests
  <2> QED BY <2>1, <2>2, <1>4
<1>15. ASSUME NEW a \in Seats \cup Guests, CallRejected(a) PROVE Counting'
  BY <1>15, <1>4 DEF CallRejected
<1>16. CASE CleanupFails \/ Crash
  BY <1>16, <1>4 DEF CleanupFails, Crash, Working
<1>17. CASE UNCHANGED vars
  BY <1>17, <1>4 DEF vars
<1> QED
  BY <1>5, <1>6, <1>7, <1>8, <1>9, <1>10, <1>11, <1>12, <1>13, <1>14, <1>15, <1>16, <1>17 DEF Next

-----------------------------------------------------------------------------
(***************************************************************************)
(* Duplicates                                                              *)
(***************************************************************************)

\* What an activity that has checked knows of the documents with its e-mail,
\* if no one else has checked.
Knows(a) ==
    /\ pc[a] = "insert" => Registered(EmailOf[a]) = {}
    /\ pc[a] = "replace" => Registered(EmailOf[a]) \subseteq {target[a]}

Finding ==
    /\ NoDuplicateUnlessRaced
    /\ \A a \in Seats \ Deposits : pc[a] # "replace"
    /\ \A a \in Seats : EmailOf[a] \notin raced => Knows(a)

\* A step that inserts nothing has to show only that who checks in it knows.
LEMMA FindingKept ==
    ASSUME TypeOK, Finding, live' \subseteq live, raced' = raced,
           \A a \in Seats :
              \/ pc'[a] \notin {"insert", "replace"}
              \/ pc'[a] = pc[a] /\ (a \in Deposits => target'[a] = target[a])
              \/ /\ a \in Deposits \/ pc'[a] # "replace"
                 /\ EmailOf[a] \notin raced => Knows(a)'
    PROVE  Finding'
<1>1. \A e \in Emails : Registered(e)' \subseteq Registered(e)
  BY DEF Registered
<1>2. NoDuplicateUnlessRaced'
  BY <1>1 DEF Finding, NoDuplicateUnlessRaced
<1>3. \A a \in Seats \ Deposits : pc'[a] # "replace"
  BY DEF Finding
<1>4. ASSUME NEW a \in Seats, EmailOf[a] \notin raced PROVE Knows(a)'
  <2>1. Registered(EmailOf[a])' \subseteq Registered(EmailOf[a])
    BY DEF Registered
  <2>2. Knows(a)
    BY <1>4 DEF Finding
  <2>3. CASE pc'[a] \notin {"insert", "replace"}
    BY <2>3 DEF Knows
  <2>4. CASE pc'[a] = pc[a] /\ (a \in Deposits => target'[a] = target[a])
    BY <2>1, <2>2, <2>4 DEF Knows, Finding
  <2> QED BY <1>4, <2>3, <2>4
<1> QED BY <1>2, <1>3, <1>4 DEF Finding

\* The one that inserts: every other e-mail is as it was, and this one has a
\* second document only if it is marked as raced.
LEMMA FindingInserted ==
    ASSUME TypeOK, Finding, NEW a \in Seats, pc[a] = "insert",
           live' = live \cup {a}, Races(a), target' = target,
           NEW l \in PCs \ {"insert", "replace"}, pc' = [pc EXCEPT ![a] = l]
    PROVE  Finding'
<1> USE NamesAssumption
<1>1. EmailOf[a] \in Emails
  OBVIOUS
<1>2. \A e \in Emails : e # EmailOf[a] => Registered(e)' = Registered(e)
  BY DEF Registered
<1>3. raced \subseteq raced'
  BY DEF Races
<1>4. ASSUME EmailOf[a] \notin raced'
      PROVE  /\ Registered(EmailOf[a])' = {a}
             /\ \A b \in Seats : EmailOf[b] = EmailOf[a] => pc'[b] \notin {"insert", "replace"}
  <2>1. EmailOf[a] \notin raced /\ Checked(EmailOf[a]) = {a}
    BY <1>4, <1>1 DEF Races
  <2>2. Registered(EmailOf[a]) = {}
    BY <2>1 DEF Finding, Knows
  <2>3. Registered(EmailOf[a])' = {a}
    BY <2>2 DEF Registered
  <2>4. \A b \in Seats : EmailOf[b] = EmailOf[a] /\ b # a => pc[b] \notin {"insert", "replace"}
    BY <2>1 DEF Checked
  <2> QED BY <2>3, <2>4 DEF TypeOK, Seats
<1>5. NoDuplicateUnlessRaced'
  BY <1>2, <1>3, <1>4 DEF NoDuplicateUnlessRaced, Finding
<1>6. ASSUME NEW b \in Seats, EmailOf[b] \notin raced' PROVE Knows(b)'
  <2>1. CASE EmailOf[b] = EmailOf[a]
    BY <1>4, <1>6, <2>1 DEF Knows
  <2>2. CASE EmailOf[b] # EmailOf[a]
    <3>1. pc'[b] = pc[b] /\ EmailOf[b] \in Emails
      BY <2>2 DEF TypeOK
    <3> QED BY <3>1, <2>2, <1>2, <1>3, <1>6 DEF Finding, Knows
  <2> QED BY <2>1, <2>2
<1>7. \A b \in Seats \ Deposits : pc'[b] # "replace"
  BY DEF Finding, TypeOK, PCs
<1> QED BY <1>5, <1>6, <1>7 DEF Finding

\* No step leaves two documents of an e-mail unmarked.
LEMMA FindingStep == TypeOK /\ Finding /\ [Next]_vars => Finding'
<1> SUFFICES ASSUME TypeOK, Finding, [Next]_vars PROVE Finding'
  OBVIOUS
<1> USE NamesAssumption, FindingKept DEF Seats, PCs, Goto, Begin, Fault, ledgers
<1>1. ASSUME NEW c \in Checkouts,
             RequestCheckout(c) \/ BeginCheckout(c) \/ Count(c) \/ Record(c) \/ Reward(c) \/ AddSale(c)
      PROVE Finding'
  BY <1>1 DEF TypeOK, RequestCheckout, BeginCheckout, Count, Record, Reward, AddSale
<1>2. ASSUME NEW v \in Vips, RequestVip(v) \/ BeginVip(v) PROVE Finding'
  BY <1>2 DEF TypeOK, RequestVip, BeginVip
<1>3. ASSUME NEW f \in Frees, RequestFree(f) PROVE Finding'
  BY <1>3 DEF TypeOK, RequestFree
<1>4. ASSUME NEW a \in Seats, Validate(a) PROVE Finding'
  <2>1. Knows(a)'
    BY <1>4 DEF TypeOK, Validate, Knows, Registered
  <2>2. \A b \in Seats : b # a => pc'[b] = pc[b]
    BY <1>4 DEF TypeOK, Validate
  <2> QED BY <1>4, <2>1, <2>2 DEF Validate
<1>5. ASSUME NEW a \in Seats, Insert(a) PROVE Finding'
  BY <1>5, FindingInserted DEF Insert
<1>6. ASSUME NEW a \in Seats, Notify(a) PROVE Finding'
  BY <1>6 DEF TypeOK, Notify
<1>7. ASSUME NEW d \in Deposits, Initiate(d) PROVE Finding'
  <2>1. EmailOf[d] \in Emails
    OBVIOUS
  <2>2. \A b \in Seats : b # d => pc'[b] = pc[b] /\ (b \in Deposits => target'[b] = target[b])
    BY <1>7, InitiateEffect DEF TypeOK
  <2>3. EmailOf[d] \notin raced => Knows(d)' \/ pc'[d] \notin {"insert", "replace"}
    <3>1. CASE Registered(EmailOf[d]) = {}
      <4>1. pc'[d] = "insert"
        BY <1>7, <3>1, InitiateEffect DEF TypeOK
      <4>2. Registered(EmailOf[d])' = {}
        BY <1>7, <3>1 DEF Initiate, Registered
      <4> QED BY <4>1, <4>2 DEF Knows
    <3>2. CASE Registered(EmailOf[d]) # {}
      <4>1. PICK r \in Registered(EmailOf[d]) :
               \/ pc'[d] = "refused"
               \/ pc'[d] = "replace" /\ target'[d] = r
        BY <1>7, <3>2, InitiateEffect DEF TypeOK
      <4>2. Registered(EmailOf[d])' = Registered(EmailOf[d])
        BY <1>7 DEF Initiate, Registered
      <4>3. ASSUME EmailOf[d] \notin raced PROVE Registered(EmailOf[d]) \subseteq {r}
        BY <2>1, <4>3 DEF Finding, NoDuplicateUnlessRaced
      <4> QED BY <4>1, <4>2, <4>3 DEF Knows
    <3> QED BY <3>1, <3>2
  <2> QED BY <1>7, <2>2, <2>3 DEF Initiate
<1>8. ASSUME NEW d \in Deposits, Replace(d) PROVE Finding'
  <2>1. EmailOf[d] \notin raced => Knows(d)'
    BY <1>8 DEF TypeOK, Replace, Finding, Knows, Registered
  <2> QED BY <1>8, <2>1 DEF TypeOK, Replace
<1>9. ASSUME NEW d \in Deposits, InsertDeposit(d) PROVE Finding'
  BY <1>9, FindingInserted DEF InsertDeposit
<1>10. ASSUME NEW d \in Deposits, RecordDeposit(d) PROVE Finding'
  BY <1>10 DEF TypeOK, RecordDeposit
<1>11. CASE FindAbandoned \/ DeleteAbandoned
  BY <1>11 DEF TypeOK, FindAbandoned, DeleteAbandoned
<1>12. ASSUME NEW g \in Guests,
              LoadGuests(g) \/ WriteGuests(g) \/ \E r \in Hosts : RequestGuests(g, r)
       PROVE Finding'
  BY <1>12 DEF TypeOK, LoadGuests, WriteGuests, RequestGuests
<1>13. ASSUME NEW a \in Seats \cup Guests, CallRejected(a) PROVE Finding'
  BY <1>13 DEF TypeOK, CallRejected
<1>14. CASE CleanupFails \/ Crash
  BY <1>14 DEF TypeOK, CleanupFails, Crash
<1>15. CASE UNCHANGED vars
  BY <1>15 DEF vars
<1> QED
  BY <1>1, <1>2, <1>3, <1>4, <1>5, <1>6, <1>7, <1>8, <1>9, <1>10, <1>11, <1>12, <1>13, <1>14, <1>15 DEF Next

-----------------------------------------------------------------------------
(***************************************************************************)
(* Ledgers                                                                 *)
(***************************************************************************)

\* n is the number of elements of S, purchases that have all been written.
Entered(S, n) == IsFiniteSet(S) /\ n = Cardinality(S) /\ \A g \in S : pc[g] = "done"

Entries ==
    /\ \A r \in Seats : Entered(guests[r], amountPaid[r])
    /\ \A g \in Guests : pc[g] = "write" => Entered(copy[g].guests, copy[g].amountPaid)

\* No step writes half of a purchase.
LEMMA EntriesStep == TypeOK /\ Entries /\ [Next]_vars => Entries'
<1> SUFFICES ASSUME TypeOK, Entries, [Next]_vars PROVE Entries'
  OBVIOUS
\* What a step must show that writes neither a ledger nor a copy of one.
<1>1. ASSUME UNCHANGED <<guests, amountPaid, copy>>,
             \A g \in Guests : pc[g] = "done" => pc'[g] = "done",
             \A g \in Guests : pc'[g] = "write" => pc[g] = "write"
      PROVE Entries'
  <2>1. \A r \in Seats : guests[r] \subseteq Guests
    BY DEF TypeOK
  <2>2. \A g \in Guests : copy[g].guests \subseteq Guests
    BY DEF TypeOK
  <2> QED BY <1>1, <2>1, <2>2 DEF Entries, Entered
<1>2. ASSUME NEW a \in Seats, NEW l \in PCs, pc' = [pc EXCEPT ![a] = l],
             UNCHANGED <<guests, amountPaid, copy>>
      PROVE Entries'
  BY <1>1, <1>2, NamesAssumption DEF TypeOK
<1> USE NamesAssumption DEF Seats, PCs, Goto, Begin, Fault, ledgers
<1>3. ASSUME NEW c \in Checkouts,
             RequestCheckout(c) \/ BeginCheckout(c) \/ Count(c) \/ Record(c) \/ Reward(c) \/ AddSale(c)
      PROVE Entries'
  BY <1>2, <1>3 DEF RequestCheckout, BeginCheckout, Count, Record, Reward, AddSale
<1>4. ASSUME NEW v \in Vips, RequestVip(v) \/ BeginVip(v) PROVE Entries'
  BY <1>2, <1>4 DEF RequestVip, BeginVip
<1>5. ASSUME NEW f \in Frees, RequestFree(f) PROVE Entries'
  BY <1>2, <1>5 DEF RequestFree
<1>6. ASSUME NEW a \in Seats, Validate(a) \/ Insert(a) \/ Notify(a) PROVE Entries'
  BY <1>2, <1>6 DEF Validate, Insert, Notify
<1>7. ASSUME NEW d \in Deposits, Initiate(d) \/ Replace(d) \/ InsertDeposit(d) \/ RecordDeposit(d)
      PROVE Entries'
  BY <1>2, <1>7 DEF Initiate, Replace, InsertDeposit, RecordDeposit
<1>8. CASE FindAbandoned \/ DeleteAbandoned
  BY <1>1, <1>8 DEF FindAbandoned, DeleteAbandoned
<1>9. ASSUME NEW g \in Guests, NEW r \in Hosts, RequestGuests(g, r) PROVE Entries'
  BY <1>1, <1>9 DEF RequestGuests, TypeOK
<1>10. ASSUME NEW g \in Guests, LoadGuests(g) PROVE Entries'
  <2>1. CASE target[g] \notin live
    BY <1>1, <1>10, <2>1 DEF LoadGuests, TypeOK
  <2>2. CASE target[g] \in live
    <3>1. /\ copy' = [copy EXCEPT ![g] = [guests |-> guests[target[g]],
                                         amountPaid |-> amountPaid[target[g]]]]
          /\ pc' = [pc EXCEPT ![g] = "write"] /\ pc[g] = "offered"
          /\ UNCHANGED <<guests, amountPaid>>
      BY <1>10, <2>2 DEF LoadGuests
    <3>2. \A h \in Guests : pc[h] = "done" => pc'[h] = "done"
      BY <3>1 DEF TypeOK
    <3>3. \A r \in Seats : guests[r] \subseteq Guests
      BY DEF TypeOK
    <3>4. \A r \in Seats : Entered(guests[r], amountPaid[r])'
      BY <3>1, <3>2, <3>3 DEF Entries, Entered
    <3>5. Entered(copy[g].guests, copy[g].amountPaid)'
      <4>1. copy'[g].guests = guests'[target[g]] /\ copy'[g].amountPaid = amountPaid'[target[g]]
        BY <3>1 DEF TypeOK
      <4>2. target[g] \in Seats
        BY <2>2 DEF TypeOK
      <4> QED BY <3>4, <4>1, <4>2 DEF Entered
    <3>6. ASSUME NEW h \in Guests, h # g, pc'[h] = "write"
          PROVE Entered(copy[h].guests, copy[h].amountPaid)'
      <4>1. copy'[h] = copy[h] /\ pc[h] = "write" /\ copy[h].guests \subseteq Guests
        BY <3>1, <3>6 DEF TypeOK
      <4> QED BY <3>2, <4>1 DEF Entries, Entered
    <3> QED BY <3>4, <3>5, <3>6 DEF Entries
  <2> QED BY <2>1, <2>2
<1>11. ASSUME NEW g \in Guests, WriteGuests(g) PROVE Entries'
  <2>1. /\ pc[g] = "write" /\ pc' = [pc EXCEPT ![g] = "done"] /\ copy' = copy
    BY <1>11 DEF WriteGuests
  <2>2. \A h \in Guests : pc[h] = "done" => pc'[h] = "done"
    BY <2>1 DEF TypeOK
  <2>3. ASSUME NEW h \in Guests, pc'[h] = "write" PROVE Entered(copy[h].guests, copy[h].amountPaid)'
    <3>1. pc[h] = "write" /\ copy[h].guests \subseteq Guests
      BY <2>1, <2>3 DEF TypeOK
    <3> QED BY <2>1, <2>2, <3>1 DEF Entries, Entered
  <2>4. ASSUME NEW r \in Seats PROVE Entered(guests[r], amountPaid[r])'
    <3>1. CASE UNCHANGED <<guests[r], amountPaid[r]>>
      <4>1. guests[r] \subseteq Guests
        BY DEF TypeOK
      <4> QED BY <2>2, <3>1, <4>1 DEF Entries, Entered
    <3>2. CASE /\ guests'[r] = copy[g].guests \cup {g}
               /\ amountPaid'[r] = copy[g].amountPaid + 1
      <4> DEFINE S == copy[g].guests
      <4>1. Entered(S, copy[g].amountPaid) /\ S \subseteq Guests
        BY <2>1 DEF Entries, TypeOK
      <4>2. g \notin S
        BY <2>1, <4>1 DEF Entered
      <4>3. IsFiniteSet(S \cup {g}) /\ Cardinality(S \cup {g}) = Cardinality(S) + 1
        BY <4>1, <4>2, FS_AddElement DEF Entered
      <4>4. \A h \in S \cup {g} : pc'[h] = "done"
        BY <2>1, <2>2, <4>1 DEF Entered, TypeOK
      <4> QED BY <3>2, <4>1, <4>3, <4>4 DEF Entered
    <3>3. \/ UNCHANGED <<guests[r], amountPaid[r]>>
          \/ guests'[r] = copy[g].guests \cup {g} /\ amountPaid'[r] = copy[g].amountPaid + 1
      BY <1>11 DEF WriteGuests, TypeOK
    <3> QED BY <3>1, <3>2, <3>3
  <2> QED BY <2>3, <2>4 DEF Entries
<1>12. ASSUME NEW a \in Seats \cup Guests, CallRejected(a) PROVE Entries'
  BY <1>1, <1>12 DEF CallRejected, Working, TypeOK
<1>13. CASE CleanupFails \/ Crash
  BY <1>1, <1>13 DEF CleanupFails, Crash, Working
<1>14. CASE UNCHANGED vars
  BY <1>1, <1>14 DEF vars
<1> QED
  BY <1>3, <1>4, <1>5, <1>6, <1>7, <1>8, <1>9, <1>10, <1>11, <1>12, <1>13, <1>14 DEF Next

\* The commissions that the statistics include.
Added == {c \in commissions : pc[c] # "stats"}

Selling ==
    /\ \A c \in commissions : pc[c] \in {"stats", "done", "failed"}
    /\ \A c \in Checkouts : pc[c] = "stats" => c \in commissions
    /\ faults = 0 => sales = Cardinality(Added)

\* Without a fault no step leaves a commission out of the statistics.
LEMMA SellingStep == TypeOK /\ Selling /\ [Next]_vars => Selling'
<1> SUFFICES ASSUME TypeOK, Selling, [Next]_vars PROVE Selling'
  OBVIOUS
\* What a step must show that writes neither commissions nor statistics.
<1>1. ASSUME UNCHANGED <<commissions, sales, faults>>,
             \A c \in Checkouts :
                /\ pc[c] \in {"stats", "done", "failed"} => pc'[c] = pc[c]
                /\ pc'[c] = "stats" => pc[c] = "stats"
      PROVE Selling'
  <2>1. Added' = Added
    BY <1>1 DEF Added, TypeOK
  <2> QED BY <1>1, <2>1 DEF Selling, TypeOK
<1> USE NamesAssumption DEF Seats, PCs, Goto, Begin, Fault, ledgers
<1>2. ASSUME NEW c \in Checkouts, RequestCheckout(c) \/ BeginCheckout(c) PROVE Selling'
  BY <1>1, <1>2 DEF RequestCheckout, BeginCheckout, TypeOK
<1>3. ASSUME NEW c \in Checkouts, Count(c) \/ Record(c) PROVE Selling'
  BY <1>1, <1>3 DEF Count, Record, TypeOK
<1>4. ASSUME NEW c \in Checkouts, Reward(c) PROVE Selling'
  <2>1. \A b \in Checkouts : b # c => pc'[b] = pc[b]
    BY <1>4 DEF Reward, TypeOK
  <2>2. pc[c] = "reward" /\ pc'[c] = "stats" /\ commissions' = commissions \cup {c}
    BY <1>4 DEF Reward, TypeOK
  <2>3. Added' = Added
    BY <2>1, <2>2 DEF Added, Selling, TypeOK
  <2> QED BY <1>4, <2>1, <2>2, <2>3 DEF Selling, Reward, TypeOK
<1>5. ASSUME NEW c \in Checkouts, AddSale(c) PROVE Selling'
  <2>1. \A b \in Checkouts : b # c => pc'[b] = pc[b]
    BY <1>5 DEF AddSale, TypeOK
  <2>2. pc[c] = "stats" /\ pc'[c] = "done" /\ commissions' = commissions
    BY <1>5 DEF AddSale, TypeOK
  <2>3. Added' = Added \cup {c} /\ c \notin Added
    BY <2>1, <2>2 DEF Added, Selling, TypeOK
  <2>4. IsFiniteSet(Added)
    BY FS_Subset DEF Added, TypeOK
  <2>5. Cardinality(Added') = Cardinality(Added) + 1
    BY <2>3, <2>4, FS_AddElement
  <2>6. faults' = 0 => sales' = Cardinality(Added')
    BY <1>5, <2>5 DEF AddSale, Selling
  <2> QED BY <2>1, <2>2, <2>6 DEF Selling, TypeOK
<1>6. ASSUME NEW v \in Vips, RequestVip(v) \/ BeginVip(v) PROVE Selling'
  BY <1>1, <1>6 DEF RequestVip, BeginVip, TypeOK
<1>7. ASSUME NEW f \in Frees, RequestFree(f) PROVE Selling'
  BY <1>1, <1>7 DEF RequestFree, TypeOK
<1>8. ASSUME NEW a \in Seats, Validate(a) \/ Insert(a) \/ Notify(a) PROVE Selling'
  BY <1>1, <1>8 DEF Validate, Insert, Notify, TypeOK
<1>9. ASSUME NEW d \in Deposits, Initiate(d) \/ Replace(d) \/ InsertDeposit(d) \/ RecordDeposit(d)
      PROVE Selling'
  <2>1. \E l \in PCs : pc' = [pc EXCEPT ![d] = l]
    <3>1. CASE Initiate(d)
      BY <3>1 DEF Initiate
    <3>2. CASE Replace(d) \/ InsertDeposit(d) \/ RecordDeposit(d)
      BY <3>2 DEF Replace, InsertDeposit, RecordDeposit
    <3> QED BY <1>9, <3>1, <3>2
  <2>2. UNCHANGED <<commissions, sales, faults>>
    BY <1>9 DEF Initiate, Replace, InsertDeposit, RecordDeposit
  <2> QED BY <1>1, <2>1, <2>2 DEF TypeOK
<1>10. CASE FindAbandoned \/ DeleteAbandoned
  BY <1>1, <1>10 DEF FindAbandoned, DeleteAbandoned
<1>11. ASSUME NEW g \in Guests,
              LoadGuests(g) \/ WriteGuests(g) \/ \E r \in Hosts : RequestGuests(g, r)
       PROVE Selling'
  BY <1>1, <1>11 DEF LoadGuests, WriteGuests, RequestGuests, TypeOK
<1>12. ASSUME NEW a \in Seats \cup Guests, CallRejected(a) PROVE Selling'
  BY <1>12 DEF CallRejected, Working, Selling, TypeOK
<1>13. CASE CleanupFails \/ Crash
  BY <1>13 DEF CleanupFails, Crash, Working, Selling, TypeOK
<1>14. CASE UNCHANGED vars
  BY <1>1, <1>14 DEF vars
<1> QED
  BY <1>2, <1>3, <1>4, <1>5, <1>6, <1>7, <1>8, <1>9, <1>10, <1>11, <1>12, <1>13, <1>14 DEF Next

-----------------------------------------------------------------------------
(***************************************************************************)
(* Theorems                                                                *)
(***************************************************************************)

IInv == Seating /\ Counting /\ Finding /\ Entries /\ Selling

\* All of it holds before anyone has registered.
LEMMA InitHolds == Init => TypeOK /\ IInv
<1> SUFFICES ASSUME Init PROVE TypeOK /\ IInv
  OBVIOUS
<1> USE NamesAssumption, BoundsAssumption DEF Init
<1>1. TypeOK
  BY DEF TypeOK, PCs, Seats
<1>2. \A a \in Seats \cup Guests : pc[a] = "idle"
  OBVIOUS
<1>3. Seating
  BY <1>2 DEF Seating, Seated, Seats
<1>4. Counting
  <2>1. Cardinality(Taken) \in Nat
    BY TakenIsFinite, FS_CardinalityType
  <2> QED BY <1>2, <2>1 DEF Counting, RefusedOnlyWhenFull, Seats
<1>5. Finding
  BY <1>2 DEF Finding, NoDuplicateUnlessRaced, Knows, Registered
<1>6. Entries
  BY <1>2, FS_EmptySet DEF Entries, Entered
<1>7. Selling
  <2>1. Added = {}
    BY DEF Added
  <2> QED BY <1>2, <2>1, FS_EmptySet DEF Selling, Seats
<1> QED BY <1>1, <1>3, <1>4, <1>5, <1>6, <1>7 DEF IInv

LEMMA Inductive == TypeOK /\ IInv /\ [Next]_vars => TypeOK' /\ IInv'
BY TypeStep, SeatingStep, CountingStep, FindingStep, EntriesStep, SellingStep DEF IInv

LEMMA Always == Spec => [](TypeOK /\ IInv)
BY InitHolds, Inductive, PTL DEF Spec

\* Every variable keeps its type.
THEOREM TypeCorrect == Spec => []TypeOK
BY Always, PTL

\* A full-price registration is never deleted, and a handler that went through
\* has recorded the transaction: whatever deletes a document has seen that it
\* carries no money, and a checkout's document carries it from the start.
THEOREM PaidStaysSeated == Spec => []PaidIsSeated
<1>1. IInv => PaidIsSeated
  BY DEF IInv, Seating, Seated, PaidIsSeated
<1> QED BY <1>1, Always, PTL

\* "Full" is never said before the full-price places are taken, although
\* overlapping handlers write stale counters: none of them runs ahead.
THEOREM FullMeansFull == Spec => []RefusedOnlyWhenFull
<1>1. IInv => RefusedOnlyWhenFull
  BY DEF IInv, Counting
<1> QED BY <1>1, Always, PTL

\* A second registration of an e-mail comes only from two overlapping checks.
THEOREM DuplicatesAreRaces == Spec => []NoDuplicateUnlessRaced
<1>1. IInv => NoDuplicateUnlessRaced
  BY DEF IInv, Finding
<1> QED BY <1>1, Always, PTL

\* Guests and what was paid for them agree under lost updates too, and so do
\* commissions and statistics as long as nothing fails.
THEOREM LedgersStayTogether == Spec => []LedgersAgree
<1>1. IInv => LedgersAgree
  BY DEF IInv, Entries, Entered, Selling, Added, LedgersAgree
<1> QED BY <1>1, Always, PTL

=============================================================================
