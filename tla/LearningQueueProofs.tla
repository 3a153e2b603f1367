------------------------ MODULE LearningQueueProofs ------------------------
(* Proofs about LearningQueue, for every number of events, workers,        *)
(* crashes and errors.                                                     *)
EXTENDS LearningQueue, TLAPS

-----------------------------------------------------------------------------
(* The inductive invariant.                                                *)

\* The control points between taking the write fence and giving it up.
Fenced == {"recover", "staged", "prepared", "moved", "activated", "committed"}

\* Who holds the fence, who holds an event, and what a crash leaves of them.
LocalsInv ==
  /\ \A w \in Worker :
       /\ fence = w <=> pc[w] \in Fenced
       /\ ev[w] # 0 <=> pc[w] \notin {"idle", "drain"}
       /\ ~up => pc[w] = "idle"
  /\ fence = "delete" <=> del \in {"fenced", "deleted"}
  /\ ~up => fence = NoOne /\ del = "idle" /\ ~undo
  /\ del \in {"armed", "fenced"} => alive
  /\ del = "deleted" => ~alive

\* The rows: those from `next` on are not there yet, the stale ones are
\* claimed, only the delete of an agent discards, and a worker's event is there.
RowsInv ==
  /\ \A e \in Event : e >= next <=> row[e] = "none"
  /\ \A e \in stale : row[e] = "claimed"
  /\ \A w \in Worker : ev[w] < next
  /\ alive => \A e \in Event : row[e] # "discarded"

\* The bundles there are: the active one, the staged one and the backup.
Bundles == {root, txn.stage, txn.backup} \ {Gone}

\* The transaction directory at each control point of the worker that holds
\* the fence; between transactions it is something recovery can settle.
TxnInv == alive =>
  /\ txn.phase = "none" => txn = NoTxn
  /\ txn.phase = "staging" => txn.backup = Gone
  /\ Settled # Gone
  /\ \A w \in Worker :
       /\ pc[w] = "staged" => txn.phase = "staging" /\ txn.stage # Gone
       /\ pc[w] = "prepared" =>
            txn.phase = "prepared" /\ txn.stage # Gone /\ txn.backup = Gone
       /\ pc[w] = "moved" =>
            txn.phase = "prepared" /\ txn.stage # Gone /\ txn.backup # Gone /\ root = Gone
       /\ pc[w] = "activated" =>
            txn.phase = "prepared" /\ txn.stage = Gone /\ txn.backup # Gone /\ root # Gone
       /\ pc[w] = "committed" => txn.phase = "committed" /\ root # Gone
       /\ pc[w] \in {"staged", "prepared", "moved"} => Recorded(txn.stage, ev[w])
       /\ pc[w] \in {"activated", "committed"} => Recorded(root, ev[w])

\* Delivered, or applied by a worker that is about to say so.
Effective(e) ==
  row[e] = "delivered" \/ \E w \in Worker : pc[w] = "ack" /\ ev[w] = e

\* Every bundle that may become the one a reader gets has the completions of
\* the delivered events, and of those whose delivery is about to be recorded.
RecordInv ==
  alive => \A b \in Bundles, e \in Event : Effective(e) => Recorded(b, e)

BaseInv == TypeOK /\ LocalsInv /\ RowsInv /\ TxnInv /\ RecordInv

\* With MaxDeletes <= 1: what a committed delete leaves behind.
GoneInv ==
  /\ undo \/ del # "idle" => count.deletes = 1
  /\ undo => alive /\ del = "idle"
  /\ del # "idle" \/ ~alive => blocked
  /\ ~alive => fence \notin Worker /\ root = Gone /\ txn = NoTxn
  /\ NothingQueuedForTheDeleted

\* With claims that are not taken from a living worker: one worker at a time
\* holds an event, and everything before that event is delivered.
HoldInv == alive =>
  /\ \A w \in Worker : ev[w] # 0 =>
       /\ row[ev[w]] = "claimed" /\ ev[w] \notin stale
       /\ \A f \in Event : f < ev[w] => row[f] = "delivered"
       /\ \A v \in Worker : ev[v] # 0 => v = w
  /\ \A e, f \in Event : e < f /\ row[f] = "delivered" => row[e] = "delivered"

\* b has the first b.last events, in order, and these are the delivered ones
\* but possibly for the last.
InOrder(b) ==
  /\ b.last < next
  /\ \A e \in Event :
       /\ b.done[e] = IF e <= b.last THEN e ELSE 0
       /\ row[e] = "delivered" => e <= b.last
       /\ e < b.last => row[e] = "delivered"

\* What the worker's place in its transaction says of the bundles.
Reached(w) ==
  /\ pc[w] \in {"staged", "prepared", "moved"} => txn.stage.last = ev[w]
  /\ pc[w] \in {"activated", "committed", "ack"} => root # Gone /\ root.last = ev[w]
  /\ pc[w] = "ack" => txn = NoTxn

OrderInv == alive =>
  /\ \A b \in Bundles : InOrder(b)
  /\ \A w \in Worker : Reached(w)

-----------------------------------------------------------------------------
(* The operators the steps are built from.                                 *)

Counts == [crashes : 0..MaxCrashes, errors : 0..MaxErrors, deletes : 0..MaxDeletes]

\* Counting one more crash, error or delete below its bound stays within it.
LEMMA CountsType ==
  ASSUME NEW c \in Counts
  PROVE  /\ c.errors < MaxErrors => [c EXCEPT !.errors = @ + 1] \in Counts
         /\ c.crashes < MaxCrashes => [c EXCEPT !.crashes = @ + 1] \in Counts
         /\ c.deletes < MaxDeletes => [c EXCEPT !.deletes = @ + 1] \in Counts
  BY QueueAssumption DEF Counts

\* A plan turns a bundle into a bundle: it records the event and keeps what was
\* recorded.
LEMMA WithEventBundle ==
  ASSUME NEW b \in Bundle, NEW e \in Event
  PROVE  /\ WithEvent(b, e) \in Bundle
         /\ WithEvent(b, e).last = e
         /\ Recorded(WithEvent(b, e), e)
         /\ \A f \in Event : Recorded(b, f) => Recorded(WithEvent(b, e), f)
  <1>1. Counter(b) \in Nat
    BY QueueAssumption DEF Counter, Bundle, Event
  <1> QED
    BY <1>1, QueueAssumption DEF WithEvent, Bundle, Event, Recorded

\* Gone is no bundle, and the empty bundle is one.
LEMMA BundleFacts == Gone \notin Bundle /\ Empty \in Bundle
  BY QueueAssumption DEF Bundle, Event, Empty

Phase == {"none", "staging", "prepared", "committed"}
Place == Bundle \cup {Gone}
Txns == [phase : Phase, stage : Place, backup : Place]

\* A transaction directory stays one when a marker is written, and when a
\* bundle is put into it or moved out of it.
LEMMA TxnsType ==
  ASSUME NEW t \in Txns, NEW p \in Phase, NEW s \in Place
  PROVE  /\ [t EXCEPT !.phase = p] \in Txns
         /\ [t EXCEPT !.stage = s] \in Txns
         /\ [t EXCEPT !.backup = s] \in Txns
         /\ [t EXCEPT !.phase = p, !.stage = s] \in Txns
         /\ [phase |-> p, stage |-> s, backup |-> Gone] \in Txns
         /\ t.stage \in Place /\ t.backup \in Place
  BY DEF Txns, Place

(* The constants of a transaction's type. *)
LEMMA NoTxnType == NoTxn \in Txns /\ Gone \in Place /\ Phase = {"none", "staging", "prepared", "committed"}
  BY DEF Txns, Phase, Place, NoTxn

\* A worker that is past its claim holds an event, one that is not holds none.
LEMMA HeldEvent ==
  ASSUME TypeOK, LocalsInv, NEW w \in Worker
  PROVE  IF pc[w] \in {"idle", "drain"} THEN ev[w] = 0 ELSE ev[w] \in Event
  <1>1. ev[w] \in 0..MaxEvents
    BY DEF TypeOK
  <1> QED
    BY <1>1, QueueAssumption DEF LocalsInv, Event

\* A step that brings no bundle and settles no event keeps what is recorded.
LEMMA RecordCarries ==
  ASSUME RecordInv, alive' => alive, Bundles' \subseteq Bundles,
         \A e \in Event : Effective(e)' => Effective(e)
  PROVE  RecordInv'
  BY DEF RecordInv

\* A bundle stays in order when no event is delivered and the queue only grows.
LEMMA InOrderCarries ==
  ASSUME next \in Nat, next' \in Nat, next <= next',
         \A e \in Event : row'[e] = "delivered" <=> row[e] = "delivered",
         NEW b \in Bundle, InOrder(b)
  PROVE  InOrder(b)'
  BY QueueAssumption DEF InOrder, Bundle

\* The bundles there are have the type.
LEMMA BundlesType == TypeOK => Bundles \subseteq Bundle
  BY DEF TypeOK, Bundles

\* A step that neither brings a bundle nor delivers an event keeps the order.
LEMMA OrderCarries ==
  ASSUME TypeOK, TypeOK', OrderInv, alive' => alive, Bundles' \subseteq Bundles,
         next <= next',
         \A e \in Event : row'[e] = "delivered" <=> row[e] = "delivered",
         alive => \A w \in Worker : Reached(w)'
  PROVE  OrderInv'
  <1> SUFFICES ASSUME alive, NEW b \in Bundles PROVE InOrder(b)'
    BY DEF OrderInv
  <1>1. next \in Nat /\ next' \in Nat
    BY QueueAssumption DEF TypeOK
  <1>2. b \in Bundle /\ InOrder(b)
    BY BundlesType DEF OrderInv
  <1> QED
    BY <1>1, <1>2, InOrderCarries

\* Only one worker at a time is past its claim.
LEMMA SoleHolder ==
  ASSUME TypeOK, LocalsInv, HoldInv, alive,
         NEW w \in Worker, pc[w] \notin {"idle", "drain"},
         NEW v \in Worker, pc[v] \notin {"idle", "drain"}
  PROVE  v = w
  <1>1. ev[w] # 0 /\ ev[v] # 0
    BY DEF LocalsInv
  <1> QED
    BY <1>1 DEF HoldInv

\* Applying the first event that is not delivered to a bundle in order either
\* finds it applied or extends the order by it.
LEMMA PlanExtends ==
  ASSUME NEW b \in Bundle, InOrder(b), NEW e \in Event, e < next, row[e] = "claimed",
         \A f \in Event : f < e => row[f] = "delivered"
  PROVE  (Recorded(b, e) /\ b.last = e) \/ InOrder(WithEvent(b, e))
  <1>1. /\ b.last \in Nat /\ b.done \in [Event -> Nat] /\ e \in Nat \ {0}
        /\ \A f \in Event : f \in Nat \ {0}
    BY QueueAssumption DEF Bundle, Event
  <1>2. \A f \in Event : b.done[f] = IF f <= b.last THEN f ELSE 0
    BY DEF InOrder
  <1>3. b.last <= e
    BY <1>1 DEF InOrder
  <1>4. CASE b.last = e
    BY <1>1, <1>2, <1>4 DEF Recorded
  <1>5. CASE b.last # e
    <2>1. b.last = e - 1
      <3>1. CASE e = 1
        BY <1>1, <1>3, <1>5, <3>1
      <3>2. CASE e # 1
        <4>1. e - 1 \in Event /\ e - 1 < e
          BY <1>1, <3>2, QueueAssumption DEF Event
        <4>2. e - 1 <= b.last
          BY <4>1 DEF InOrder
        <4> QED
          BY <1>1, <1>3, <1>5, <4>2
      <3> QED
        BY <3>1, <3>2
    <2>2. Counter(b) + 1 = e
      <3>1. CASE b.last = 0
        BY <1>1, <2>1, <3>1 DEF Counter
      <3>2. CASE b.last # 0
        <4>1. b.last \in Event
          BY <1>1, <2>1, <3>2, QueueAssumption DEF Event
        <4>2. b.done[b.last] = b.last
          BY <1>1, <1>2, <4>1
        <4> QED
          BY <1>1, <2>1, <3>2, <4>2 DEF Counter
      <3> QED
        BY <3>1, <3>2
    <2>3. ~Recorded(b, e)
      BY <1>1, <1>2, <2>1 DEF Recorded
    <2>4. WithEvent(b, e) = [last |-> e, done |-> [b.done EXCEPT ![e] = e]]
      BY <2>2, <2>3 DEF WithEvent
    <2>5. ASSUME NEW f \in Event
          PROVE  [b.done EXCEPT ![e] = e][f] = IF f <= e THEN f ELSE 0
      <3>1. CASE f = e
        BY <1>1, <3>1
      <3>2. CASE f # e
        <4>1. [b.done EXCEPT ![e] = e][f] = IF f <= b.last THEN f ELSE 0
          BY <1>1, <1>2, <3>2
        <4>2. f <= b.last <=> f <= e
          <5>1. f \in Nat /\ e \in Nat
            BY <1>1
          <5> QED
            BY <2>1, <3>2, <5>1
        <4> QED
          BY <4>1, <4>2
      <3> QED
        BY <3>1, <3>2
    <2>6. \A f \in Event : row[f] = "delivered" => f <= e
      <3>1. \A f \in Event : row[f] = "delivered" => f <= b.last
        BY DEF InOrder
      <3>2. \A f \in Event : f <= b.last => f <= e
        BY <1>1, <2>1
      <3> QED
        BY <3>1, <3>2
    <2> QED
      BY <2>4, <2>5, <2>6 DEF InOrder
  <1> QED
    BY <1>4, <1>5

\* A step of the queue and its workers keeps the types of everything else.
LEMMA TypeCarries ==
  ASSUME TypeOK, UNCHANGED <<up, blocked, bundle, agent>>,
         ev' \in [Worker -> 0..MaxEvents], goal' \in [Worker -> 0..MaxEvents],
         pc' \in [Worker -> {"idle", "drain", "claimed", "recover", "staged", "prepared",
                          "moved", "activated", "committed", "ack", "release"}],
         row' \in [Event -> {"none", "pending", "claimed", "delivered", "discarded"}],
         owner' \in [Event -> Worker \cup {NoOne}], stale' \subseteq Event,
         next' \in 1..(MaxEvents + 1), count' \in Counts
  PROVE  TypeOK'
  BY DEF TypeOK, bundle, agent, Counts

\* Every step preserves the types.
LEMMA TypeStep ==
  ASSUME TypeOK, LocalsInv, [Next]_vars
  PROVE  TypeOK'
  <1> USE QueueAssumption
      DEF TypeOK, Event, NoTxn, vars, queue, bundle, workers, agent
  <1>1. ASSUME NEW w \in Worker, Work(w) PROVE TypeOK'
    <2>1. CASE DeliverThrough(w)
      <3>1. pc' \in [Worker -> {"idle", "drain", "claimed", "recover", "staged", "prepared",
                          "moved", "activated", "committed", "ack", "release"}]
        BY <2>1 DEF DeliverThrough, Goto
      <3>2. /\ goal' \in [Worker -> 0..MaxEvents] /\ next' \in 1..MaxEvents + 1
            /\ row' \in [Event -> {"none", "pending", "claimed", "delivered", "discarded"}]
        BY <2>1 DEF DeliverThrough, Append
      <3>3. UNCHANGED <<up, owner, stale, blocked, bundle, ev, agent, count>>
        BY <2>1 DEF DeliverThrough, Append
      <3>4. /\ ev' \in [Worker -> 0..MaxEvents] /\ owner' \in [Event -> Worker \cup {NoOne}]
            /\ stale' \subseteq Event /\ count' \in Counts
        BY <3>3 DEF Counts
      <3> HIDE DEF TypeOK, Event, bundle, agent
      <3> QED
        BY <3>1, <3>2, <3>3, <3>4, TypeCarries
    <2>2. CASE Claim(w)
      BY <2>2 DEF Claim, Draining, Claimable, Head, Open, Goto
    <2>3. CASE StopDraining(w)
      BY <2>3 DEF StopDraining, Goto
    <2>4. CASE BeginApply(w)
      BY <2>4 DEF BeginApply, Goto
    <2>5. CASE PlanWrites(w)
      <3> DEFINE b == IF root = Gone THEN Empty ELSE root
      <3>1. b \in Bundle
        BY <2>5, BundleFacts DEF PlanWrites
      <3>0. pc[w] = "recover"
        BY <2>5 DEF PlanWrites
      <3>2. ev[w] \in Event
        BY <3>0 DEF LocalsInv
      <3>3. WithEvent(b, ev[w]) \in Bundle
        BY <3>1, <3>2, WithEventBundle
      <3> HIDE DEF b
      <3>4. root' = b /\ (txn' = txn \/ txn' = [phase |-> "staging", stage |-> WithEvent(b, ev[w]), backup |-> Gone])
        BY <2>5 DEF PlanWrites, b
      <3>5. pc' = [pc EXCEPT ![w] = "ack"] \/ pc' = [pc EXCEPT ![w] = "staged"]
        BY <2>5 DEF PlanWrites, Goto
      <3>6. fence' \in {NoOne, fence} /\ UNCHANGED <<up, queue, ev, goal, agent, count>>
        BY <2>5 DEF PlanWrites, Unlock
      <3>7. txn' \in Txns
        <4>1. txn \in Txns /\ "staging" \in Phase /\ WithEvent(b, ev[w]) \in Place
          BY <3>3 DEF Txns, Phase, Place
        <4>2. [phase |-> "staging", stage |-> WithEvent(b, ev[w]), backup |-> Gone] \in Txns
          BY <4>1, TxnsType
        <4> QED
          BY <3>4, <4>1, <4>2
      <3> QED
        BY <3>1, <3>4, <3>5, <3>6, <3>7 DEF Txns, Phase, Place
    <2>6. CASE WritePrepared(w)
      BY <2>6 DEF WritePrepared, Goto
    <2>7. CASE MoveToBackup(w)
      BY <2>7 DEF MoveToBackup, Goto
    <2>8. CASE Activate(w)
      BY <2>8 DEF Activate, Goto
    <2>9. CASE WriteCommitted(w)
      BY <2>9 DEF WriteCommitted, Goto
    <2>10. CASE RemoveTransaction(w)
      BY <2>10 DEF RemoveTransaction, Goto, Unlock
    <2>11. CASE ApplyFails(w)
      <3>1. count' \in Counts
        BY <2>11, CountsType DEF ApplyFails, Errs, Counts
      <3>2. root' \in Bundle \cup {Gone}
        BY <2>11 DEF ApplyFails
      <3>3. txn' \in Txns
        <4>0. txn \in Txns /\ root \in Place
          BY DEF Txns, Phase, Place
        <4>1. CASE pc[w] = "activated"
          <5>1. PICK marker \in {"prepared", "committed"} :
                   \/ txn' = NoTxn
                   \/ txn' = [phase |-> marker, stage |-> root, backup |-> Gone]
                   \/ txn' = [txn EXCEPT !.phase = marker, !.stage = root]
                   \/ txn' = [txn EXCEPT !.phase = marker]
            BY <2>11, <4>1 DEF ApplyFails
          <5>2. marker \in Phase
            BY NoTxnType
          <5> HIDE DEF TypeOK, NoTxn
          <5>3. [txn EXCEPT !.phase = marker] \in Txns
            BY <4>0, <5>2, TxnsType
          <5>4. [txn EXCEPT !.phase = marker, !.stage = root] \in Txns
            BY <4>0, <5>2, TxnsType
          <5>5. [phase |-> marker, stage |-> root, backup |-> Gone] \in Txns
            BY <4>0, <5>2, TxnsType
          <5> QED
            BY <5>1, <5>3, <5>4, <5>5, NoTxnType
        <4>2. CASE pc[w] # "activated"
          <5>1. txn' = NoTxn \/ txn' = txn
            BY <2>11, <4>2 DEF ApplyFails
          <5> HIDE DEF TypeOK, NoTxn
          <5> QED
            BY <4>0, <5>1, NoTxnType
        <4> QED
          BY <4>1, <4>2
      <3> QED
        BY <2>11, <3>1, <3>2, <3>3 DEF ApplyFails, Unlock, Goto, Counts, Txns, Phase, Place
    <2>12. CASE MarkDelivered(w)
      <3>1. ev' \in [Worker -> 0..MaxEvents] /\ goal' \in [Worker -> 0..MaxEvents]
        BY <2>12 DEF MarkDelivered, Finished
      <3>2. pc' \in [Worker -> {"idle", "drain", "claimed", "recover", "staged", "prepared",
                          "moved", "activated", "committed", "ack", "release"}]
        BY <2>12 DEF MarkDelivered, Finished, Goto
      <3>3. row' \in [Event -> {"none", "pending", "claimed", "delivered", "discarded"}]
        BY <2>12 DEF MarkDelivered
      <3>4. owner' \in [Event -> Worker \cup {NoOne}] /\ stale' \subseteq Event
        BY <2>12 DEF MarkDelivered
      <3>5. count' \in Counts
        BY <2>12, CountsType DEF MarkDelivered, Errs, Counts
      <3>6. UNCHANGED <<up, next, blocked, bundle, agent>>
        BY <2>12 DEF MarkDelivered
      <3>7. next' \in 1..(MaxEvents + 1)
        BY <3>6
      <3> HIDE DEF TypeOK, Event, bundle, agent
      <3> QED
        BY <3>1, <3>2, <3>3, <3>4, <3>5, <3>6, <3>7, TypeCarries
    <2>13. CASE AckFails(w)
      <3>1. ev' \in [Worker -> 0..MaxEvents] /\ goal' \in [Worker -> 0..MaxEvents]
        BY <2>13 DEF AckFails, Finished
      <3>2. pc' \in [Worker -> {"idle", "drain", "claimed", "recover", "staged", "prepared",
                          "moved", "activated", "committed", "ack", "release"}]
        BY <2>13 DEF AckFails, Finished, Goto
      <3>3. row' \in [Event -> {"none", "pending", "claimed", "delivered", "discarded"}]
        BY <2>13 DEF AckFails
      <3>4. owner' \in [Event -> Worker \cup {NoOne}] /\ stale' \subseteq Event
        BY <2>13 DEF AckFails
      <3>5. count' \in Counts
        BY <2>13, CountsType DEF AckFails, Errs, Counts
      <3>6. UNCHANGED <<up, next, blocked, bundle, agent>>
        BY <2>13 DEF AckFails
      <3>7. next' \in 1..(MaxEvents + 1)
        BY <3>6
      <3> HIDE DEF TypeOK, Event, bundle, agent
      <3> QED
        BY <3>1, <3>2, <3>3, <3>4, <3>5, <3>6, <3>7, TypeCarries
    <2>14. CASE Release(w)
      <3>1. ev' \in [Worker -> 0..MaxEvents] /\ goal' \in [Worker -> 0..MaxEvents]
        BY <2>14 DEF Release, Finished
      <3>2. pc' \in [Worker -> {"idle", "drain", "claimed", "recover", "staged", "prepared",
                          "moved", "activated", "committed", "ack", "release"}]
        BY <2>14 DEF Release, Finished, Goto
      <3>3. row' \in [Event -> {"none", "pending", "claimed", "delivered", "discarded"}]
        BY <2>14 DEF Release
      <3>4. owner' \in [Event -> Worker \cup {NoOne}] /\ stale' \subseteq Event
        BY <2>14 DEF Release
      <3>5. count' \in Counts
        BY <2>14, CountsType DEF Release, Errs, Counts
      <3>6. UNCHANGED <<up, next, blocked, bundle, agent>>
        BY <2>14 DEF Release
      <3>7. next' \in 1..(MaxEvents + 1)
        BY <3>6
      <3> HIDE DEF TypeOK, Event, bundle, agent
      <3> QED
        BY <3>1, <3>2, <3>3, <3>4, <3>5, <3>6, <3>7, TypeCarries
    <2> QED
      BY <1>1, <2>1, <2>2, <2>3, <2>4, <2>5, <2>6, <2>7, <2>8, <2>9, <2>10, <2>11, <2>12, <2>13,
         <2>14 DEF Work
  <1>2. CASE Enqueue
    <2>1. /\ next' \in 1..MaxEvents + 1
          /\ row' \in [Event -> {"none", "pending", "claimed", "delivered", "discarded"}]
      BY <1>2 DEF Enqueue, Append
    <2>2. UNCHANGED <<up, owner, stale, blocked, bundle, workers, agent, count>>
      BY <1>2 DEF Enqueue, Append
    <2>3. /\ owner' \in [Event -> Worker \cup {NoOne}] /\ stale' \subseteq Event
          /\ ev' \in [Worker -> 0..MaxEvents] /\ goal' \in [Worker -> 0..MaxEvents]
          /\ pc' \in [Worker -> {"idle", "drain", "claimed", "recover", "staged", "prepared",
                              "moved", "activated", "committed", "ack", "release"}]
          /\ count' \in Counts
      BY <2>2 DEF Counts
    <2> HIDE DEF TypeOK, Event, bundle, agent
    <2> QED
      BY <2>1, <2>2, <2>3, TypeCarries
  <1>3. CASE ReclaimStale
    BY <1>3 DEF ReclaimStale
  <1>4. CASE Recover
    <2>1. root' \in Bundle \cup {Gone}
      BY <1>4 DEF Recover
    <2>2. txn' \in Txns
      <3>1. txn \in Txns
        BY DEF Txns, Phase, Place
      <3>2. \/ txn' = txn \/ txn' = NoTxn
            \/ txn' = [txn EXCEPT !.backup = Gone] \/ txn' = [txn EXCEPT !.stage = Gone]
        BY <1>4 DEF Recover
      <3> HIDE DEF TypeOK, NoTxn
      <3> QED
        BY <3>1, <3>2, TxnsType, NoTxnType
    <2> QED
      BY <1>4, <2>1, <2>2 DEF Recover, Txns, Phase, Place
  <1>5. ASSUME NEW e \in Event, Expire(e) PROVE TypeOK'
    BY <1>5 DEF Expire
  <1>6. CASE BlockQueue
    <2>1. count' \in Counts
      BY <1>6, CountsType DEF BlockQueue, Errs, Counts
    <2> QED
      BY <1>6, <2>1 DEF BlockQueue, Counts
  <1>7. CASE AcquireFence
    BY <1>7 DEF AcquireFence
  <1>8. CASE CommitDelete
    BY <1>8 DEF CommitDelete
  <1>9. CASE DeleteFails
    <2>1. count' \in Counts
      BY <1>9, CountsType DEF DeleteFails, Errs, Counts
    <2> QED
      BY <1>9, <2>1 DEF DeleteFails, Unlock, Errs, Counts
  <1>10. CASE DiscardUnconsumed
    <2>1. count' \in Counts
      BY <1>10, CountsType DEF DiscardUnconsumed, Errs, Counts
    <2>2. row' \in [Event -> {"none", "pending", "claimed", "delivered", "discarded"}]
      BY <1>10 DEF DiscardUnconsumed, Discarded
    <2>3. owner' \in [Event -> Worker \cup {NoOne}] /\ stale' \subseteq Event
      BY <1>10 DEF DiscardUnconsumed
    <2>4. /\ fence' = NoOne /\ del' = "idle"
          /\ UNCHANGED <<up, next, blocked, root, txn, workers, undo, alive>>
      BY <1>10 DEF DiscardUnconsumed, Unlock
    <2> QED
      BY <2>1, <2>2, <2>3, <2>4 DEF Counts
  <1>11. CASE CancelDelete
    BY <1>11 DEF CancelDelete
  <1>12. CASE UndoBlock
    BY <1>12 DEF UndoBlock
  <1>13. CASE Crash
    <2>1. count' \in Counts
      BY <1>13, CountsType DEF Crash, Counts
    <2>2. pc' \in [Worker -> {"idle", "drain", "claimed", "recover", "staged", "prepared",
                        "moved", "activated", "committed", "ack", "release"}]
      BY <1>13 DEF Crash
    <2>3. ev' \in [Worker -> 0..MaxEvents] /\ goal' \in [Worker -> 0..MaxEvents]
      BY <1>13 DEF Crash
    <2>4. up' = FALSE /\ fence' = NoOne /\ del' = "idle" /\ undo' = FALSE
          /\ UNCHANGED <<queue, root, txn, alive>>
      BY <1>13 DEF Crash
    <2> QED
      BY <2>1, <2>2, <2>3, <2>4 DEF Counts
  <1>14. CASE Boot
    <2>1. row' \in [Event -> {"none", "pending", "claimed", "delivered", "discarded"}]
      BY <1>14 DEF Boot, Discarded
    <2>2. owner' \in [Event -> Worker \cup {NoOne}] /\ stale' \subseteq Event
      BY <1>14 DEF Boot
    <2>3. /\ up' = TRUE /\ blocked' \in BOOLEAN
          /\ UNCHANGED <<next, bundle, workers, agent, count>>
      BY <1>14 DEF Boot
    <2> QED
      BY <2>1, <2>2, <2>3
  <1>15. CASE UNCHANGED vars
    BY <1>15
  <1> QED
    BY <1>1, <1>2, <1>3, <1>4, <1>5, <1>6, <1>7, <1>8, <1>9, <1>10, <1>11, <1>12, <1>13, <1>14,
       <1>15 DEF Next, Delete

\* Every step keeps the fence, the events and the delete where their holders are.
LEMMA LocalsStep ==
  ASSUME TypeOK, LocalsInv, [Next]_vars
  PROVE  LocalsInv'
  <1> USE QueueAssumption
      DEF TypeOK, LocalsInv, Fenced, vars, queue, bundle, workers, agent
  <1>1. ASSUME NEW w \in Worker, Work(w) PROVE LocalsInv'
    <2>1. CASE DeliverThrough(w)
      BY <2>1 DEF DeliverThrough, Append, Goto
    <2>2. CASE Claim(w)
      <3>1. PICK e \in Event : ev' = [ev EXCEPT ![w] = e]
        BY <2>2 DEF Claim, Claimable, Head
      <3>2. /\ pc' = [pc EXCEPT ![w] = "claimed"]
            /\ pc[w] \in {"idle", "drain"} /\ up
            /\ UNCHANGED <<up, fence, del, undo, alive>>
        BY <2>2 DEF Claim, Draining, Goto
      <3> QED
        BY <3>1, <3>2 DEF Event
    <2>3. CASE StopDraining(w)
      BY <2>3 DEF StopDraining, Goto
    <2>4. CASE BeginApply(w)
      BY <2>4 DEF BeginApply, Goto
    <2>5. CASE PlanWrites(w)
      BY <2>5 DEF PlanWrites, Goto, Unlock
    <2>6. CASE WritePrepared(w)
      BY <2>6 DEF WritePrepared, Goto
    <2>7. CASE MoveToBackup(w)
      BY <2>7 DEF MoveToBackup, Goto
    <2>8. CASE Activate(w)
      BY <2>8 DEF Activate, Goto
    <2>9. CASE WriteCommitted(w)
      BY <2>9 DEF WriteCommitted, Goto
    <2>10. CASE RemoveTransaction(w)
      BY <2>10 DEF RemoveTransaction, Goto, Unlock
    <2>11. CASE ApplyFails(w)
      BY <2>11 DEF ApplyFails, Goto, Unlock, Errs
    <2>12. CASE MarkDelivered(w)
      BY <2>12 DEF MarkDelivered, Finished, Goto
    <2>13. CASE AckFails(w)
      BY <2>13 DEF AckFails, Finished, Goto, Errs
    <2>14. CASE Release(w)
      BY <2>14 DEF Release, Finished, Goto
    <2> QED
      BY <1>1, <2>1, <2>2, <2>3, <2>4, <2>5, <2>6, <2>7, <2>8, <2>9, <2>10, <2>11, <2>12, <2>13,
         <2>14 DEF Work
  <1>2. CASE Enqueue
    BY <1>2 DEF Enqueue, Append
  <1>3. CASE ReclaimStale
    BY <1>3 DEF ReclaimStale
  <1>4. CASE Recover
    BY <1>4 DEF Recover, Recovering
  <1>5. ASSUME NEW e \in Event, Expire(e) PROVE LocalsInv'
    BY <1>5 DEF Expire
  <1>6. CASE BlockQueue
    BY <1>6 DEF BlockQueue
  <1>7. CASE AcquireFence
    BY <1>7 DEF AcquireFence
  <1>8. CASE CommitDelete
    BY <1>8 DEF CommitDelete
  <1>9. CASE DeleteFails
    BY <1>9 DEF DeleteFails, Unlock, Errs
  <1>10. CASE DiscardUnconsumed
    BY <1>10 DEF DiscardUnconsumed, Discarded, Open, Unlock, Errs
  <1>11. CASE CancelDelete
    BY <1>11 DEF CancelDelete
  <1>12. CASE UndoBlock
    BY <1>12 DEF UndoBlock
  <1>13. CASE Crash
    BY <1>13 DEF Crash
  <1>14. CASE Boot
    BY <1>14 DEF Boot, Discarded, Open
  <1>15. CASE UNCHANGED vars
    BY <1>15
  <1> QED
    BY <1>1, <1>2, <1>3, <1>4, <1>5, <1>6, <1>7, <1>8, <1>9, <1>10, <1>11, <1>12, <1>13, <1>14,
       <1>15 DEF Next, Delete

\* An event appended to the queue gets the next sequence number.
LEMMA RowsAppend ==
  ASSUME TypeOK, RowsInv, next \in Event, row' = [row EXCEPT ![next] = "pending"],
         next' = next + 1, UNCHANGED <<stale, ev, alive>>
  PROVE  RowsInv'
  <1>1. next \in Nat /\ \A e \in Event : e \in Nat
    BY QueueAssumption DEF Event
  <1>2. row'[next] = "pending" /\ \A e \in Event : e # next => row'[e] = row[e]
    BY DEF TypeOK
  <1>3. \A e \in Event : e >= next' <=> row'[e] = "none"
    BY <1>1, <1>2 DEF RowsInv
  <1>4. next \notin stale
    BY <1>1 DEF RowsInv
  <1>5. \A e \in stale' : row'[e] = "claimed"
    BY <1>2, <1>4 DEF RowsInv, TypeOK
  <1>6. \A w \in Worker : ev'[w] < next'
    <2>1. \A w \in Worker : ev[w] \in Nat
      BY DEF TypeOK
    <2> QED
      BY <1>1, <2>1 DEF RowsInv
  <1> QED
    BY <1>2, <1>3, <1>5, <1>6 DEF RowsInv

\* Every step keeps the rows what the sequence numbers and the claims say.
LEMMA RowsStep ==
  ASSUME TypeOK, LocalsInv, RowsInv, [Next]_vars
  PROVE  RowsInv'
  <1> USE QueueAssumption
      DEF TypeOK, LocalsInv, RowsInv, Event, vars, queue, bundle, workers, agent
  <1>1. ASSUME NEW w \in Worker, Work(w) PROVE RowsInv'
    <2>1. CASE DeliverThrough(w)
      <3>1. /\ next \in Event /\ row' = [row EXCEPT ![next] = "pending"]
            /\ next' = next + 1 /\ UNCHANGED <<stale, ev, alive>>
        BY <2>1 DEF DeliverThrough, Append
      <3> QED
        BY <3>1, RowsAppend
    <2>2. CASE Claim(w)
      BY <2>2 DEF Claim, Draining, Claimable, Head, Open, Goto
    <2>3. CASE StopDraining(w)
      BY <2>3 DEF StopDraining, Goto
    <2>4. CASE BeginApply(w)
      BY <2>4 DEF BeginApply, Goto
    <2>5. CASE PlanWrites(w)
      BY <2>5 DEF PlanWrites, Goto, Unlock
    <2>6. CASE WritePrepared(w)
      BY <2>6 DEF WritePrepared, Goto
    <2>7. CASE MoveToBackup(w)
      BY <2>7 DEF MoveToBackup, Goto
    <2>8. CASE Activate(w)
      BY <2>8 DEF Activate, Goto
    <2>9. CASE WriteCommitted(w)
      BY <2>9 DEF WriteCommitted, Goto
    <2>10. CASE RemoveTransaction(w)
      BY <2>10 DEF RemoveTransaction, Goto, Unlock
    <2>11. CASE ApplyFails(w)
      BY <2>11 DEF ApplyFails, Goto, Unlock, Errs
    <2>12. CASE MarkDelivered(w)
      <3>1. /\ row' = [row EXCEPT ![ev[w]] = IF @ = "claimed" THEN "delivered" ELSE @]
            /\ stale' = stale \ {ev[w]} /\ ev' = [ev EXCEPT ![w] = 0]
            /\ UNCHANGED <<next, alive>>
        BY <2>12 DEF MarkDelivered, Finished
      <3>2. \A e \in Event : /\ row'[e] = "none" <=> row[e] = "none"
                            /\ row'[e] = "discarded" <=> row[e] = "discarded"
        BY <3>1
      <3>3. \A e \in stale' : row'[e] = "claimed"
        BY <3>1
      <3>4. \A v \in Worker : ev'[v] < next'
        BY <3>1
      <3> QED
        BY <3>1, <3>2, <3>3, <3>4
    <2>13. CASE AckFails(w)
      BY <2>13 DEF AckFails, Finished, Goto, Errs
    <2>14. CASE Release(w)
      <3>1. /\ row' = [row EXCEPT ![ev[w]] = IF @ = "claimed" THEN "pending" ELSE @]
            /\ stale' = stale \ {ev[w]} /\ ev' = [ev EXCEPT ![w] = 0]
            /\ UNCHANGED <<next, alive>>
        BY <2>14 DEF Release, Finished
      <3>2. \A e \in Event : /\ row'[e] = "none" <=> row[e] = "none"
                            /\ row'[e] = "discarded" <=> row[e] = "discarded"
        BY <3>1
      <3>3. \A e \in stale' : row'[e] = "claimed"
        BY <3>1
      <3>4. \A v \in Worker : ev'[v] < next'
        BY <3>1
      <3> QED
        BY <3>1, <3>2, <3>3, <3>4
    <2> QED
      BY <1>1, <2>1, <2>2, <2>3, <2>4, <2>5, <2>6, <2>7, <2>8, <2>9, <2>10, <2>11, <2>12, <2>13,
         <2>14 DEF Work
  <1>2. CASE Enqueue
    <2>1. /\ next \in Event /\ row' = [row EXCEPT ![next] = "pending"]
          /\ next' = next + 1 /\ UNCHANGED <<stale, ev, alive>>
      BY <1>2 DEF Enqueue, Append
    <2> QED
      BY <2>1, RowsAppend
  <1>3. CASE ReclaimStale
    BY <1>3 DEF ReclaimStale
  <1>4. CASE Recover
    BY <1>4 DEF Recover, Recovering
  <1>5. ASSUME NEW e \in Event, Expire(e) PROVE RowsInv'
    BY <1>5 DEF Expire
  <1>6. CASE BlockQueue
    BY <1>6 DEF BlockQueue
  <1>7. CASE AcquireFence
    BY <1>7 DEF AcquireFence
  <1>8. CASE CommitDelete
    BY <1>8 DEF CommitDelete
  <1>9. CASE DeleteFails
    BY <1>9 DEF DeleteFails, Unlock, Errs
  <1>10. CASE DiscardUnconsumed
    <2>0. row' = Discarded \/ row' = row
      BY <1>10 DEF DiscardUnconsumed
    <2>1. \A e \in Event : row'[e] = "none" <=> row[e] = "none"
      BY <2>0 DEF Discarded, Open
    <2>2. \A e \in stale' : row'[e] = "claimed"
      BY <1>10 DEF DiscardUnconsumed
    <2>3. UNCHANGED <<next, ev, alive>> /\ ~alive
      BY <1>10 DEF DiscardUnconsumed
    <2> QED
      BY <2>1, <2>2, <2>3
  <1>11. CASE CancelDelete
    BY <1>11 DEF CancelDelete
  <1>12. CASE UndoBlock
    BY <1>12 DEF UndoBlock
  <1>13. CASE Crash
    BY <1>13 DEF Crash
  <1>14. CASE Boot
    BY <1>14 DEF Boot, Discarded, Open
  <1>15. CASE UNCHANGED vars
    BY <1>15
  <1> QED
    BY <1>1, <1>2, <1>3, <1>4, <1>5, <1>6, <1>7, <1>8, <1>9, <1>10, <1>11, <1>12, <1>13, <1>14,
       <1>15 DEF Next, Delete

\* Every step keeps the transaction directory settleable.
LEMMA TxnStep ==
  ASSUME TypeOK, LocalsInv, TxnInv, [Next]_vars
  PROVE  TxnInv'
  <1> USE QueueAssumption
      DEF TypeOK, LocalsInv, TxnInv, Settled, NoTxn, Fenced, vars, queue, bundle, workers, agent
  <1>1. ASSUME NEW w \in Worker, Work(w) PROVE TxnInv'
    <2>1. CASE DeliverThrough(w)
      BY <2>1 DEF DeliverThrough, Append, Goto
    <2>2. CASE Claim(w)
      BY <2>2 DEF Claim, Draining, Claimable, Head, Open, Goto
    <2>3. CASE StopDraining(w)
      BY <2>3 DEF StopDraining, Goto
    <2>4. CASE BeginApply(w)
      BY <2>4 DEF BeginApply, Goto
    <2>5. CASE PlanWrites(w)
      <3> DEFINE b == IF root = Gone THEN Empty ELSE root
      <3>0. pc[w] = "recover" /\ txn = NoTxn /\ fence = w
        BY <2>5 DEF PlanWrites
      <3>1. b \in Bundle /\ b # Gone
        BY BundleFacts
      <3>4. ev[w] \in Event
        BY <3>0, HeldEvent
      <3>2. /\ WithEvent(b, ev[w]) \in Bundle /\ WithEvent(b, ev[w]) # Gone
            /\ Recorded(WithEvent(b, ev[w]), ev[w])
        BY <3>1, <3>4, WithEventBundle, BundleFacts
      <3> HIDE DEF b
      <3>3. /\ root' = b /\ UNCHANGED <<ev, alive>>
            /\ \/ txn' = txn /\ pc' = [pc EXCEPT ![w] = "ack"]
               \/ /\ txn' = [phase |-> "staging", stage |-> WithEvent(b, ev[w]), backup |-> Gone]
                  /\ pc' = [pc EXCEPT ![w] = "staged"]
        BY <2>5 DEF PlanWrites, b, Goto
      <3> QED
        BY <3>0, <3>1, <3>2, <3>3
    <2>6. CASE WritePrepared(w)
      BY <2>6 DEF WritePrepared, Goto
    <2>7. CASE MoveToBackup(w)
      BY <2>7 DEF MoveToBackup, Goto
    <2>8. CASE Activate(w)
      BY <2>8 DEF Activate, Goto
    <2>9. CASE WriteCommitted(w)
      BY <2>9 DEF WriteCommitted, Goto
    <2>10. CASE RemoveTransaction(w)
      BY <2>10 DEF RemoveTransaction, Goto, Unlock
    <2>11. CASE ApplyFails(w)
      <3>1. \A v \in Worker : pc'[v] \notin Fenced
        BY <2>11 DEF ApplyFails, Goto
      <3>2. alive =>
              /\ txn'.phase = "none" => txn' = NoTxn
              /\ txn'.phase = "staging" => txn'.backup = Gone
              /\ Settled' # Gone
        <4>1. CASE pc[w] = "moved"
          BY <2>11, <4>1 DEF ApplyFails
        <4>2. CASE pc[w] = "activated"
          <5> SUFFICES ASSUME alive
                       PROVE  /\ txn'.phase = "none" => txn' = NoTxn
                              /\ txn'.phase = "staging" => txn'.backup = Gone
                              /\ Settled' # Gone
            OBVIOUS
          <5>1. txn.phase = "prepared" /\ txn.stage = Gone /\ txn.backup # Gone /\ root # Gone
            BY <4>2
          <5>2. PICK marker \in {"prepared", "committed"} :
                   \/ root' = txn.backup /\ txn' = NoTxn
                   \/ root' = txn.backup /\ txn' = [phase |-> marker, stage |-> root, backup |-> Gone]
                   \/ root' = Gone /\ txn' = [txn EXCEPT !.phase = marker, !.stage = root]
                   \/ root' = root /\ txn' = [txn EXCEPT !.phase = marker]
            BY <2>11, <4>2 DEF ApplyFails
          <5>3. CASE root' = txn.backup /\ txn' = NoTxn
            BY <5>1, <5>3
          <5>4. CASE root' = txn.backup /\ txn' = [phase |-> marker, stage |-> root, backup |-> Gone]
            BY <5>1, <5>4
          <5>5. CASE root' = Gone /\ txn' = [txn EXCEPT !.phase = marker, !.stage = root]
            <6>1. txn'.phase = marker /\ txn'.stage = root /\ txn'.backup = txn.backup
              BY <5>5
            <6> QED
              BY <5>1, <5>5, <6>1
          <5>6. CASE root' = root /\ txn' = [txn EXCEPT !.phase = marker]
            <6>1. txn'.phase = marker /\ txn'.stage = txn.stage /\ txn'.backup = txn.backup
              BY <5>6
            <6> QED
              BY <5>1, <5>6, <6>1
          <5> QED
            BY <5>2, <5>3, <5>4, <5>5, <5>6
        <4>3. CASE pc[w] \notin {"moved", "activated"}
          BY <2>11, <4>3 DEF ApplyFails
        <4> QED
          BY <4>1, <4>2, <4>3
      <3>3. alive' = alive
        BY <2>11 DEF ApplyFails
      <3> QED
        BY <3>1, <3>2, <3>3
    <2>12. CASE MarkDelivered(w)
      BY <2>12 DEF MarkDelivered, Finished, Goto
    <2>13. CASE AckFails(w)
      BY <2>13 DEF AckFails, Finished, Goto, Errs
    <2>14. CASE Release(w)
      BY <2>14 DEF Release, Finished, Goto
    <2> QED
      BY <1>1, <2>1, <2>2, <2>3, <2>4, <2>5, <2>6, <2>7, <2>8, <2>9, <2>10, <2>11, <2>12, <2>13,
         <2>14 DEF Work
  <1>2. CASE Enqueue
    BY <1>2 DEF Enqueue, Append
  <1>3. CASE ReclaimStale
    BY <1>3 DEF ReclaimStale
  <1>4. CASE Recover
    BY <1>4 DEF Recover, Recovering
  <1>5. ASSUME NEW e \in Event, Expire(e) PROVE TxnInv'
    BY <1>5 DEF Expire
  <1>6. CASE BlockQueue
    BY <1>6 DEF BlockQueue
  <1>7. CASE AcquireFence
    BY <1>7 DEF AcquireFence
  <1>8. CASE CommitDelete
    BY <1>8 DEF CommitDelete
  <1>9. CASE DeleteFails
    BY <1>9 DEF DeleteFails, Unlock, Errs
  <1>10. CASE DiscardUnconsumed
    BY <1>10 DEF DiscardUnconsumed, Discarded, Open, Unlock, Errs
  <1>11. CASE CancelDelete
    BY <1>11 DEF CancelDelete
  <1>12. CASE UndoBlock
    BY <1>12 DEF UndoBlock
  <1>13. CASE Crash
    BY <1>13 DEF Crash
  <1>14. CASE Boot
    BY <1>14 DEF Boot, Discarded, Open
  <1>15. CASE UNCHANGED vars
    BY <1>15
  <1> QED
    BY <1>1, <1>2, <1>3, <1>4, <1>5, <1>6, <1>7, <1>8, <1>9, <1>10, <1>11, <1>12, <1>13, <1>14,
       <1>15 DEF Next, Delete

\* A failed apply and a replay move bundles around, and make none.
LEMMA ApplyFailsBundles ==
  ASSUME TypeOK, NEW w \in Worker, ApplyFails(w)
  PROVE  Bundles' \subseteq Bundles
  <1> USE DEF TypeOK, Bundles
  <1>1. CASE pc[w] = "activated"
    <2>1. PICK marker \in {"prepared", "committed"} :
             \/ root' = txn.backup /\ txn' = NoTxn
             \/ root' = txn.backup /\ txn' = [phase |-> marker, stage |-> root, backup |-> Gone]
             \/ root' = Gone /\ txn' = [txn EXCEPT !.phase = marker, !.stage = root]
             \/ root' = root /\ txn' = [txn EXCEPT !.phase = marker]
      BY <1>1 DEF ApplyFails
    <2>2. CASE root' = Gone /\ txn' = [txn EXCEPT !.phase = marker, !.stage = root]
      <3>1. txn'.stage = root /\ txn'.backup = txn.backup
        BY <2>2
      <3> QED
        BY <2>2, <3>1
    <2>3. CASE root' = root /\ txn' = [txn EXCEPT !.phase = marker]
      <3>1. txn'.stage = txn.stage /\ txn'.backup = txn.backup
        BY <2>3
      <3> QED
        BY <2>3, <3>1
    <2>4. CASE root' = txn.backup /\ txn' = NoTxn
      BY <2>4 DEF NoTxn
    <2>5. CASE root' = txn.backup /\ txn' = [phase |-> marker, stage |-> root, backup |-> Gone]
      BY <2>5
    <2> QED
      BY <2>1, <2>2, <2>3, <2>4, <2>5
  <1>2. CASE pc[w] # "activated"
    BY <1>2 DEF ApplyFails, NoTxn
  <1> QED
    BY <1>1, <1>2

(* A recovery brings back bundles that were there before. *)
LEMMA RecoverBundles == TypeOK /\ Recover => Bundles' \subseteq Bundles
  BY DEF TypeOK, Bundles, Recover, NoTxn

\* Every step keeps the delivered events recorded in every bundle that may become
\* the one a reader gets.
LEMMA RecordStep ==
  ASSUME BaseInv, [Next]_vars
  PROVE  RecordInv'
  <1> USE QueueAssumption
      DEF BaseInv, TypeOK, Bundles, vars, queue, bundle, workers, agent
  <1>1. ASSUME NEW w \in Worker, Work(w) PROVE RecordInv'
    <2>1. CASE DeliverThrough(w)
      BY <2>1 DEF DeliverThrough, Append, Goto, RecordInv, Effective
    <2>2. CASE Claim(w)
      BY <2>2 DEF Claim, Draining, Claimable, Head, Open, Goto, RecordInv, Effective
    <2>3. CASE StopDraining(w)
      BY <2>3 DEF StopDraining, Goto, RecordInv, Effective
    <2>4. CASE BeginApply(w)
      BY <2>4 DEF BeginApply, Goto, RecordInv, Effective
    <2>5. CASE PlanWrites(w)
      <3> SUFFICES ASSUME alive PROVE RecordInv'
        BY <2>5 DEF PlanWrites, RecordInv
      <3>1. pc[w] = "recover" /\ txn = NoTxn /\ root # Gone
        BY <2>5 DEF PlanWrites, TxnInv, Settled, NoTxn
      <3>2. root \in Bundle /\ ev[w] \in Event
        BY <3>1, HeldEvent
      <3>3. /\ root' = root /\ UNCHANGED <<row, ev, alive>>
            /\ \/ Recorded(root, ev[w]) /\ txn' = txn /\ pc' = [pc EXCEPT ![w] = "ack"]
               \/ /\ txn' = [phase |-> "staging", stage |-> WithEvent(root, ev[w]), backup |-> Gone]
                  /\ pc' = [pc EXCEPT ![w] = "staged"]
        BY <2>5, <3>1 DEF PlanWrites, Goto
      <3>4. \A f \in Event : Recorded(root, f) => Recorded(WithEvent(root, ev[w]), f)
        BY <3>2, WithEventBundle
      <3>5. Bundles' \subseteq {root, WithEvent(root, ev[w])} /\ root \in Bundles
        BY <3>1, <3>3 DEF NoTxn
      <3>6. CASE pc' = [pc EXCEPT ![w] = "staged"]
        <4>1. \A e \in Event : Effective(e)' => Effective(e)
          BY <3>3, <3>6 DEF Effective
        <4> QED
          BY <3>3, <3>4, <3>5, <4>1 DEF RecordInv
      <3>7. CASE Recorded(root, ev[w]) /\ txn' = txn /\ pc' = [pc EXCEPT ![w] = "ack"]
        <4>1. Bundles' = Bundles
          BY <3>3, <3>7
        <4>2. \A e \in Event : Effective(e)' => Effective(e) \/ e = ev[w]
          BY <3>3, <3>7 DEF Effective
        <4>3. Bundles = {root}
          BY <3>1 DEF NoTxn
        <4> QED
          BY <3>3, <3>7, <4>1, <4>2, <4>3 DEF RecordInv
      <3> QED
        BY <3>3, <3>6, <3>7
    <2>6. CASE WritePrepared(w)
      BY <2>6 DEF WritePrepared, Goto, RecordInv, Effective
    <2>7. CASE MoveToBackup(w)
      BY <2>7 DEF MoveToBackup, Goto, RecordInv, Effective
    <2>8. CASE Activate(w)
      BY <2>8 DEF Activate, Goto, RecordInv, Effective
    <2>9. CASE WriteCommitted(w)
      BY <2>9 DEF WriteCommitted, Goto, RecordInv, Effective
    <2>10. CASE RemoveTransaction(w)
      <3> SUFFICES ASSUME alive PROVE RecordInv'
        BY <2>10 DEF RemoveTransaction, RecordInv
      <3>1. root # Gone /\ Recorded(root, ev[w])
        BY <2>10 DEF RemoveTransaction, TxnInv
      <3>2. Bundles' = {root} /\ root \in Bundles
        BY <2>10, <3>1 DEF RemoveTransaction, NoTxn
      <3>3. \A e \in Event : Effective(e)' => Effective(e) \/ e = ev[w]
        BY <2>10 DEF RemoveTransaction, Goto, Effective
      <3>4. alive'
        BY <2>10 DEF RemoveTransaction
      <3> QED
        BY <3>1, <3>2, <3>3 DEF RecordInv
    <2>11. CASE ApplyFails(w)
      <3>1. \A e \in Event : Effective(e)' => Effective(e)
        BY <2>11 DEF ApplyFails, Goto, Effective
      <3>2. Bundles' \subseteq Bundles
        BY <2>11, ApplyFailsBundles
      <3>3. alive' = alive
        BY <2>11 DEF ApplyFails
      <3> QED
        BY <3>1, <3>2, <3>3, RecordCarries
    <2>12. CASE MarkDelivered(w)
      BY <2>12 DEF MarkDelivered, Finished, Goto, RecordInv, Effective
    <2>13. CASE AckFails(w)
      BY <2>13 DEF AckFails, Finished, Goto, Errs, RecordInv, Effective
    <2>14. CASE Release(w)
      BY <2>14 DEF Release, Finished, Goto, RecordInv, Effective
    <2> QED
      BY <1>1, <2>1, <2>2, <2>3, <2>4, <2>5, <2>6, <2>7, <2>8, <2>9, <2>10, <2>11, <2>12, <2>13,
         <2>14 DEF Work
  <1>2. CASE Enqueue
    BY <1>2 DEF Enqueue, Append, RecordInv, Effective
  <1>3. CASE ReclaimStale
    BY <1>3 DEF ReclaimStale, RecordInv, Effective
  <1>4. CASE Recover
    <2>1. \A e \in Event : Effective(e)' => Effective(e)
      BY <1>4 DEF Recover, Effective
    <2>2. Bundles' \subseteq Bundles
      BY <1>4, RecoverBundles
    <2>3. alive' = alive
      BY <1>4 DEF Recover
    <2> QED
      BY <2>1, <2>2, <2>3, RecordCarries
  <1>5. ASSUME NEW e \in Event, Expire(e) PROVE RecordInv'
    BY <1>5 DEF Expire, RecordInv, Effective
  <1>6. CASE BlockQueue
    BY <1>6 DEF BlockQueue, RecordInv, Effective
  <1>7. CASE AcquireFence
    BY <1>7 DEF AcquireFence, RecordInv, Effective
  <1>8. CASE CommitDelete
    BY <1>8 DEF CommitDelete, RecordInv, Effective
  <1>9. CASE DeleteFails
    BY <1>9 DEF DeleteFails, Unlock, Errs, RecordInv, Effective
  <1>10. CASE DiscardUnconsumed
    BY <1>10 DEF DiscardUnconsumed, Discarded, Open, Unlock, Errs, RecordInv, Effective
  <1>11. CASE CancelDelete
    BY <1>11 DEF CancelDelete, RecordInv, Effective
  <1>12. CASE UndoBlock
    BY <1>12 DEF UndoBlock, RecordInv, Effective
  <1>13. CASE Crash
    BY <1>13 DEF Crash, RecordInv, Effective
  <1>14. CASE Boot
    BY <1>14 DEF Boot, Discarded, Open, RecordInv, Effective
  <1>15. CASE UNCHANGED vars
    BY <1>15 DEF RecordInv, Effective
  <1> QED
    BY <1>1, <1>2, <1>3, <1>4, <1>5, <1>6, <1>7, <1>8, <1>9, <1>10, <1>11, <1>12, <1>13, <1>14,
       <1>15 DEF Next, Delete

-----------------------------------------------------------------------------
(* What holds however claims age and however often a delete is tried.      *)

\* A fresh queue: no row, no transaction, and the empty bundle.
LEMMA BaseInit == Init => BaseInv
  <1> SUFFICES ASSUME Init PROVE BaseInv
    OBVIOUS
  <1> USE QueueAssumption DEF Init
  <1>1. TypeOK
    <2>1. root \in Bundle
      BY BundleFacts
    <2>2. txn \in Txns
      BY NoTxnType
    <2>3. /\ root \in Place
          /\ txn \in [phase : Phase, stage : Place, backup : Place]
      BY <2>1, <2>2 DEF Txns, Place
    <2>4. count \in [crashes : 0..MaxCrashes, errors : 0..MaxErrors, deletes : 0..MaxDeletes]
      OBVIOUS
    <2>5. next \in 1..(MaxEvents + 1)
      OBVIOUS
    <2>6. ev \in [Worker -> 0..MaxEvents] /\ goal \in [Worker -> 0..MaxEvents]
      OBVIOUS
    <2> QED
      BY <2>3, <2>4, <2>5, <2>6 DEF TypeOK, Phase, Place
  <1>2. LocalsInv
    BY DEF LocalsInv, Fenced
  <1>3. RowsInv
    BY DEF RowsInv, Event
  <1>4. TxnInv
    <2>1. root # Gone
      BY BundleFacts
    <2> QED
      BY <2>1 DEF TxnInv, NoTxn, Settled
  <1>5. RecordInv
    BY DEF RecordInv, Effective
  <1> QED
    BY <1>1, <1>2, <1>3, <1>4, <1>5 DEF BaseInv

(* Every step keeps the base invariant. *)
LEMMA BaseStep == BaseInv /\ [Next]_vars => BaseInv'
  <1> SUFFICES ASSUME BaseInv, [Next]_vars PROVE BaseInv'
    OBVIOUS
  <1>1. TypeOK'
    BY TypeStep DEF BaseInv
  <1>2. LocalsInv'
    BY LocalsStep DEF BaseInv
  <1>3. RowsInv'
    BY RowsStep DEF BaseInv
  <1>4. TxnInv'
    BY TxnStep DEF BaseInv
  <1>5. RecordInv'
    BY RecordStep
  <1> QED
    BY <1>1, <1>2, <1>3, <1>4, <1>5 DEF BaseInv

\* The inductive invariant holds in every state that can be reached.
THEOREM BaseInvariant == Spec => []BaseInv
  BY BaseInit, BaseStep, PTL DEF Spec

\* A row is marked delivered only when its effect survives every crash that can
\* follow (complete_event after apply_claimed, recover_bundle_transactions).
THEOREM DeliveriesAreRecorded == Spec => []DeliveredIsRecorded
  <1>1. BaseInv => DeliveredIsRecorded
    <2> SUFFICES ASSUME BaseInv, alive, NEW e \in Event, row[e] = "delivered"
                 PROVE  Settled # Gone /\ Recorded(Settled, e)
      BY DEF DeliveredIsRecorded
    <2>1. Settled # Gone
      BY DEF BaseInv, TxnInv
    <2>2. Settled \in Bundles
      BY <2>1 DEF Settled, Bundles
    <2> QED
      BY <2>1, <2>2 DEF BaseInv, RecordInv, Effective
  <1> QED
    BY <1>1, BaseInvariant, PTL

-----------------------------------------------------------------------------
(* What holds when at most one delete of the agent is tried.               *)

\* Every step leaves a deleted agent nothing to apply and nobody who retries for it.
LEMMA GoneStep ==
  ASSUME MaxDeletes <= 1, BaseInv, GoneInv, [Next]_vars
  PROVE  GoneInv'
  <1> USE QueueAssumption
      DEF BaseInv, TypeOK, LocalsInv, GoneInv, Fenced, Counts, NothingQueuedForTheDeleted, Open,
         vars, queue, bundle, workers, agent
  <1>1. ASSUME NEW w \in Worker, Work(w) PROVE GoneInv'
    <2>1. CASE DeliverThrough(w)
      BY <2>1 DEF DeliverThrough, Append, Goto
    <2>2. CASE Claim(w)
      BY <2>2 DEF Claim, Draining, Claimable, Head, Open, Goto
    <2>3. CASE StopDraining(w)
      BY <2>3 DEF StopDraining, Goto
    <2>4. CASE BeginApply(w)
      BY <2>4 DEF BeginApply, Goto
    <2>5. CASE PlanWrites(w)
      BY <2>5 DEF PlanWrites, Goto, Unlock
    <2>6. CASE WritePrepared(w)
      BY <2>6 DEF WritePrepared, Goto
    <2>7. CASE MoveToBackup(w)
      BY <2>7 DEF MoveToBackup, Goto
    <2>8. CASE Activate(w)
      BY <2>8 DEF Activate, Goto
    <2>9. CASE WriteCommitted(w)
      BY <2>9 DEF WriteCommitted, Goto
    <2>10. CASE RemoveTransaction(w)
      BY <2>10 DEF RemoveTransaction, Goto, Unlock
    <2>11. CASE ApplyFails(w)
      BY <2>11 DEF ApplyFails, Goto, Unlock, Errs
    <2>12. CASE MarkDelivered(w)
      <3>1. \A e \in Event : row'[e] \in Open => row[e] \in Open
        BY <2>12 DEF MarkDelivered
      <3> QED
        BY <2>12, <3>1 DEF MarkDelivered, Finished, Goto
    <2>13. CASE AckFails(w)
      BY <2>13 DEF AckFails, Finished, Goto, Errs
    <2>14. CASE Release(w)
      <3>1. \A e \in Event : row'[e] \in Open => row[e] \in Open
        BY <2>14 DEF Release
      <3> QED
        BY <2>14, <3>1 DEF Release, Finished, Goto
    <2> QED
      BY <1>1, <2>1, <2>2, <2>3, <2>4, <2>5, <2>6, <2>7, <2>8, <2>9, <2>10, <2>11, <2>12, <2>13,
         <2>14 DEF Work
  <1>2. CASE Enqueue
    BY <1>2 DEF Enqueue, Append
  <1>3. CASE ReclaimStale
    <2>1. \A e \in Event : row'[e] \in Open => row[e] \in Open
      BY <1>3 DEF ReclaimStale, RowsInv
    <2> QED
      BY <1>3, <2>1 DEF ReclaimStale
  <1>4. CASE Recover
    BY <1>4 DEF Recover, Recovering
  <1>5. ASSUME NEW e \in Event, Expire(e) PROVE GoneInv'
    BY <1>5 DEF Expire
  <1>6. CASE BlockQueue
    BY <1>6 DEF BlockQueue
  <1>7. CASE AcquireFence
    BY <1>7 DEF AcquireFence
  <1>8. CASE CommitDelete
    BY <1>8 DEF CommitDelete
  <1>9. CASE DeleteFails
    BY <1>9 DEF DeleteFails, Unlock, Errs
  <1>10. CASE DiscardUnconsumed
    <2>1. CASE row' = Discarded /\ count' = count
      <3>1. \A e \in Event : row'[e] \notin Open
        BY <2>1 DEF Discarded
      <3> QED
        BY <1>10, <2>1, <3>1 DEF DiscardUnconsumed, Unlock
    <2>2. CASE Errs
      <3>1. count'.errors # 0 /\ count'.deletes = count.deletes
        BY <2>2, CountsType DEF Errs
      <3> QED
        BY <1>10, <3>1 DEF DiscardUnconsumed, Unlock
    <2> QED
      BY <1>10, <2>1, <2>2 DEF DiscardUnconsumed
  <1>11. CASE CancelDelete
    BY <1>11 DEF CancelDelete
  <1>12. CASE UndoBlock
    BY <1>12 DEF UndoBlock
  <1>13. CASE Crash
    BY <1>13 DEF Crash
  <1>14. CASE Boot
    BY <1>14 DEF Boot, Discarded, Open
  <1>15. CASE UNCHANGED vars
    BY <1>15
  <1> QED
    BY <1>1, <1>2, <1>3, <1>4, <1>5, <1>6, <1>7, <1>8, <1>9, <1>10, <1>11, <1>12, <1>13, <1>14,
       <1>15 DEF Next, Delete


-----------------------------------------------------------------------------
(* What holds when claims are not taken from living workers.               *)

\* A step that leaves the rows and what the workers hold keeps the queue strict.
LEMMA HoldCarries ==
  ASSUME HoldInv, UNCHANGED <<row, stale, ev, alive>>
  PROVE  HoldInv'
  BY DEF HoldInv

\* The event appended to the queue is held by nobody and follows all delivered.
LEMMA HoldAppend ==
  ASSUME TypeOK, RowsInv, HoldInv, next \in Event, row' = [row EXCEPT ![next] = "pending"],
         UNCHANGED <<stale, ev, alive>>
  PROVE  HoldInv'
  <1>1. \A e \in Event : row[e] # "none" => e < next
    BY QueueAssumption DEF RowsInv, TypeOK, Event
  <1>2. \A e \in Event : e # next => row'[e] = row[e]
    BY DEF TypeOK
  <1>3. row'[next] = "pending" /\ row[next] = "none" /\ next \in Nat
    BY QueueAssumption DEF RowsInv, TypeOK, Event
  <1>4. \A e \in Event : row'[e] = "delivered" <=> row[e] = "delivered"
    BY <1>2, <1>3
  <1>5. ASSUME alive, NEW w \in Worker, ev[w] # 0 PROVE row'[ev[w]] = "claimed"
    <2>1. ev[w] \in Event
      BY <1>5 DEF TypeOK, Event
    <2>2. row[ev[w]] = "claimed"
      BY <1>5 DEF HoldInv
    <2> QED
      BY <1>2, <1>3, <2>1, <2>2
  <1> QED
    BY <1>4, <1>5 DEF HoldInv

\* Every step keeps the queue strict: one event is held at a time, and it is the
\* first that is not delivered.
LEMMA HoldStep ==
  ASSUME ~SlowApply, BaseInv, HoldInv, [Next]_vars
  PROVE  HoldInv'
  <1> USE QueueAssumption
      DEF BaseInv, TypeOK, LocalsInv, RowsInv, HoldInv, Event, vars, queue, bundle, workers, agent
  <1>1. ASSUME NEW w \in Worker, Work(w) PROVE HoldInv'
    <2>1. CASE DeliverThrough(w)
      <3>1. /\ next \in Event /\ row' = [row EXCEPT ![next] = "pending"]
            /\ UNCHANGED <<stale, ev, alive>>
        BY <2>1 DEF DeliverThrough, Append
      <3> QED
        BY <3>1, HoldAppend
    <2>2. CASE Claim(w)
      <3> SUFFICES ASSUME alive PROVE HoldInv'
        BY <2>2 DEF Claim
      <3>1. PICK e \in Claimable :
              /\ row' = [f \in Event |-> IF f = e THEN "claimed"
                                         ELSE IF f \in stale THEN "pending" ELSE row[f]]
              /\ stale' = {}
              /\ ev' = [ev EXCEPT ![w] = e]
        BY <2>2 DEF Claim
      <3>2. /\ e \in Event /\ row[e] \in {"pending", "claimed"}
            /\ row[e] = "pending" \/ e \in stale
            /\ \A f \in Event : row[f] \in {"pending", "claimed"} => e <= f
        BY DEF Claimable, Head, Open
      <3>3. \A v \in Worker : ev[v] = 0
        <4> SUFFICES ASSUME NEW v \in Worker, ev[v] # 0 PROVE FALSE
          OBVIOUS
        <4>1. ev[v] \in Event /\ row[ev[v]] = "claimed" /\ ev[v] \notin stale
          <5>1. ev[v] \in Event
            OBVIOUS
          <5>2. row[ev[v]] = "claimed" /\ ev[v] \notin stale
            BY DEF HoldInv
          <5> QED
            BY <5>1, <5>2
        <4>2. e < ev[v]
          BY <3>2, <4>1
        <4> QED
          BY <3>2, <4>1, <4>2
      <3>4. \A f \in Event : f < e => row[f] = "delivered" /\ f \notin stale
        <4> SUFFICES ASSUME NEW f \in Event, f < e PROVE row[f] = "delivered" /\ f \notin stale
          OBVIOUS
        <4>1. row[f] \notin {"pending", "claimed"}
          BY <3>2
        <4>2. row[f] # "none"
          BY <3>2
        <4> QED
          BY <4>1, <4>2
      <3>5. \A f \in Event : row'[f] = "delivered" <=> row[f] = "delivered"
        BY <3>1, <3>2
      <3>6. /\ row'[e] = "claimed" /\ ev'[w] = e
            /\ \A v \in Worker : v # w => ev'[v] = 0
        BY <3>1, <3>2, <3>3
      <3>7. e # 0 /\ alive' = alive
        BY <2>2, <3>2 DEF Claim
      <3> HIDE DEF BaseInv, TypeOK, LocalsInv, RowsInv
      <3>8. \A f \in Event : f < e => row'[f] = "delivered"
        BY <3>4, <3>5
      <3> QED
        BY <3>1, <3>5, <3>6, <3>7, <3>8
    <2>3. CASE StopDraining(w)
      <3>1. UNCHANGED <<row, stale, ev, alive>>
        BY <2>3 DEF StopDraining
      <3> QED
        BY <3>1, HoldCarries
    <2>4. CASE BeginApply(w)
      <3>1. UNCHANGED <<row, stale, ev, alive>>
        BY <2>4 DEF BeginApply
      <3> QED
        BY <3>1, HoldCarries
    <2>5. CASE PlanWrites(w)
      BY <2>5 DEF PlanWrites, Goto, Unlock
    <2>6. CASE WritePrepared(w)
      <3>1. UNCHANGED <<row, stale, ev, alive>>
        BY <2>6 DEF WritePrepared
      <3> QED
        BY <3>1, HoldCarries
    <2>7. CASE MoveToBackup(w)
      <3>1. UNCHANGED <<row, stale, ev, alive>>
        BY <2>7 DEF MoveToBackup
      <3> QED
        BY <3>1, HoldCarries
    <2>8. CASE Activate(w)
      <3>1. UNCHANGED <<row, stale, ev, alive>>
        BY <2>8 DEF Activate
      <3> QED
        BY <3>1, HoldCarries
    <2>9. CASE WriteCommitted(w)
      <3>1. UNCHANGED <<row, stale, ev, alive>>
        BY <2>9 DEF WriteCommitted
      <3> QED
        BY <3>1, HoldCarries
    <2>10. CASE RemoveTransaction(w)
      <3>1. UNCHANGED <<row, stale, ev, alive>>
        BY <2>10 DEF RemoveTransaction
      <3> QED
        BY <3>1, HoldCarries
    <2>11. CASE ApplyFails(w)
      <3>1. UNCHANGED <<row, stale, ev, alive>>
        BY <2>11 DEF ApplyFails
      <3> QED
        BY <3>1, HoldCarries
    <2>12. CASE MarkDelivered(w)
      <3> SUFFICES ASSUME alive PROVE HoldInv'
        BY <2>12 DEF MarkDelivered
      <3>1. ev[w] \in Event /\ row[ev[w]] = "claimed"
        BY <2>12, HeldEvent DEF MarkDelivered
      <3>2. /\ row' = [row EXCEPT ![ev[w]] = "delivered"] /\ stale' = stale \ {ev[w]}
            /\ alive' = alive /\ ev' = [ev EXCEPT ![w] = 0]
        BY <2>12, <3>1 DEF MarkDelivered, Finished
      <3>3. \A v \in Worker : ev'[v] = 0
        BY <3>1, <3>2
      <3>4. \A e, f \in Event : e < f /\ row'[f] = "delivered" => row'[e] = "delivered"
        BY <3>1, <3>2
      <3> QED
        BY <3>2, <3>3, <3>4
    <2>13. CASE AckFails(w)
      <3>1. ev' = [ev EXCEPT ![w] = 0] /\ UNCHANGED <<row, stale, alive>>
        BY <2>13 DEF AckFails, Finished
      <3>2. \A v \in Worker : ev'[v] # 0 => v # w /\ ev'[v] = ev[v]
        BY <3>1
      <3> QED
        BY <3>1, <3>2
    <2>14. CASE Release(w)
      <3>1. /\ row' = [row EXCEPT ![ev[w]] = IF @ = "claimed" THEN "pending" ELSE @]
            /\ stale' = stale \ {ev[w]} /\ ev' = [ev EXCEPT ![w] = 0]
            /\ UNCHANGED alive
        BY <2>14 DEF Release, Finished
      <3>2. \A e \in Event : row'[e] = "delivered" <=> row[e] = "delivered"
        BY <3>1
      <3>3. ev[w] # 0
        BY <2>14, HeldEvent DEF Release
      <3>4. \A v \in Worker : alive /\ ev'[v] # 0 => FALSE
        BY <3>1, <3>3
      <3> QED
        BY <3>1, <3>2, <3>4
    <2> QED
      BY <1>1, <2>1, <2>2, <2>3, <2>4, <2>5, <2>6, <2>7, <2>8, <2>9, <2>10, <2>11, <2>12, <2>13,
         <2>14 DEF Work
  <1>2. CASE Enqueue
    <2>1. /\ next \in Event /\ row' = [row EXCEPT ![next] = "pending"]
          /\ UNCHANGED <<stale, ev, alive>>
      BY <1>2 DEF Enqueue, Append
    <2> QED
      BY <2>1, HoldAppend
  <1>3. CASE ReclaimStale
    <2>1. /\ row' = [e \in Event |-> IF e \in stale THEN "pending" ELSE row[e]]
          /\ stale' = {} /\ UNCHANGED <<ev, alive>>
      BY <1>3 DEF ReclaimStale
    <2>2. \A e \in Event : row'[e] = "delivered" <=> row[e] = "delivered"
      BY <2>1
    <2>3. \A e \in Event : e \notin stale => row'[e] = row[e]
      BY <2>1
    <2> QED
      BY <2>1, <2>2, <2>3
  <1>4. CASE Recover
    BY <1>4 DEF Recover, Recovering
  <1>5. ASSUME NEW e \in Event, Expire(e) PROVE HoldInv'
    <2>1. /\ \A w \in Worker : ev[w] # e
          /\ stale' = stale \cup {e} /\ UNCHANGED <<row, ev, alive>>
      BY <1>5 DEF Expire
    <2> QED
      BY <2>1
  <1>6. CASE BlockQueue
    BY <1>6 DEF BlockQueue
  <1>7. CASE AcquireFence
    BY <1>7 DEF AcquireFence
  <1>8. CASE CommitDelete
    BY <1>8 DEF CommitDelete
  <1>9. CASE DeleteFails
    BY <1>9 DEF DeleteFails, Unlock, Errs
  <1>10. CASE DiscardUnconsumed
    BY <1>10 DEF DiscardUnconsumed, Discarded, Open, Unlock, Errs
  <1>11. CASE CancelDelete
    BY <1>11 DEF CancelDelete
  <1>12. CASE UndoBlock
    BY <1>12 DEF UndoBlock
  <1>13. CASE Crash
    BY <1>13 DEF Crash
  <1>14. CASE Boot
    BY <1>14 DEF Boot, Discarded, Open
  <1>15. CASE UNCHANGED vars
    BY <1>15
  <1> QED
    BY <1>1, <1>2, <1>3, <1>4, <1>5, <1>6, <1>7, <1>8, <1>9, <1>10, <1>11, <1>12, <1>13, <1>14,
       <1>15 DEF Next, Delete

\* Every step keeps every bundle a prefix of the queue.
LEMMA OrderStep ==
  ASSUME TypeOK, TypeOK', LocalsInv, RowsInv, TxnInv, HoldInv, OrderInv, [Next]_vars
  PROVE  OrderInv'
  <1> USE QueueAssumption
      DEF vars, queue, bundle, workers, agent
  <1>1. ASSUME NEW w \in Worker, Work(w) PROVE OrderInv'
    <2>1. CASE DeliverThrough(w)
      <3>1. /\ Bundles' \subseteq Bundles /\ alive' = alive /\ next <= next'
            /\ \A e \in Event : row'[e] = "delivered" <=> row[e] = "delivered"
        BY <2>1, QueueAssumption DEF DeliverThrough, Append, Goto, Bundles, TypeOK, RowsInv, Event
      <3>2. alive => \A v \in Worker : Reached(v)'
        BY <2>1 DEF DeliverThrough, Append, Goto, OrderInv, Reached, TypeOK, LocalsInv
      <3> QED
        BY <3>1, <3>2, OrderCarries
    <2>2. CASE Claim(w)
      <3>1. PICK e \in Claimable :
              /\ row' = [f \in Event |-> IF f = e THEN "claimed"
                                         ELSE IF f \in stale THEN "pending" ELSE row[f]]
              /\ ev' = [ev EXCEPT ![w] = e] /\ pc' = [pc EXCEPT ![w] = "claimed"]
              /\ UNCHANGED <<root, txn, next, alive>>
        BY <2>2 DEF Claim, Goto
      <3>2. row[e] \in {"pending", "claimed"}
        BY DEF Claimable, Head, Open
      <3>3. \A f \in Event : row'[f] = "delivered" <=> row[f] = "delivered"
        BY <3>1, <3>2 DEF RowsInv
      <3>4. Bundles' = Bundles /\ next <= next'
        BY <3>1, QueueAssumption DEF Bundles, TypeOK
      <3>5. ASSUME alive, NEW v \in Worker PROVE Reached(v)'
        <4>1. Reached(v)
          BY <3>5 DEF OrderInv
        <4>2. v = w => pc'[v] = "claimed"
          BY <3>1 DEF TypeOK
        <4>3. v # w => pc'[v] = pc[v] /\ ev'[v] = ev[v]
          BY <3>1 DEF TypeOK
        <4> QED
          BY <3>1, <4>1, <4>2, <4>3 DEF Reached
      <3> QED
        BY <3>1, <3>3, <3>4, <3>5, OrderCarries
    <2>3. CASE StopDraining(w)
      BY <2>3 DEF StopDraining, Goto, TypeOK, LocalsInv, RowsInv, OrderInv, InOrder, Reached,
         Bundles, Event
    <2>4. CASE BeginApply(w)
      BY <2>4 DEF BeginApply, Goto, TypeOK, LocalsInv, RowsInv, OrderInv, InOrder, Reached,
         Bundles, Event
    <2>5. CASE PlanWrites(w)
      <3> SUFFICES ASSUME alive PROVE OrderInv'
        BY <2>5 DEF PlanWrites, OrderInv
      <3>1. pc[w] = "recover" /\ txn = NoTxn /\ root # Gone
        BY <2>5 DEF PlanWrites, TxnInv, Settled, NoTxn
      <3>2. root \in Bundle /\ ev[w] \in Event
        BY <3>1, HeldEvent DEF TypeOK
      <3>3. Bundles = {root} /\ InOrder(root)
        BY <3>1 DEF Bundles, NoTxn, OrderInv
      <3>4. /\ row[ev[w]] = "claimed" /\ ev[w] < next
            /\ \A f \in Event : f < ev[w] => row[f] = "delivered"
        BY <3>2, QueueAssumption DEF HoldInv, RowsInv, Event
      <3>5. (Recorded(root, ev[w]) /\ root.last = ev[w]) \/ InOrder(WithEvent(root, ev[w]))
        BY <3>2, <3>3, <3>4, PlanExtends
      <3>6. \A v \in Worker : v # w => pc[v] \in {"idle", "drain"}
        BY <3>1, SoleHolder
      <3>7. /\ root' = root /\ UNCHANGED <<row, next, ev, alive>>
            /\ IF Recorded(root, ev[w]) /\ root.last = ev[w]
               THEN txn' = txn /\ pc' = [pc EXCEPT ![w] = "ack"]
               ELSE /\ txn' = [phase |-> "staging", stage |-> WithEvent(root, ev[w]), backup |-> Gone]
                    /\ pc' = [pc EXCEPT ![w] = "staged"]
        BY <2>5, <3>1 DEF PlanWrites, Goto
      <3>8. InOrder(root)'
        BY <3>3, <3>7 DEF InOrder
      <3>9. CASE Recorded(root, ev[w]) /\ root.last = ev[w]
        <4>1. txn' = NoTxn /\ pc' = [pc EXCEPT ![w] = "ack"]
          BY <3>1, <3>7, <3>9
        <4>2. Bundles' = {root}
          BY <3>1, <3>7, <4>1 DEF Bundles, NoTxn
        <4>3. /\ pc'[w] = "ack" /\ ev'[w] = ev[w]
              /\ \A v \in Worker : v # w => pc'[v] \in {"idle", "drain"}
          BY <3>6, <3>7, <4>1 DEF TypeOK
        <4>4. \A v \in Worker : Reached(v)'
          BY <3>1, <3>7, <3>9, <4>1, <4>3 DEF Reached
        <4> QED
          BY <3>7, <3>8, <4>2, <4>4 DEF OrderInv
      <3>10. CASE ~(Recorded(root, ev[w]) /\ root.last = ev[w])
        <4>1. txn' = [phase |-> "staging", stage |-> WithEvent(root, ev[w]), backup |-> Gone]
              /\ pc' = [pc EXCEPT ![w] = "staged"]
          BY <3>7, <3>10
        <4>2. Bundles' \subseteq {root, WithEvent(root, ev[w])}
          BY <3>7, <4>1 DEF Bundles
        <4>3. InOrder(WithEvent(root, ev[w]))'
          BY <3>5, <3>7, <3>10 DEF InOrder
        <4>4. WithEvent(root, ev[w]).last = ev[w]
          BY <3>2, WithEventBundle
        <4>5. /\ pc'[w] = "staged" /\ txn'.stage.last = ev'[w]
              /\ \A v \in Worker : v # w => pc'[v] \in {"idle", "drain"}
          BY <3>6, <3>7, <4>1, <4>4 DEF TypeOK
        <4>6. \A v \in Worker : Reached(v)'
          BY <4>5 DEF Reached
        <4> QED
          BY <3>7, <3>8, <4>2, <4>3, <4>6 DEF OrderInv
      <3> QED
        BY <3>9, <3>10
    <2>6. CASE WritePrepared(w)
      <3> SUFFICES ASSUME alive PROVE OrderInv'
        BY <2>6 DEF WritePrepared, OrderInv
      <3>1. Reached(w) /\ pc[w] = "staged"
        BY <2>6 DEF WritePrepared, OrderInv
      <3>2. \A v \in Worker : v # w => pc[v] \in {"idle", "drain"}
        BY <3>1, SoleHolder
      <3>3. \A v \in Worker : v # w => pc'[v] \in {"idle", "drain"}
        BY <2>6, <3>2 DEF WritePrepared, Goto, TypeOK
      <3>4. Reached(w)'
        BY <2>6, <3>1 DEF WritePrepared, Goto, Reached, TxnInv, NoTxn, TypeOK
      <3>5. /\ Bundles' \subseteq Bundles /\ alive' = alive /\ next <= next'
            /\ \A e \in Event : row'[e] = "delivered" <=> row[e] = "delivered"
        BY <2>6, QueueAssumption DEF WritePrepared, Goto, Bundles, NoTxn, TypeOK
      <3>6. \A v \in Worker : Reached(v)'
        BY <3>3, <3>4 DEF Reached
      <3> QED
        BY <3>5, <3>6, OrderCarries
    <2>7. CASE MoveToBackup(w)
      <3> SUFFICES ASSUME alive PROVE OrderInv'
        BY <2>7 DEF MoveToBackup, OrderInv
      <3>1. Reached(w) /\ pc[w] = "prepared"
        BY <2>7 DEF MoveToBackup, OrderInv
      <3>2. \A v \in Worker : v # w => pc[v] \in {"idle", "drain"}
        BY <3>1, SoleHolder
      <3>3. \A v \in Worker : v # w => pc'[v] \in {"idle", "drain"}
        BY <2>7, <3>2 DEF MoveToBackup, Goto, TypeOK
      <3>4. Reached(w)'
        BY <2>7, <3>1 DEF MoveToBackup, Goto, Reached, TxnInv, NoTxn, TypeOK
      <3>5. /\ Bundles' \subseteq Bundles /\ alive' = alive /\ next <= next'
            /\ \A e \in Event : row'[e] = "delivered" <=> row[e] = "delivered"
        BY <2>7, QueueAssumption DEF MoveToBackup, Goto, Bundles, NoTxn, TypeOK
      <3>6. \A v \in Worker : Reached(v)'
        BY <3>3, <3>4 DEF Reached
      <3> QED
        BY <3>5, <3>6, OrderCarries
    <2>8. CASE Activate(w)
      <3> SUFFICES ASSUME alive PROVE OrderInv'
        BY <2>8 DEF Activate, OrderInv
      <3>1. Reached(w) /\ pc[w] = "moved"
        BY <2>8 DEF Activate, OrderInv
      <3>2. \A v \in Worker : v # w => pc[v] \in {"idle", "drain"}
        BY <3>1, SoleHolder
      <3>3. \A v \in Worker : v # w => pc'[v] \in {"idle", "drain"}
        BY <2>8, <3>2 DEF Activate, Goto, TypeOK
      <3>4. Reached(w)'
        BY <2>8, <3>1 DEF Activate, Goto, Reached, TxnInv, NoTxn, TypeOK
      <3>5. /\ Bundles' \subseteq Bundles /\ alive' = alive /\ next <= next'
            /\ \A e \in Event : row'[e] = "delivered" <=> row[e] = "delivered"
        <4>1. /\ root' = txn.stage /\ txn' = [txn EXCEPT !.stage = Gone]
              /\ UNCHANGED <<row, next, alive>>
          BY <2>8 DEF Activate
        <4>2. Bundles' \subseteq Bundles
          BY <4>1 DEF Bundles, TypeOK
        <4>3. next \in Nat
          BY QueueAssumption DEF TypeOK
        <4> QED
          BY <4>1, <4>2, <4>3
      <3>6. \A v \in Worker : Reached(v)'
        BY <3>3, <3>4 DEF Reached
      <3> QED
        BY <3>5, <3>6, OrderCarries
    <2>9. CASE WriteCommitted(w)
      <3> SUFFICES ASSUME alive PROVE OrderInv'
        BY <2>9 DEF WriteCommitted, OrderInv
      <3>1. Reached(w) /\ pc[w] = "activated"
        BY <2>9 DEF WriteCommitted, OrderInv
      <3>2. \A v \in Worker : v # w => pc[v] \in {"idle", "drain"}
        BY <3>1, SoleHolder
      <3>3. \A v \in Worker : v # w => pc'[v] \in {"idle", "drain"}
        BY <2>9, <3>2 DEF WriteCommitted, Goto, TypeOK
      <3>4. Reached(w)'
        BY <2>9, <3>1 DEF WriteCommitted, Goto, Reached, TxnInv, NoTxn, TypeOK
      <3>5. /\ Bundles' \subseteq Bundles /\ alive' = alive /\ next <= next'
            /\ \A e \in Event : row'[e] = "delivered" <=> row[e] = "delivered"
        BY <2>9, QueueAssumption DEF WriteCommitted, Goto, Bundles, NoTxn, TypeOK
      <3>6. \A v \in Worker : Reached(v)'
        BY <3>3, <3>4 DEF Reached
      <3> QED
        BY <3>5, <3>6, OrderCarries
    <2>10. CASE RemoveTransaction(w)
      <3> SUFFICES ASSUME alive PROVE OrderInv'
        BY <2>10 DEF RemoveTransaction, OrderInv
      <3>1. Reached(w) /\ pc[w] = "committed"
        BY <2>10 DEF RemoveTransaction, OrderInv
      <3>2. \A v \in Worker : v # w => pc[v] \in {"idle", "drain"}
        BY <3>1, SoleHolder
      <3>3. \A v \in Worker : v # w => pc'[v] \in {"idle", "drain"}
        BY <2>10, <3>2 DEF RemoveTransaction, Goto, Unlock, TypeOK
      <3>4. Reached(w)'
        BY <2>10, <3>1 DEF RemoveTransaction, Goto, Unlock, Reached, TxnInv, NoTxn, TypeOK
      <3>5. /\ Bundles' \subseteq Bundles /\ alive' = alive /\ next <= next'
            /\ \A e \in Event : row'[e] = "delivered" <=> row[e] = "delivered"
        BY <2>10, QueueAssumption DEF RemoveTransaction, Goto, Unlock, Bundles, NoTxn, TypeOK
      <3>6. \A v \in Worker : Reached(v)'
        BY <3>3, <3>4 DEF Reached
      <3> QED
        BY <3>5, <3>6, OrderCarries
    <2>11. CASE ApplyFails(w)
      <3>1. Bundles' \subseteq Bundles
        BY <2>11, ApplyFailsBundles
      <3>2. /\ alive' = alive /\ next <= next'
            /\ \A e \in Event : row'[e] = "delivered" <=> row[e] = "delivered"
        BY <2>11, QueueAssumption DEF ApplyFails, TypeOK
      <3>3. pc[w] \notin {"idle", "drain"} /\ pc' = [pc EXCEPT ![w] = "release"]
        BY <2>11 DEF ApplyFails, Goto, Fenced, LocalsInv
      <3>4. ASSUME alive, NEW v \in Worker PROVE pc'[v] \in {"idle", "drain", "release"}
        <4>1. CASE v = w
          BY <3>3, <4>1 DEF TypeOK
        <4>2. CASE v # w
          <5>1. pc[v] \in {"idle", "drain"}
            BY <3>3, <3>4, <4>2, SoleHolder
          <5> QED
            BY <3>3, <4>2, <5>1 DEF TypeOK
        <4> QED
          BY <4>1, <4>2
      <3>5. alive => \A v \in Worker : Reached(v)'
        BY <3>4 DEF Reached
      <3> QED
        BY <3>1, <3>2, <3>5, OrderCarries
    <2>12. CASE MarkDelivered(w)
      <3> SUFFICES ASSUME alive PROVE OrderInv'
        BY <2>12 DEF MarkDelivered, OrderInv
      <3>1. /\ pc[w] = "ack" /\ ev[w] \in Event
            /\ root # Gone /\ root.last = ev[w] /\ txn = NoTxn
        BY <2>12, HeldEvent DEF MarkDelivered, OrderInv, Reached
      <3>0. /\ row[ev[w]] = "claimed" /\ ev[w] < next
            /\ \A f \in Event : f < ev[w] => row[f] = "delivered"
        BY <3>1, QueueAssumption DEF HoldInv, RowsInv, Event
      <3>2. /\ row' = [row EXCEPT ![ev[w]] = "delivered"]
            /\ UNCHANGED <<root, txn, next, alive>>
        BY <2>12, <3>0 DEF MarkDelivered
      <3>3. Bundles = {root} /\ Bundles' = {root}
        BY <3>1, <3>2 DEF Bundles, NoTxn
      <3>4. InOrder(root) /\ root \in Bundle
        BY <3>1, <3>3, BundlesType DEF OrderInv, TypeOK
      <3>5. InOrder(root)'
        <4>1. root.last = ev[w] /\ \A e \in Event : e \in Nat
          BY <3>1, QueueAssumption DEF Event
        <4>2. \A e \in Event : row'[e] = "delivered" <=> row[e] = "delivered" \/ e = ev[w]
          BY <3>1, <3>2 DEF TypeOK
        <4>3. \A e \in Event : e < root.last => row'[e] = "delivered"
          BY <3>0, <3>1, <4>2
        <4>4. \A e \in Event : row'[e] = "delivered" => e <= root.last
          BY <3>4, <4>1, <4>2 DEF InOrder
        <4> QED
          BY <3>2, <3>4, <4>3, <4>4 DEF InOrder
      <3>6. \A v \in Worker : v # w => pc[v] \in {"idle", "drain"}
        BY <3>1, SoleHolder
      <3>7. \A v \in Worker : pc'[v] \in {"idle", "drain"}
        BY <2>12, <3>6 DEF MarkDelivered, Finished, Goto, TypeOK
      <3>8. \A v \in Worker : Reached(v)'
        BY <3>7 DEF Reached
      <3> QED
        BY <3>2, <3>3, <3>5, <3>8 DEF OrderInv
    <2>13. CASE AckFails(w)
      BY <2>13 DEF AckFails, Finished, Goto, Errs, TypeOK, LocalsInv, RowsInv, OrderInv,
         InOrder, Reached, Bundles, Event
    <2>14. CASE Release(w)
      <3>1. /\ row' = [row EXCEPT ![ev[w]] = IF @ = "claimed" THEN "pending" ELSE @]
            /\ ev' = [ev EXCEPT ![w] = 0] /\ pc'[w] \in {"idle", "drain"}
            /\ \A v \in Worker : v # w => pc'[v] = pc[v]
            /\ UNCHANGED <<root, txn, next, alive>>
        BY <2>14 DEF Release, Finished, Goto, TypeOK
      <3>2. \A e \in Event : row'[e] = "delivered" <=> row[e] = "delivered"
        BY <3>1 DEF TypeOK
      <3>3. Bundles' = Bundles /\ next <= next'
        BY <3>1, QueueAssumption DEF Bundles, TypeOK
      <3>4. ASSUME alive, NEW v \in Worker PROVE Reached(v)'
        <4>1. Reached(v)
          BY <3>4 DEF OrderInv
        <4>2. v # w => pc'[v] = pc[v] /\ ev'[v] = ev[v]
          BY <3>1 DEF TypeOK
        <4> QED
          BY <3>1, <4>1, <4>2 DEF Reached
      <3> QED
        BY <3>1, <3>2, <3>3, <3>4, OrderCarries
    <2> QED
      BY <1>1, <2>1, <2>2, <2>3, <2>4, <2>5, <2>6, <2>7, <2>8, <2>9, <2>10, <2>11, <2>12, <2>13,
         <2>14 DEF Work
  <1>2. CASE Enqueue
    <2>1. /\ Bundles' \subseteq Bundles /\ alive' = alive /\ next <= next'
          /\ \A e \in Event : row'[e] = "delivered" <=> row[e] = "delivered"
      BY <1>2, QueueAssumption DEF Enqueue, Append, Bundles, TypeOK, RowsInv, Event
    <2>2. alive => \A v \in Worker : Reached(v)'
      BY <1>2 DEF Enqueue, Append, OrderInv, Reached, TypeOK, LocalsInv
    <2> QED
      BY <2>1, <2>2, OrderCarries
  <1>3. CASE ReclaimStale
    BY <1>3 DEF ReclaimStale, TypeOK, LocalsInv, RowsInv, OrderInv, InOrder, Reached, Bundles, Event
  <1>4. CASE Recover
    <2>1. Bundles' \subseteq Bundles
      BY <1>4, RecoverBundles
    <2>2. /\ UNCHANGED <<alive, pc, ev, next>>
          /\ \A e \in Event : row'[e] = "delivered" <=> row[e] = "delivered"
      BY <1>4 DEF Recover
    <2>0. next <= next'
      BY <2>2, QueueAssumption DEF TypeOK
    <2>3. alive => \A v \in Worker : pc[v] \in {"idle", "drain", "recover"}
      <3>1. CASE ~up
        BY <3>1 DEF LocalsInv
      <3>2. CASE fence \in Worker /\ pc[fence] = "recover"
        <4> SUFFICES ASSUME alive, NEW v \in Worker, pc[v] \notin {"idle", "drain"}
                     PROVE  pc[v] = "recover"
          OBVIOUS
        <4>1. v = fence
          BY <3>2, SoleHolder
        <4> QED
          BY <3>2, <4>1
      <3> QED
        BY <1>4, <3>1, <3>2 DEF Recover, Recovering
    <2>4. alive => \A v \in Worker : Reached(v)'
      BY <2>2, <2>3 DEF Reached
    <2> QED
      BY <2>0, <2>1, <2>2, <2>4, OrderCarries
  <1>5. ASSUME NEW e \in Event, Expire(e) PROVE OrderInv'
    BY <1>5 DEF Expire, TypeOK, LocalsInv, RowsInv, OrderInv, InOrder, Reached, Bundles, Event
  <1>6. CASE BlockQueue
    BY <1>6 DEF BlockQueue, TypeOK, LocalsInv, RowsInv, OrderInv, InOrder, Reached, Bundles, Event
  <1>7. CASE AcquireFence
    BY <1>7 DEF AcquireFence, TypeOK, LocalsInv, RowsInv, OrderInv, InOrder, Reached, Bundles, Event
  <1>8. CASE CommitDelete
    BY <1>8 DEF CommitDelete, TypeOK, LocalsInv, RowsInv, OrderInv, InOrder, Reached, Bundles, Event
  <1>9. CASE DeleteFails
    BY <1>9 DEF DeleteFails, Unlock, Errs, TypeOK, LocalsInv, RowsInv, OrderInv, InOrder,
       Reached, Bundles, Event
  <1>10. CASE DiscardUnconsumed
    BY <1>10 DEF DiscardUnconsumed, Discarded, Open, Unlock, Errs, TypeOK, LocalsInv, RowsInv,
       OrderInv, InOrder, Reached, Bundles, Event
  <1>11. CASE CancelDelete
    BY <1>11 DEF CancelDelete, TypeOK, LocalsInv, RowsInv, OrderInv, InOrder, Reached, Bundles,
       Event
  <1>12. CASE UndoBlock
    BY <1>12 DEF UndoBlock, TypeOK, LocalsInv, RowsInv, OrderInv, InOrder, Reached, Bundles, Event
  <1>13. CASE Crash
    BY <1>13 DEF Crash, TypeOK, LocalsInv, RowsInv, OrderInv, InOrder, Reached, Bundles, Event
  <1>14. CASE Boot
    BY <1>14 DEF Boot, Discarded, Open, TypeOK, LocalsInv, RowsInv, OrderInv, InOrder, Reached,
       Bundles, Event
  <1>15. CASE UNCHANGED vars
    BY <1>15 DEF TypeOK, LocalsInv, RowsInv, OrderInv, InOrder, Reached, Bundles, Event
  <1> QED
    BY <1>1, <1>2, <1>3, <1>4, <1>5, <1>6, <1>7, <1>8, <1>9, <1>10, <1>11, <1>12, <1>13, <1>14,
       <1>15 DEF Next, Delete

-----------------------------------------------------------------------------
(* The theorems about deletion and about order.                            *)

\* With at most one delete: what a committed delete leaves behind is an
\* invariant on top of the basic one.
LEMMA GoneInvariant == MaxDeletes <= 1 => (Spec => [](BaseInv /\ GoneInv))
  <1> SUFFICES ASSUME MaxDeletes <= 1 PROVE Spec => [](BaseInv /\ GoneInv)
    OBVIOUS
  <1>1. Init => GoneInv
    BY DEF Init, GoneInv, NothingQueuedForTheDeleted
  <1>2. BaseInv /\ GoneInv /\ [Next]_vars => GoneInv'
    BY GoneStep
  <1> QED
    BY <1>1, <1>2, BaseInit, BaseStep, PTL DEF Spec

\* The first delete of an agent is clean, however it interleaves with the
\* workers, its own cancellation, a crash and a boot: nothing of the agent's
\* knowledge and, but for a failure, nothing in its queue outlives the commit
\* (AgentRegistry::delete, DeleteBlockRollback, initialize_agent_persistence).
THEOREM DeletionIsClean == MaxDeletes <= 1 => (Spec => []DeleteIsClean)
  <1>1. BaseInv /\ GoneInv => DeleteIsClean
    BY DEF BaseInv, GoneInv, DeleteIsClean, DeletedStaysDeleted
  <1> QED
    BY <1>1, GoneInvariant, PTL

\* Without stale claims of living workers: the queue is strict and the bundles
\* are prefixes of it.
LEMMA OrderInvariant == ~SlowApply => (Spec => [](BaseInv /\ HoldInv /\ OrderInv))
  <1> SUFFICES ASSUME ~SlowApply PROVE Spec => [](BaseInv /\ HoldInv /\ OrderInv)
    OBVIOUS
  <1>1. Init => HoldInv
    BY DEF Init, HoldInv
  <1>2. Init => OrderInv
    <2> SUFFICES ASSUME Init PROVE OrderInv
      OBVIOUS
    <2>1. Bundles = {Empty}
      BY BundleFacts DEF Init, Bundles, NoTxn
    <2>2. InOrder(Empty)
      BY QueueAssumption DEF Init, InOrder, Empty, Event
    <2>3. \A w \in Worker : Reached(w)
      BY DEF Init, Reached
    <2> QED
      BY <2>1, <2>2, <2>3 DEF OrderInv
  <1>3. BaseInv /\ HoldInv /\ [Next]_vars => HoldInv'
    BY HoldStep
  <1>4. BaseInv /\ BaseInv' /\ HoldInv /\ OrderInv /\ [Next]_vars => OrderInv'
    BY OrderStep DEF BaseInv
  <1> QED
    BY <1>1, <1>2, <1>3, <1>4, BaseInit, BaseStep, PTL DEF Spec

\* As long as the five-minute claims are not taken from a worker that is still
\* applying, the knowledge has each event once and in the order of the queue,
\* for any number of workers, crashes, failed steps and replays.
THEOREM EventsAreAppliedOnce ==
  ~SlowApply /\ MaxDeletes <= 1 => (Spec => []AppliedOnceInOrder)
  <1>1. BaseInv /\ GoneInv /\ OrderInv => AppliedOnceInOrder
    <2> SUFFICES ASSUME BaseInv, GoneInv, OrderInv, Settled # Gone
                 PROVE  /\ \A e \in Event : Settled.done[e] = IF e <= Settled.last THEN e ELSE 0
                        /\ Settled.last < next
      BY DEF AppliedOnceInOrder
    <2>1. CASE alive
      <3>1. Settled \in Bundles
        BY DEF Settled, Bundles
      <3> QED
        BY <2>1, <3>1 DEF OrderInv, InOrder
    <2>2. CASE ~alive
      BY <2>2 DEF GoneInv, Settled, NoTxn
    <2> QED
      BY <2>1, <2>2
  <1> QED
    BY <1>1, GoneInvariant, OrderInvariant, PTL
=============================================================================
