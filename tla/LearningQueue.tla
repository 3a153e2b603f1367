--------------------------- MODULE LearningQueue ---------------------------
(***************************************************************************)
(* The durable learning queue of one agent (agents/learning_queue.rs) with *)
(* the workers that drain it (learning.rs and deliver_through), the        *)
(* knowledge bundle its events are applied to (agents/knowledge.rs), the   *)
(* deletion of the agent by the registry (agents/registry.rs), and the     *)
(* boot that settles what a crash left (agents/bootstrap.rs).              *)
(*                                                                         *)
(* Events are their sequence numbers.  All of them write the same concept, *)
(* a skill's usage counter: planning event e reads the counter, records    *)
(* the new value as e's completion and writes it.  A bundle is therefore   *)
(* the last event written and the recorded value of every completed event. *)
(***************************************************************************)
EXTENDS Naturals, FiniteSets

CONSTANTS Worker,      \* the tasks that drain the queue
          Loop,        \* the daemon's own worker; the others run deliver_through
          NoOne,
          Gone,        \* no directory there
          MaxEvents,   \* bound on events
          MaxCrashes, MaxErrors, MaxDeletes,
          SlowApply    \* a claim may go stale although its worker is alive

ASSUME QueueAssumption ==
    /\ Loop \in Worker /\ NoOne \notin Worker
    /\ "delete" \notin Worker \cup {NoOne}
    /\ MaxEvents \in Nat /\ MaxCrashes \in Nat /\ MaxErrors \in Nat /\ MaxDeletes \in Nat
    /\ SlowApply \in BOOLEAN
    /\ Gone \notin [last : 0..MaxEvents, done : [1..MaxEvents -> Nat]]

VARIABLES up,          \* the daemon runs
          row,         \* agent_learning_queue: status of each event
          owner,       \* who claimed it
          stale,       \* claimed rows older than the stale window
          next,        \* agent_learning_state.next_sequence
          blocked,     \* agent_learning_state.enqueue_blocked
          fence,       \* holder of the agent's write fence
          root,        \* the active bundle
          txn,         \* the knowledge transaction directory
          pc, ev,      \* the workers: where they are, the event they hold
          goal,        \* the event deliver_through was called for
          del,         \* the registry's delete call
          undo,        \* its detached rollback task waits
          alive,       \* the agent is in the registry
          count        \* crashes, errors and deletes so far

queue   == <<row, owner, stale, next, blocked>>
bundle  == <<fence, root, txn>>
workers == <<pc, ev, goal>>
agent   == <<del, undo, alive>>
vars    == <<up, queue, bundle, workers, agent, count>>

Event == 1..MaxEvents
Empty == [last |-> 0, done |-> [e \in Event |-> 0]]
NoTxn == [phase |-> "none", stage |-> Gone, backup |-> Gone]

Open == {"pending", "claimed"}
Head == {e \in Event : row[e] \in Open /\ \A f \in Event : row[f] \in Open => e <= f}

Init ==
    /\ up = TRUE
    /\ row = [e \in Event |-> "none"] /\ owner = [e \in Event |-> NoOne]
    /\ stale = {} /\ next = 1 /\ blocked = FALSE
    /\ fence = NoOne /\ root = Empty /\ txn = NoTxn
    /\ pc = [w \in Worker |-> "idle"] /\ ev = [w \in Worker |-> 0]
    /\ goal = [w \in Worker |-> 0]
    /\ del = "idle" /\ undo = FALSE /\ alive = TRUE
    /\ count = [crashes |-> 0, errors |-> 0, deletes |-> 0]

Goto(w, l) == pc' = [pc EXCEPT ![w] = l]

\* An operation returns an error.
Errs == count.errors < MaxErrors /\ count' = [count EXCEPT !.errors = @ + 1]

-----------------------------------------------------------------------------
(* The queue: enqueue, claim_next, mark_delivered, release. *)

\* One Immediate transaction: the gate is read with the sequence.
Append ==
    /\ up /\ ~blocked /\ next \in Event
    /\ next' = next + 1
    /\ row' = [row EXCEPT ![next] = "pending"]
    /\ UNCHANGED <<owner, stale, blocked>>

Enqueue ==
    /\ Append
    /\ UNCHANGED <<up, bundle, workers, agent, count>>

\* deliver_through enqueues and drains until its own event is delivered.
DeliverThrough(w) ==
    /\ w # Loop /\ pc[w] = "idle" /\ Append
    /\ goal' = [goal EXCEPT ![w] = next]
    /\ Goto(w, "drain")
    /\ UNCHANGED <<up, bundle, ev, agent, count>>

Draining(w) == up /\ pc[w] = IF w = Loop THEN "idle" ELSE "drain"

\* Mutant: a worker passes over an event somebody else has claimed.
Claimable_Skips == {e \in Event : row[e] = "pending"}

\* claim_next resets stale claims, then hands out the head or nothing.
Claimable == {e \in Head : row[e] = "pending" \/ e \in stale}

Claim(w) ==
    /\ Draining(w) /\ ~blocked
    /\ \E e \in Claimable :
         /\ row' = [f \in Event |-> IF f = e THEN "claimed"
                                    ELSE IF f \in stale THEN "pending" ELSE row[f]]
         /\ owner' = [f \in Event |-> IF f = e THEN w ELSE IF f \in stale THEN NoOne ELSE owner[f]]
         /\ stale' = {}
         /\ ev' = [ev EXCEPT ![w] = e]
    /\ Goto(w, "claimed")
    /\ UNCHANGED <<up, next, blocked, bundle, goal, agent, count>>

\* deliver_through returns: its event is delivered, or 30 seconds have passed.
StopDraining(w) ==
    /\ up /\ pc[w] = "drain"
    /\ Goto(w, "idle") /\ goal' = [goal EXCEPT ![w] = 0]
    /\ UNCHANGED <<up, queue, bundle, ev, agent, count>>

\* Where a worker goes when it is done with an event: tick goes on, and
\* deliver_through loops unless this was its event or the apply failed.
Finished(w, ok) ==
    LET stay == ok /\ w # Loop /\ ev[w] # goal[w]
    IN /\ Goto(w, IF stay THEN "drain" ELSE "idle")
       /\ ev' = [ev EXCEPT ![w] = 0]
       /\ goal' = IF stay THEN goal ELSE [goal EXCEPT ![w] = 0]

\* mark_delivered asks only that the row is claimed, by whomever.
MarkDelivered(w) ==
    /\ up /\ pc[w] = "ack"
    /\ row' = [row EXCEPT ![ev[w]] = IF @ = "claimed" THEN "delivered" ELSE @]
    /\ owner' = [owner EXCEPT ![ev[w]] = IF row[ev[w]] = "claimed" THEN NoOne ELSE @]
    /\ stale' = stale \ {ev[w]}
    /\ Finished(w, row[ev[w]] \in {"claimed", "delivered"})
    /\ UNCHANGED <<up, next, blocked, bundle, agent, count>>

\* The acknowledgement itself fails: the row stays claimed until it is stale.
AckFails(w) ==
    /\ up /\ pc[w] = "ack" /\ Errs
    /\ Finished(w, FALSE)
    /\ UNCHANGED <<up, queue, bundle, agent>>

Release(w) ==
    /\ up /\ pc[w] = "release"
    /\ row' = [row EXCEPT ![ev[w]] = IF @ = "claimed" THEN "pending" ELSE @]
    /\ owner' = [owner EXCEPT ![ev[w]] = NoOne]
    /\ stale' = stale \ {ev[w]}
    /\ Finished(w, FALSE)
    /\ UNCHANGED <<up, next, blocked, bundle, agent, count>>

\* Five minutes have passed since the claim.
Expire(e) ==
    /\ row[e] = "claimed" /\ e \notin stale
    /\ SlowApply \/ \A w \in Worker : ev[w] # e
    /\ stale' = stale \cup {e}
    /\ UNCHANGED <<up, row, owner, next, blocked, bundle, workers, agent, count>>

\* reclaim_stale, at the start of every tick.
ReclaimStale ==
    /\ up /\ pc[Loop] = "idle" /\ stale # {}
    /\ row' = [e \in Event |-> IF e \in stale THEN "pending" ELSE row[e]]
    /\ owner' = [e \in Event |-> IF e \in stale THEN NoOne ELSE owner[e]]
    /\ stale' = {}
    /\ UNCHANGED <<up, next, blocked, bundle, workers, agent, count>>

-----------------------------------------------------------------------------
(* apply_claimed: under the agent's write fence, one bundle transaction.   *)

Unlock == fence' = NoOne

\* Mutant: the refusal of a blocked agent's event forgets the guard.
BeginApply_KeepsFence(w) ==
    /\ up /\ pc[w] = "claimed" /\ fence = NoOne
    /\ fence' = w
    /\ Goto(w, IF blocked THEN "release" ELSE "recover")
    /\ UNCHANGED <<up, queue, root, txn, ev, goal, agent, count>>

\* A block does not take the fence, so taking it and reading the gate is as
\* good as both at the moment the gate is read.
BeginApply(w) ==
    /\ up /\ pc[w] = "claimed" /\ fence = NoOne
    /\ fence' = IF blocked THEN NoOne ELSE w
    /\ Goto(w, IF blocked THEN "release" ELSE "recover")
    /\ UNCHANGED <<up, queue, root, txn, ev, goal, agent, count>>

Recovering ==
    \/ ~up /\ alive
    \/ fence \in Worker /\ pc[fence] = "recover"

\* Mutant: what is in the backup of a prepared transaction is thrown away.
Recover_DropsBackup ==
    /\ Recovering /\ txn # NoTxn
    /\ txn' = NoTxn
    /\ UNCHANGED <<up, queue, fence, root, workers, agent, count>>

\* recover_bundle_transactions, one file operation at a time: a directory
\* without manifest is reaped, a prepared one gives its backup back, a
\* committed one may still have to supply the bundle.
Recover ==
    /\ Recovering /\ txn # NoTxn
    /\ CASE txn.phase = "prepared" /\ txn.backup # Gone /\ root # Gone ->
              root' = Gone /\ txn' = txn
         [] txn.phase = "prepared" /\ txn.backup # Gone /\ root = Gone ->
              root' = txn.backup /\ txn' = [txn EXCEPT !.backup = Gone]
         [] txn.phase = "committed" /\ root = Gone /\ txn.stage # Gone ->
              root' = txn.stage /\ txn' = [txn EXCEPT !.stage = Gone]
         [] OTHER -> txn' = NoTxn /\ root' = root
    /\ UNCHANGED <<up, queue, fence, workers, agent, count>>

Counter(b) == IF b.last = 0 THEN 0 ELSE b.done[b.last]

\* .learning-completions/<event>.yaml is there.
Recorded(b, e) == b.done[e] # 0

\* The bundle with e's completion written, planned now or recorded before.
WithEvent(b, e) ==
    [last |-> e, done |-> [b.done EXCEPT ![e] = IF Recorded(b, e) THEN @ ELSE Counter(b) + 1]]

\* ensure_bundle_at, the completion lookup, completion_matches: either there
\* is nothing to do, or the new bundle is staged in a transaction directory.
PlanWrites(w) ==
    LET b == IF root = Gone THEN Empty ELSE root
    IN /\ up /\ pc[w] = "recover" /\ fence = w /\ txn = NoTxn
       /\ root' = b
       /\ IF Recorded(b, ev[w]) /\ b.last = ev[w]
          THEN Goto(w, "ack") /\ Unlock /\ txn' = txn
          ELSE /\ Goto(w, "staged")
               /\ txn' = [phase |-> "staging", stage |-> WithEvent(b, ev[w]), backup |-> Gone]
               /\ fence' = fence
       /\ UNCHANGED <<up, queue, ev, goal, agent, count>>

\* write_bundle_manifest(Prepared).
WritePrepared(w) ==
    /\ up /\ pc[w] = "staged"
    /\ txn' = [txn EXCEPT !.phase = "prepared"]
    /\ Goto(w, "prepared")
    /\ UNCHANGED <<up, queue, fence, root, ev, goal, agent, count>>

MoveToBackup(w) ==
    /\ up /\ pc[w] = "prepared"
    /\ root' = Gone /\ txn' = [txn EXCEPT !.backup = root]
    /\ Goto(w, "moved")
    /\ UNCHANGED <<up, queue, fence, ev, goal, agent, count>>

Activate(w) ==
    /\ up /\ pc[w] = "moved"
    /\ root' = txn.stage /\ txn' = [txn EXCEPT !.stage = Gone]
    /\ Goto(w, "activated")
    /\ UNCHANGED <<up, queue, fence, ev, goal, agent, count>>

WriteCommitted(w) ==
    /\ up /\ pc[w] = "activated"
    /\ txn' = [txn EXCEPT !.phase = "committed"]
    /\ Goto(w, "committed")
    /\ UNCHANGED <<up, queue, fence, root, ev, goal, agent, count>>

RemoveTransaction(w) ==
    /\ up /\ pc[w] = "committed"
    /\ txn' = NoTxn /\ Unlock
    /\ Goto(w, "ack")
    /\ UNCHANGED <<up, queue, root, ev, goal, agent, count>>

\* A step of the transaction fails: the apply gives up and the claim will be
\* released.  After the activation failed the backup is renamed back, and
\* after the marker failed (which may be durable all the same) the stage is
\* put aside first; either restore may fail in turn, and a transaction that
\* was not restored is left for recover_bundle_transactions.
ApplyFails(w) ==
    /\ up /\ fence = w /\ Errs
    /\ CASE pc[w] = "moved" ->
              \/ root' = txn.backup /\ txn' = NoTxn
              \/ UNCHANGED <<root, txn>>
         [] pc[w] = "activated" ->
              \E marker \in {"prepared", "committed"} :
                 \/ root' = txn.backup /\ txn' = NoTxn
                 \/ root' = txn.backup /\ txn' = [phase |-> marker, stage |-> root, backup |-> Gone]
                 \/ root' = Gone /\ txn' = [txn EXCEPT !.phase = marker, !.stage = root]
                 \/ root' = root /\ txn' = [txn EXCEPT !.phase = marker]
         [] OTHER -> UNCHANGED <<root, txn>>
    /\ Unlock /\ Goto(w, "release")
    /\ UNCHANGED <<up, queue, ev, goal, agent>>

-----------------------------------------------------------------------------
(* AgentRegistry::delete and DeleteBlockRollback.                          *)

\* block, then arm.
BlockQueue ==
    /\ up /\ alive /\ del = "idle" /\ count.deletes < MaxDeletes
    /\ blocked' = TRUE
    /\ count' = [count EXCEPT !.deletes = @ + 1]
    /\ del' = "armed"
    /\ UNCHANGED <<up, row, owner, stale, next, bundle, workers, undo, alive>>

AcquireFence ==
    /\ up /\ del = "armed" /\ fence = NoOne
    /\ fence' = "delete" /\ del' = "fenced"
    /\ UNCHANGED <<up, queue, root, txn, workers, undo, alive, count>>

\* The registry transaction removes agents/<id>, knowledge and its
\* transaction directories included.
CommitDelete ==
    /\ up /\ del = "fenced"
    /\ alive' = FALSE /\ root' = Gone /\ txn' = NoTxn
    /\ del' = "deleted"
    /\ UNCHANGED <<up, queue, fence, workers, undo, count>>

\* The registry transaction fails: rollback(false) reopens the gate at once.
DeleteFails ==
    /\ up /\ del = "fenced" /\ Errs
    /\ Unlock /\ blocked' = FALSE /\ del' = "idle"
    /\ UNCHANGED <<up, row, owner, stale, next, root, txn, workers, undo, alive>>

\* discard_unconsumed deletes the rows that are pending or claimed.
Discarded == [e \in Event |-> IF row[e] \in Open THEN "discarded" ELSE row[e]]

DiscardUnconsumed ==
    /\ up /\ del = "deleted"
    /\ \/ /\ row' = Discarded
          /\ owner' = [e \in Event |-> NoOne] /\ stale' = {} /\ count' = count
       \/ Errs /\ UNCHANGED <<row, owner, stale>>
    /\ Unlock /\ del' = "idle"
    /\ UNCHANGED <<up, next, blocked, root, txn, workers, undo, alive>>

\* Mutant: the caller drops the delete after its commit and the gate reopens.
CancelDelete_AfterCommit ==
    /\ up /\ del \in {"armed", "fenced", "deleted"}
    /\ fence' = IF del = "armed" THEN fence ELSE NoOne
    /\ del' = "idle" /\ undo' = TRUE
    /\ UNCHANGED <<up, queue, root, txn, workers, alive, count>>

\* The caller drops the delete before its commit: the armed task is told so.
CancelDelete ==
    /\ up /\ del \in {"armed", "fenced"}
    /\ fence' = IF del = "fenced" THEN NoOne ELSE fence
    /\ del' = "idle" /\ undo' = TRUE
    /\ UNCHANGED <<up, queue, root, txn, workers, alive, count>>

\* The detached task takes the fence and reopens the gate.
UndoBlock ==
    /\ up /\ undo /\ fence = NoOne
    /\ blocked' = FALSE /\ undo' = FALSE
    /\ UNCHANGED <<up, row, owner, stale, next, bundle, workers, del, alive, count>>

-----------------------------------------------------------------------------
(* Crash and boot.                                                         *)

Crash ==
    /\ up /\ count.crashes < MaxCrashes
    /\ count' = [count EXCEPT !.crashes = @ + 1]
    /\ up' = FALSE /\ fence' = NoOne
    /\ pc' = [w \in Worker |-> "idle"] /\ ev' = [w \in Worker |-> 0]
    /\ goal' = [w \in Worker |-> 0]
    /\ del' = "idle" /\ undo' = FALSE
    /\ UNCHANGED <<queue, root, txn, alive>>

\* initialize_agent_persistence: the bundle of a live agent is recovered, its
\* gate reopened; a blocked agent that is gone loses what is queued; stale
\* claims are reset.
Boot ==
    /\ ~up /\ (alive => txn = NoTxn)
    /\ up' = TRUE
    /\ blocked' = IF alive THEN FALSE ELSE blocked
    /\ LET discard == blocked /\ ~alive
           kept == IF discard THEN Discarded ELSE row
       IN /\ row' = [e \in Event |-> IF e \in stale /\ kept[e] = "claimed" THEN "pending" ELSE kept[e]]
          /\ owner' = [e \in Event |-> IF discard \/ e \in stale THEN NoOne ELSE owner[e]]
          /\ stale' = {}
    /\ UNCHANGED <<next, bundle, workers, agent, count>>

-----------------------------------------------------------------------------
Work(w) ==
    \/ DeliverThrough(w) \/ Claim(w) \/ StopDraining(w)
    \/ BeginApply(w) \/ PlanWrites(w) \/ WritePrepared(w) \/ MoveToBackup(w)
    \/ Activate(w) \/ WriteCommitted(w) \/ RemoveTransaction(w) \/ ApplyFails(w)
    \/ MarkDelivered(w) \/ AckFails(w) \/ Release(w)

Delete ==
    \/ BlockQueue \/ AcquireFence \/ CommitDelete \/ DeleteFails
    \/ DiscardUnconsumed \/ CancelDelete \/ UndoBlock

Next ==
    \/ Enqueue \/ ReclaimStale \/ Recover
    \/ \E w \in Worker : Work(w)
    \/ \E e \in Event : Expire(e)
    \/ Delete \/ Crash \/ Boot

\* The tasks of a running daemon run; the worker loop ticks; claims age; a
\* daemon that is down is started again.  Nobody has to enqueue or delete.
Fairness ==
    /\ \A w \in Worker :
         WF_vars(\/ BeginApply(w) \/ PlanWrites(w) \/ WritePrepared(w) \/ MoveToBackup(w)
                 \/ Activate(w) \/ WriteCommitted(w) \/ RemoveTransaction(w)
                 \/ MarkDelivered(w) \/ Release(w) \/ StopDraining(w))
    /\ WF_vars(Claim(Loop)) /\ WF_vars(ReclaimStale)
    /\ \A e \in Event : WF_vars(Expire(e))
    /\ WF_vars(Recover) /\ WF_vars(Boot)
    /\ WF_vars(AcquireFence \/ CommitDelete \/ DiscardUnconsumed) /\ WF_vars(UndoBlock)

Spec == Init /\ [][Next]_vars /\ Fairness

-----------------------------------------------------------------------------
Bundle == [last : 0..MaxEvents, done : [Event -> Nat]]

\* The type of the state: row states, claims, bundles and control points.
TypeOK ==
    /\ up \in BOOLEAN /\ blocked \in BOOLEAN /\ undo \in BOOLEAN /\ alive \in BOOLEAN
    /\ row \in [Event -> {"none", "pending", "claimed", "delivered", "discarded"}]
    /\ owner \in [Event -> Worker \cup {NoOne}] /\ stale \subseteq Event
    /\ next \in 1..(MaxEvents + 1)
    /\ fence \in Worker \cup {NoOne, "delete"}
    /\ root \in Bundle \cup {Gone}
    /\ txn \in [phase : {"none", "staging", "prepared", "committed"},
                stage : Bundle \cup {Gone}, backup : Bundle \cup {Gone}]
    /\ pc \in [Worker -> {"idle", "drain", "claimed", "recover", "staged", "prepared",
                          "moved", "activated", "committed", "ack", "release"}]
    /\ ev \in [Worker -> 0..MaxEvents] /\ goal \in [Worker -> 0..MaxEvents]
    /\ del \in {"idle", "armed", "fenced", "deleted"}
    /\ count \in [crashes : 0..MaxCrashes, errors : 0..MaxErrors, deletes : 0..MaxDeletes]

\* The bundle a reader gets: what recover_bundle_transactions would leave.
Settled ==
    IF txn.phase = "prepared" /\ txn.backup # Gone THEN txn.backup
    ELSE IF txn.phase = "committed" /\ root = Gone /\ txn.stage # Gone THEN txn.stage
    ELSE root

\* Whatever crashes, failed renames and replays happened, the bundle a reader
\* gets has the events in the order they were enqueued, each applied once: the
\* completed events are an initial segment of the queue, the e-th of them
\* counted the e-th use, and the concept holds the last of them
\* (learning_queue.rs: "strictly ordered", "cannot duplicate knowledge").
AppliedOnceInOrder ==
    Settled # Gone =>
        /\ \A e \in Event : Settled.done[e] = IF e <= Settled.last THEN e ELSE 0
        /\ Settled.last < next

\* A row is marked delivered only when its effect survives every crash that
\* can follow: as long as the agent is there, so is the completion.
DeliveredIsRecorded ==
    alive => \A e \in Event : row[e] = "delivered" => /\ Settled # Gone
                                                      /\ Recorded(Settled, e)

\* Once the delete has committed, no late worker, replay or recovery brings
\* the agent's knowledge back (the apply fence and the durable block).
DeletedStaysDeleted == ~alive => root = Gone /\ txn = NoTxn

\* The rows of a deleted agent are gone once nothing has failed and nobody is
\* in the middle of a step: no worker is left retrying for it.
NothingQueuedForTheDeleted ==
    ~alive /\ up /\ del = "idle" /\ count.errors = 0 => \A e \in Event : row[e] \notin Open

\* A delete is clean at every step, whoever was working for the agent: nothing of
\* its knowledge and nothing in its queue outlives it.
DeleteIsClean ==
    TypeOK /\ DeletedStaysDeleted /\ NothingQueuedForTheDeleted

\* An accepted event is applied and acknowledged, unless the agent goes.
EventuallySettled ==
    \A e \in Event : (row[e] \in Open) ~> (row[e] \notin Open \/ ~alive)
=============================================================================
