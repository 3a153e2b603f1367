# Formal model of Ryuzi's core

Ryuzi is a local agent harness. A daemon (`crates/core`) owns sessions in a SQLite store,
runs agent turns against language models through its own router, gates tools behind
approvals, lets agents delegate to other agents, and serves a desktop app
(`apps/cockpit`), a command line (`crates/control`) and messaging gateways.

This directory models the parts that carry its concurrency and its recovery from failure:
delegation, the lifecycle of a session with its prompt queue, the turn loop with approvals,
steering and compaction, the journalled agent registry, the learning queue and the knowledge
bundle it writes, the scheduler with the background rail, and the self-update. All paths
below are relative to `crates/core/src/` unless they start with `crates/`, `apps/` or
`plugins/`.

## 1. Inventory

| Component | State it keeps | Operations | Hard part | Status |
|---|---|---|---|---|
| Delegation runtime (`delegation.rs`) | `agent_runs` rows; maps `live` and `terminal`; the admission mutex; a broadcast channel | begin, queue, retry, transition, cancel, await, restart | admission races, cancellation against admission, lagging receivers | modelled |
| Session lifecycle (`control.rs`, `control/lifecycle.rs`) | session row; maps `running` and `starting`; drain latch | start, continue, resume, stop, end, drain | every await is an interleaving point; one status for all turns; crash and resume | most of it |
| Prompt queue (`store.rs`) | `session_prompt_queue` | enqueue, remove, claim, restore, delete, recover | claim without an owner, order, lost wake-up | modelled |
| Native harness (`harness/native/mod.rs`, `runner.rs`) | `turn_lock`, `live_cancel`, `deps`, ledger | send_prompt, refresh, cancel, end, the loop of a turn | cancellation at any await; a history the provider accepts after any cut | loop, lock and tokens |
| Context and compaction (`harness/native/context_manager/`) | checkpoints, the persisted window | compact, replace_all, overflow | nothing said is lost; an overflow is not repeated | modelled, sizes abstracted |
| Approvals (`approval.rs`, `harness/native/permission.rs`) | pending map, rows | register, resolve, resolve_session | late registration, late and repeated answers | modelled |
| Steering (`harness/native/steer.rs`) | buffer | push, drain | a push beside each of the loop's exits | modelled |
| Agent registry (`agents/transaction.rs`, `registry.rs`, `bootstrap.rs`) | files, a journal, a cached image with its generation | mutate, prepare, commit, roll back, replay, boot | a crash or an error at every disk operation | all but a reset |
| Learning queue and knowledge (`agents/learning_queue.rs`, `agents/knowledge.rs`) | rows with claims that go stale; a bundle and its transaction directory | enqueue, claim, apply, acknowledge, reclaim, delete | exactly-once effect through crashes; a delete that is cancelled | modelled |
| Scheduler (`scheduler.rs`) | job and run rows, anchors | tick, fire, watch, report, edit, restart | stale reads across awaits, double fire | one job |
| Background rail (`background_rail.rs`) | `background_events` | claim when idle, deliver, mark, release | claim does not reserve; a crash between the steps | modelled |
| Self-update (`update/`, `crates/control/src/daemon_cmd.rs`) | binaries, hand-off file, status file, lock | stage, canary, swap, promote, roll back | two processes with deadlines | modelled |
| Daemon boot (`daemon.rs`) | phase | recover claims, reconcile, deliver | order of the phases | per component |
| Automation (`automation.rs`) | hook origins and runs | fire, cap, record | origin recorded after the session starts | planned |
| OAuth refresh (`llm_router/oauth/refresh.rs`) | tokens, one lock per connection | refresh, force_refresh | single-use refresh tokens | planned |
| Route fallback (`llm_router/routes.rs`, `client.rs`, `quota.rs`) | targets, cooldowns | pick, fail over | order, exhaustion | planned |
| Pairing, ownership (`pairing.rs`, `sessions/ownership.rs`) | codes; owner of a session | mint, redeem; resolve | expiry, deleted owners | planned |
| Everything else (translation, plugins, MCP, artifacts, API, applications) | | | I/O and formats | not modelled |

How the parts interact. A client call enters `control/lifecycle.rs`. It inserts a primary
run through the delegation runtime, reserves the session row, finds or starts a harness, and
spawns a task that sends the prompt. That task runs the turn loop, which parks on approvals,
drains steers and appends to the store; then it ends the run, gives the session back and,
when it did, claims the next queued prompt. `stop_session` and `end_session` run beside it:
they cancel the startup token and the handle, deny pending approvals, sweep the delegation
trees, and write the final status. A scheduled job starts sessions the same way, and its
watcher, like a background child, reports through the rail, whose drainer starts turns in
idle chats. Every mutation of an agent goes through the registry's transactions, which swap
whole agent directories; learning events write into the same directories under a fence of
their own. The boot recovers registry transactions, knowledge transactions, runs, claims and
sessions before (or, for the scheduler's runs, while) clients and loops come in. Nothing but
the store's transactions, file locks, `turn_lock`, the admission mutex, the agents' fences
and the maps' mutexes orders any of this.

`PROJECT.json` lists every component, and under `hazards` what can go wrong at which line.

## 2. Modules

### Delegation

`Delegation.tla` models `delegation.rs` over `agent_runs`. A *Task* is a tokio task inside
one call; its `pc` is the await it resumes from. Calls that take the `admission` mutex hold
it from their first step to their last; the transitions `mark_running`, `complete`, `fail`
and `interrupt` do not take it. One call is several steps:

* admissions (`BeginPrimary`, `QueueMain`, `QueueSubagent`, `RetryChild`): the checks under
  the mutex, then `Insert`, then `Register` in the live map;
* a transition: the guarded update `Cas`, then `Unlive`, `Record`, `Announce`;
* `CancelChild`, and the sweep of a stop or an end (`SweepStart`, `SweepRoot`, `StopRoot`,
  `SweepDone`): one run at a time;
* `await_terminal` (*Waiter*): `Subscribe`, `CheckTerminal`, `CheckStore`, `Recv` on a
  broadcast channel of capacity `EventCap` that drops the oldest event of a slow receiver;
* `Restart`: memory is lost and `interrupt_incomplete_agent_runs` has run.

`anc` in a row is the ancestry that `tree()` collects by following `parent_run_id`, which is
never updated. `Insert` stands for `validate_agent_run` too, which repeats under the
transaction what the caller checked under the mutex. Executors may end any run they hold at
any time.

### SessionLifecycle

`SessionLifecycle.tla` models one session. A *Turn* is the task that carries one primary
run from the call that begins it to the end of `spawn_prompt`; the task that ends a turn
goes on to deliver the next queued prompt, so the same Turn then carries a new run. Its
`pc` follows the awaits of the code:

* startup (`StartSession`, `RegisterStartup`, `PrepareWorkspace`, `RecordWorkspace`,
  `Checkpoint`, `StartHarness`, `Unwind`, `LeaveStartup`) for project and chat sessions;
* continuation (`Continue`, `Reserve`, `AwaitStartup`, `StartHarness` or the live handle,
  `Refresh`, `Dispatch`), the mention coordinator (`Coordinate`), the turn (`BeginTurn`,
  `EndTurn`) and its end (`Complete`, `Settle`, `FailTurn`, `DemoteAndLeave`);
* error paths (`StartHarnessFails`, `FailRun`, `Unreserve`, `ResumeFails`, `Restore`);
* the queue (`Enqueue`, `RemovePrompt`, `Deliver`, `Admit`, `DeleteDelivered`), whose rows
  keep the position `COALESCE(MAX(position), 0) + 1` gave them;
* `stop_session` (`Stop` to `StopStatus`) and `end_session` (`End` to `EndTree`), in the
  order of their awaits;
* `Drain`, `Crash` and the boot (`RecoverClaims`, `Reconcile`, `BootDeliver`, `BootDone`).

Several harnesses can exist: `live` is the one in the `running` map, and a turn keeps the
one it took. `cfg` is the run a harness's `deps` name, which is what `refresh_primary_turn`
replaces; model, permissions and tools travel with it. `cut` says that the turn running on
a harness has been cancelled. `run[t]` is the row of the run that Turn `t` carries; a run
that is left active when its task ends stays there, and its Turn is not reused, so the
model shows what is left behind.

The set `Env` names what clients and the environment do in an instance (`"stop"`,
`"crash"`, `"fail"` for a harness or an admission that fails, `"error"` for a turn that
fails, `"timeout"` for the bounded wait, `"invalid"` for a project or agent that is gone,
`"early"` for a client that uses a session before the call that starts it has returned,
and so on). It only enables actions; a run without `"crash"` asks about executions without
crashes.

### TurnLoop

`TurnLoop.tla` models `run_turn` and `drive`. `pc` is the place in the loop: `AppendPrompt`,
`Iterate` (the budget, and the check of the token), `Request` (behind the compaction check),
then `Respond`, `StreamEnds` or `Overflow` with `RecordFull`; a batch runs call by call through `Gate`, `Ask`,
`Wake`, `Forget` and `Execute`; `AppendResults`, `AfterResults`, `EndTurn`, and the way out of
an exhausted window (`Spent`, `SummaryRequest`, `SummaryAnswer`, `Close`). Beside it run
`SendPrompt`, `PushSteer`, `ManualCompact`, `Answer`, `Crash` and `Boot`, and a stop in its
two halves, `StopCancel` and `StopDeny`.

A message is a record of what the user says in it, its tool uses, its tool results and, for
a summary, the texts the summarising model was shown. `Sanitized` is
`sanitize_tool_pairing`, `Replacement` what compaction keeps and what it summarises, `Load`
what a restart reads: the checkpoint and the turns after its boundary. `full`, `saved` and
`over` stand for the token counts: this request fills the window, the store says so, the
provider refused the history as it is. The record of a count is written with best effort
(`RecordFull`, `SaveCount`), a crash may come before it, and a turn that cannot read it starts
from an estimate which it may save over it (`SendPrompt`); `forgot` says that one of these
has befallen the overflow at hand. `lossy`, `gone` and `stale` mark what else the code
drops knowingly, so that the properties can name it.

### AgentRegistry and AtomicRegistry

`AgentRegistry.tla` models the agents directory path by path (one value per agent directory,
the index, the subagents file, the legacy memory directory), the transaction directories
with their journal phase, stage and backup, the registry file lock, and per process the
cached image with its generation. `Mutate` plans one of the mutations of `registry.rs` from
the cached image; `WriteJournal`, `MoveAside`, `Install`, `IndexAside`, `IndexWrite`,
`WriteMarker`, `HashCommitted` and `Publish` are the commit; `Scan`, `RollbackClear`,
`RollbackPath`, `ReplayPath` and `RemoveDir` are recovery; `Boot` to `SetMarker` the choice
between loading, first install and upgrade. A boot that loads appends a default agent when
none of the agents it found can run (`ReadGeneration`, `AppendDefault`); whether one can
depends on providers, routes and plugins, so any set of them may. A process may die after any of them (`Crash`),
also in the middle of removing a directory (`CrashRemoving`), and any of them may return an
error, which makes the code roll back at once (`CommitFails`) or give up (`SettleFails`).

`AtomicRegistry.tla` says what callers may rely on: one image that is replaced by whole
mutations of itself (`Mutate`), or gains the agent that a boot appends (`Repair`). `ImplementsAtomicRegistry` is the refinement. Its mapping `img` is the
image recovery would leave (`SettledDisk`), so a commit takes effect at its marker, and
every other step, every crash and every recovery is a stutter.

### LearningQueue and KnowledgeSwap

`LearningQueue.tla` is one agent's queue, the loop that drains it, callers of
`deliver_through`, and the bundle. Applying an event is `BeginApply` (the fence),
`PlanWrites`, `WritePrepared`, `MoveToBackup`, `Activate`, `WriteCommitted`,
`RemoveTransaction`, then `MarkDelivered` in the database; `Recover` is
`recover_bundle_transactions`, at boot or before the next apply. A claim can `Expire` and be
taken over (`ReclaimStale`). A delete closes the gate, takes the fence, commits and discards
(`BlockQueue` to `DiscardUnconsumed`); its caller may drop it at any await (`CancelDelete`),
and a detached task then reopens the gate (`UndoBlock`). All events write one counter, so
the bundle shows order and multiplicity.

`KnowledgeSwap.tla` composes it with a registry commit of any agent, which replaces every
agent directory by the copy it took when it was prepared.

### BackgroundRail and Scheduler

`BackgroundRail.tla` is the table, the drainer's pass (`Claim`, `DeliverTurn`,
`DeliverOutcome`, `Refuse`, `Mark`, `EndPass`) and what users do to the chats.
`Scheduler.tla` extends it with one job: `Tick`, `RunNow`, the task of a fire (the wake
gate, the insert of its run, the start of the session, the watch and its deadline, the
second read of the job, the report on the rail), a lost end event (`Miss`), the requests of
users, deletion, `Crash`, `Boot` and `Reconcile`, which comes after the loops have started.
A request reads the job row in one step (`BeginUpdate`, `BeginToggle`, `BeginPause`) and
upserts the whole of it, binding and flag included, in a later one (`Update`, `Flip`); a
toggle then sets the anchor (`Reanchor`). `choice` is the users' last word on the chat,
`since[r]` what it has been since run `r` was closed, and `restored` the chats to which the
upsert of a stale copy has bound the job again.

### SelfUpdate

`SelfUpdate.tla` has processes, each with the release it runs, and the four things they
share: `update.json`, `daemon.json`, the lock and the binaries. The applier's steps follow
`applier.rs` (`SpawnCanary`, `AwaitHealthy`, `Backup`, `Swap`, `Signal`, `StopOld`,
`HandOver`, or `RollBack`, `Restore`, `Respawn`, and `Abort`), the canary's follow
`canary.rs` (`Probe`, `Probed`, `SeePromote`, `PromoteTimeout`, `Promote`, `Promoted`,
`LateLock`). Deadlines may pass at any moment; users start and stop daemons (also a second
one), a process can be killed, the power can fail, a rename, a spawn or a boot can fail.

### Proof and instance modules

`DelegationProofs`, `DelegationCancelProofs`, `SessionLifecycleProofs`, `TurnLoopProofs`,
`LearningQueueProofs`, `AgentRegistryProofs`, `SchedulerProofs` and `SelfUpdateProofs` hold
the theorems; each extends the module it is about, and `DelegationCancelProofs` extends
`DelegationProofs`. The `MC` modules add symmetry sets and `Fits`, the bound of an instance: a
state constraint where only safety is checked, and a conjunct of the next-state relation where
liveness is, so that fairness is that of the bounded system.

## 3. Runs

### Passing

| Run | Bounds | Shows |
|---|---|---|
| `delegation_trees` | 3 runs of 3 agents, or 4 runs of one agent with one active; depth 1, 2 active children | `NoAncestryCycle`, `DepthBound`, `RetryIsChain`: no profile twice on a path, main depth bounded along retries and subagents too, retries unbranched |
| `delegation_races` | 3 runs, 2 tasks | `CapacityBound`, `CancellationInv`, `SweepCancelsListedTrees`, `TerminalIsFinal`, `TypeOK` |
| `delegation_await` | 2 runs, 1 task, 1 waiter, channel of 1; fair | `WaiterReturns`, `AdmissionIsReleased` |
| `lifecycle_queue` | 2 turns, 2 prompts, 3 harnesses, cap 1; continue, enqueue, remove, drain, crash, fail, error | `ClaimHasOwner`, `NoPromptDropped`, `RunningHasDriver`, `RunHasDriver`, `TypeOK` |
| `lifecycle_stop` | 2 turns, 1 prompt, 2 harnesses; start, continue, mention, enqueue, fail, and stops or an end | `StoppedStartupNeverPrompts`, `StopWins`, `WorktreeIsReclaimed` |
| `lifecycle_drains` | 2 turns, 2 prompts; continue, enqueue; fair | `QueueDrains` |
| `turn` | 2 prompts, 1 steer, 2 calls, window 1 with one continuation, 1 fault, 1 compaction, shared out by `Fits`; fair | `RequestIsPaired`, `NothingSaidIsLost`, `SteerIsKept`, `TurnInv`, `StopSettles`, `TurnEndsOrAsks` |
| `registry` | 1 process, 2 agents, 2 contents; installed: 2 transactions, 2 crashes, 1 error; fresh or legacy: 3 transactions, 1 crash, 1 error; fair | `ImplementsAtomicRegistry`, `RegistryInv`, `MemoryIsTradedForRegistry`, `EventuallyServes` |
| `learning` | 3 events, the loop and one caller, 2 crashes, 2 errors, 1 delete; fair | `AppliedOnceInOrder`, `DeliveredIsRecorded`, `DeleteIsClean`, `EventuallySettled` |
| `scheduler` | 2 fires, 1 delegation outcome, a usable chat and a broken one; two disturbances, or one outcome, or one crash; fair | `SchedulerInv`, `ReportIsWanted`, `JobFires`, `RowArrives` |
| `self_update` | 5 processes, 3 releases, 1 kill, 1 error; fair | `UpdateInv`, `PromotedIsInstalled`, `UpdateEnds` |

Six invariants are conjunctions of named parts: `CancellationInv` (`CancelIsComplete`,
`CancelledTokenFires`, `LiveChildIsActive`), `TurnInv` (`LedgerIsDurable`,
`NoOrphanedApproval`, `OverflowIsCompacted`, `TurnIsBounded`), `RegistryInv`
(`RecoveryNeverBails`, `GenerationVouchesForImage`), `DeleteIsClean`
(`DeletedStaysDeleted`, `NothingQueuedForTheDeleted`), `UpdateInv` (`RollbackIsPossible`)
and `SchedulerInv` (`RunIsOwned`, `SeenOnce`). The last five include the type invariant.

Why the bounds are enough. A tree of three runs has a root, a child and a grandchild or a
sibling, so every rule that relates a run to its parent, its root or a retried run has an
instance, and capacity 1 makes two admissions compete; a chain of retries needs a fourth
run and one agent. Two turns give every pair of overlapping continuations, deliveries and
startups; two harnesses are one for each, and the third in `lifecycle_queue` leaves a live
one that neither of them holds. Two prompts are what order, overtaking and a kick behind a claim
need. `MaxAttempts` is 3 in the code and 1 here: the counter is only compared with its cap.
In `turn`, either one turn has several calls, a steer and a fault and is not compacted, or
two turns have one call at a time, a compaction, and a steer or a fault; a compaction of a
batch of several calls is outside, for liveness too. In `registry`, a second transaction is what
finds the leftovers of the first, and a second crash interrupts the recovery from the first.
In `learning`, three events make an order that one replay can break, and two crashes
interrupt a recovery. In `scheduler`, what users do and what fails share a budget of two, so that any pair of them
happens; an outcome or a crash takes all of it. A toggle there asks for the other flag and
an update for another chat (`Telling`): a pause covers the requests that write back what
they read. In
`self_update`, five processes are a daemon, the canaries of two updates, a respawn and a
daemon the user starts.

`CHECK_DEADLOCK FALSE` is in every configuration but those of `Delegation`: without client
calls, and once the bounds are used up, these systems have nothing to do.

### Violation

| Run | Statement | What happens |
|---|---|---|
| `learning_swap` | what was acknowledged is recorded in the bundle | a registry commit puts back the copy of the agent's directory it took before the event was applied; `findings` quotes the lines |

### What the models also show

These bound what the passing properties claim. The named definitions are in the modules and
can be checked by putting them into a configuration.

Sessions (`SessionLifecycle`, with the `Env` given):

* turns of a session overlap: two cold resumes start two harnesses (`TurnsAreSerialized`,
  `{"continue"}`), and the first to end writes Idle under the second;
* the queue is advanced out of order: a failed delivery demotes before it restores its claim
  (`NoOvertaking`, `{"enqueue", "fail"}`);
* a prompt runs under the configuration of another: two refreshes come before the first send
  (`RunsAsItself`, `{"continue"}`);
* a worktree is removed under a turn that has not set its token when `end_session` cancels
  (`TeardownAfterTurns`, `{"start", "continue", "end"}`);
* a child retried under a root that has ended survives the sweep of `end_session`, which
  lists active roots only, so `SweepCancelsListedTrees` is about trees with an active root;
* a stopped session never leaves Interrupted, so a turn continued after a stop never shows
  as Running and its end delivers nothing from the queue;
* `resume_session` returns early for a session whose project or agent is gone and leaves it
  Running (`"invalid"` breaks `RunningHasDriver`);
* the mention coordinator of a turn that follows a stop returns without ending its root run
  (`"mention"` with `"stop"` breaks `RunHasDriver`);
* an `end_session` between the insert of the row and the registration of the startup token
  does not wait (`"early"`), and one whose wait times out goes on (`"timeout"`): both break
  `WorktreeIsReclaimed`.

Turns (`TurnLoop`):

* a tool call id is unique within one response only, and the approval key is made of it:
  the answer to an old card can settle a later call (`AnswerMatchesCall`);
* the second half of a stop can deny the first card of the next turn;
* a steer pushed while no turn runs, or after the last drain, goes into a later turn;
* a turn that was cancelled just as its window ran out still asks for a summary;
* a compaction whose own request overflows may drop the whole history (`lossy`);
* an overflow whose record was not written, or which one turn did not read, is tried once
  more before it is compacted (`forgot`): `OverflowIsCompacted` leaves that request out.

Registry (`AgentRegistry`):

* a first upgrade that dies after `index.yaml` was written and before its marker is refused
  by every later boot: the rollback has no backup of the index to put back, and
  `UpgradeEnds`, which states the comment of `bootstrap.rs`, is violated (by
  `SPECIFICATION Spec` with `Installs = {"upgrade"}`, one crash);
* with two processes the files of a load are read without the lock, and
  `GenerationVouchesForImage` is violated; nor does `append_default_ryuzi` compare the
  generation, so that it would write over a commit of the other process;
* a new installation is interrupted before its persistence marker, the next boot finds that
  its agent cannot run, and is interrupted in turn while it appends one and the index is
  moved aside: the boot after that takes the directory for a fresh install and writes an
  index of its own, and the agents there were are orphans. `ImplementsAtomicRegistry` is
  violated in 49 states (`Installs = {"fresh"}`, three agents, three transactions, two
  crashes); the run's fresh installs have one crash and two agents;
* errors at and behind the commit marker (`LateSpec`): a committed directory that a failed
  cleanup leaves is replayed at the next boot over what was committed since, and a marker
  that is durable although its sync failed is rolled back; both break `RegistryInv`.

Learning (`LearningQueue`):

* with `SlowApply = TRUE` a worker that outlives its claim replays an event after its
  successor; `AppliedOnceInOrder` is about workers that finish within the stale window;
* with two deletes, a cancelled one can reopen the gate of an agent the other one deleted.

Scheduler and rail:

* a crash between the claim and the mark strands the row: claims are never released at boot
  (`ClaimIsHeld`), so `RowArrives` leaves out rows that were claimed at a crash;
* run-now during the wake gate of a fire runs the job twice at once (`NoDoubleRun`);
* requests that cross undo one another: a toggle, a pause or a plugin's sync that has read
  the row before the user picks or clears the chat writes the old binding back, and the
  report goes there (`ChosenChatWins`, which is the comment of `deliver_to_home_chat` to the
  letter, without the exception that `ReportIsWanted` makes for `restored`); an upsert behind
  a deletion brings the job back (`DeletedStays`);
* a chat that is ended, or deleted, between its lookup and the enqueue still gets the row of
  the report, which waits there for ever: `RowArrives` leaves closed chats out;
* `Reconcile` comes after the loops have started and can fail a run of the new process;
* a chat that was stopped is never idle again and keeps its reports for ever; eight rows
  that fail in every pass (`MAX_PER_TICK`) starve the rest.

Self-update:

* two processes serve at once (`HandshakeExcludes`), a binary is swapped for a canary that
  never said it was healthy (`SwapNeedsHealthyCanary`), a canary takes the promotion of
  another update (`PromoteIsAddressed`), and a rollback may end with nobody serving
  (`RollbackRespawns`): the phases of `update.json` are read without their pid and release,
  and a canary that is given up may still live and hold what the next daemon needs. All
  four happen without a kill or an error.

That an errored or stopped turn does not deliver the queue is by design
(`control/tests.rs`), and `QueueDrains` is stated for instances without either.

### Fairness

tokio polls every task that is ready, its async mutexes are first come, first served, and a
turn has an iteration budget. So each Turn and each Task of the delegation and lifecycle
models gets strong fairness (a step that waits for a mutex is enabled again and again, and
the queue of the mutex serves it), and waiters and control steps get weak fairness. The
other models have weak fairness per task: the turn's own task with the provider and the
tools it awaits, a started registry call, each worker, each process of an update, each fire
of a job, the drainer. Loops poll, deadlines pass, claims age, and a daemon that died is
started again. Clients, users, cron times, approvals, faults and crashes get none. In
`SessionLifecycle` and in the chats of the rail, where a turn is one step or two, fairness
says that turns end: `QueueDrains` and `RowArrives` assume that a turn which is parked on an
approval, for which the code sets no deadline, is answered or stopped.
`QueueDrains` is stated for users who eventually stop sending prompts of their own: one who
keeps continuing the session just between a demotion and the claim behind it starves the
queue.

## 4. Theorems

The proofs hold for every value of the constants that satisfies the named assumptions of the
modules (`BoundsAssumption`, `SetsAssumption`, `EnvAssumption`, `DistinctAssumption`,
`QueueAssumption`, `RegistryAssumption`, `ImageAssumption`, `RailAssumption`,
`SchedulerAssumption`, `SelfUpdateAssumption`, and in `TurnLoop` `WindowAssumption`,
`AutoAssumption`, `NoTurnAssumption`, `CallAssumption`): that the bounds are numbers, a window
has at least one iteration, the sets the code keeps apart are disjoint, the tool calls of one
response are finitely many, and that `Env` is a set of the known names. A theorem that needs
more of the constants says so as a hypothesis.

**Delegation.** `TypeCorrect` needs `LocalsOK`: what a task knows at each `pc` (the run it
inserts is fresh, it holds the mutex). `CapacityIsBounded` and `AncestryIsAcyclic` come from
`TreeInv`: rows form a forest closed under ancestry (`TreeOK`), an admission that has
passed its checks and has not inserted yet still satisfies them (`PendingOK`, the reason
the mutex must span both), and the capacity of every tree with the pending insert counted
in (`CapacityOK`). Most steps neither add a row nor activate one; `StepShape` says so once
(`Quiet`) and `TreeQuiet` shows that such steps keep the invariant, so only admission and
insertion are argued in detail. `TerminalFinality` is an action property from the type
invariant.

**Delegation, rows and cancellations.** `DepthIsBounded` and `RetriesAreChains` come from
`RowsOK`: a row's ancestors leave room for its kind (`Shallow`), a retried run has ended,
sits under the same parent and is replaced once (`Replaces`), and both still hold of the
insert that is about to come (`PendingRow`). `CancellationIsComplete` needs `CancelInv`: as long as a
cancellation holds the mutex, the active runs below its target are on its list (`ListOK`),
what a task holds at each `pc` is in the state its next step expects (`HeldOK`), and the
token of a run is armed until the run is found by it (`TokenOK`). `SweepsAreComplete` adds
`SweepOK`: a run that a sweep saw active below a root it saw is still on the way
(`OnTheWay`), that is, its root is still listed, or its tree is being cancelled with the run
on the list, or it is the root that is stopped next.

**SessionLifecycle.** `Safety` proves `SafetyInv`, the conjunction of

* `TypeInv`: types, and a turn past the lookup has a handle;
* `BootInv`: while the daemon boots only the resumed turn and the boot's delivery exist, and
  nothing is stopping or ending the session (this is why the unconditional Idle that
  `ResumeFails` writes cannot undo a stop);
* `QueueInv`: two turns never hold the same prompt, a prompt in delivery is in the table,
  a row about to be deleted was handed to a turn; with it `ClaimHasOwner` and
  `NoPromptDropped` are inductive;
* `StartInv`: at most one startup task, registered in `starting` from its first phase to its
  dispatch, and a token cancelled in time stays cancelled until its next checkpoint.

`TypeCorrect`, `ClaimsAreOwned`, `PromptsAreKept` and `StartupIsStopped` follow. `StopIsFinal`
is an action property from `BootInv`. `RunsAreDriven` assumes that no turn has mentions,
`RunningIsDriven` that the project and the agent of a session still exist when it is resumed
(`"invalid"`), and `WorktreesAreReclaimed` that clients wait for the start call, that the
startup wait does not time out and that the daemon does not crash: section 3 says what happens
otherwise. `RunningIsDriven` needs `DriverInv`: a session that is Running has a turn on its
way to a demotion (`WillDemote`), a startup token is cancelled only by a stop or an end that
is in progress or has marked the session over, and a turn that reserves for a delivery is not
a user's.

**TurnLoop.** All its safety properties follow from one invariant, `LoopInv`, with a part per
concern, each proved by a step lemma of its own:

* `HistoryInv`: what the store holds (`Load`) is `Orderly`: the user starts it, makes no tool
  use and answers at most what the message before asked for. That is weaker than what the
  provider accepts, and it is what crashes, failed writes and interrupted batches leave; it
  also says what the last message is at each `pc`, so that the results of a batch fit;
* `ToolInv`, `ApprovalInv`: the call in hand is the batch's first, at most one tool runs after
  a stop, and the first reply takes the key out of the hub;
* `BudgetInv`: the windows granted so far pay for the requests made and the one about to be
  made; `OverflowInv`: an overflow that was not forgotten is on record in the store and in
  the turn until a compaction; `SteerInv`, `LifeInv`, `CountInv`.

`RequestsArePaired` then needs `SanitizedIsWellFormed`: an orderly history of any length that
ends with the user's message is sanitized to one the provider accepts. `WordsAreKept` needs
`CompactedInstalls`: what a compaction installs is orderly again and holds all the texts of
what was shown to it. Both are facts about `FlattenSeq`, which is recursive. They are proved by
induction over the length, without an induction theorem that takes an operator: the numbers
for which a statement holds are a set, and `SetInduction` says of sets that one which has 0 and
every successor has every number, because a non-empty set of naturals has a least element.
`FlattenElements` (which elements a concatenation has) and `FlattenChained` (that parts whose
ends fit make a whole whose neighbours fit) are all that is needed of it.

**LearningQueue.** `BaseInvariant` has the types, who holds the fence and an event
(`LocalsInv`), what rows exist (`RowsInv`), the phase of the transaction directory at each
`pc` of the worker that holds the fence, with a bundle that recovery can settle at all times
(`TxnInv`), and that every bundle which may become the active one, be it the root, the stage
or the backup, records the delivered events (`RecordInv`). From it follows
`DeliveriesAreRecorded`, with no hypothesis. `DeletionIsClean` adds `GoneInv` and assumes
`MaxDeletes <= 1`, because a second delete that is dropped reopens the gate of the first.
`EventsAreAppliedOnce` adds `HoldInv` (one worker holds an event, and all before it are
delivered) and `OrderInv` (each of those bundles has a prefix of the queue, each event
once); it assumes that and `~SlowApply`, a worker that ends within the stale window.

**AgentRegistry.** `RegistryIsSound`, `MemoryIsTraded` and the refinement
`RegistryRefinesAtomic` come from one invariant, `IInv(p)`, for any agents, contents, crashes,
errors and transactions:

* `PlanInv`, `LockInv`, `DirInv`: what a boot is for at each `pc`, who holds the lock, and that
  there is at most one transaction directory, in the phase the `pc` says;
* `JournalInv`: each journal is legible (`OpsOK`), a prepared one can put back what is gone
  (`PreparedOK`), a committed one has everything in place (`CommittedOK`): this is what makes
  rollback and replay idempotent, and `RecoveryNeverBails` is read off it;
* `CommitInv`, `RollbackInv`: which paths are moved aside, staged and installed at each point of
  a commit, and which a rollback has put back already;
* `SettledInv`: the image recovery would leave is whole or has no agents at all, and how the
  persistence marker and the legacy settings go with it;
* `ViewInv`: the image a process has read is the one on disk, and its candidate is a
  successor of it, by a mutation or by an appended agent.

`StepImage` says what a step may do to the image that recovery would leave: nothing, except that
the marker replaces it by a successor of itself, or by the first whole one. Every step lemma
proves it together with the invariant, and `RegistryRefinesAtomic` follows by `AtomicNext`.
The theorems are about one process, which the daemon lock grants, and have two hypotheses.
`RollbackEnds`: no second error strikes the rollback of a failed mutation in a process that
goes on serving; such an error leaves the prepared journal behind, and the instance serves on
above it. `InstalledAgentRuns`: the agent of a new installation can run, in that no boot
appends another one before the installation has its persistence marker; section 3 says what
happens otherwise. `OneErrorIsRolledBack` shows that with at most one error, as in the run, the
first hypothesis follows from the second.

**Scheduler and rail.** `RunsAreOwnedAndRowsSeenOnce` and `ReportsAreWanted` share the
invariant `Base`: what has reached its chat can neither be claimed nor be given back nor be
in hand (`RailInv`), a report is posted by the task of its run at its end, with an address
that the users have chosen since or that a stale upsert has put back (`ReportInv`), the
binding of the job is the users' choice but for such an upsert (`BindingInv`), and
`RunIsOwned` is inductive beside them.

**SelfUpdate.** `RollbackStaysPossible` and `PromotionIsInstalled` come from one invariant:
the parties of an update exist and have a release (`ProcInv`, `PartiesInv`), the binaries are
where the applier's step says (`BinariesInv`), a free process id remains for each spawn that
an update may still need (`ReserveInv`, which is about the bound of the model), and whose
signal `update.json` holds at each step (`SignalInv`): no promotion before the swap, none
but the own canary's after it, and the canary is dead before the old binary is put back.

**Only model-checked**: the errors at and behind the commit marker of `AgentRegistry`
(`LateSpec`), which violate `RegistryInv`; and liveness, which is out of the prover's reach, as is
`ENABLED`. Every invariant and every action property of the passing runs is stated by a theorem.

## 5. Not modelled

In the lifecycle and delegation models, and in those of the scheduler and the rail: SQLite
errors (each store call succeeds). The code drops the error of `finalize_run`
(`scheduler.rs:850`), which `RunIsOwned` and `JobFires` need to succeed, and those of the mark
and the release of a row (`background_rail.rs:69`, `:84`).

In the lifecycle and delegation models: a request future dropped by its client in the middle of
a call; the children of explicit mentions (the delegation model has their runs, the lifecycle
model their coordinator); attachments and events; several sessions at once (they share only the
drain latch and the boot loop).

In the turn model: token counts, retries of one provider request, the content of tools,
subagents, and a provider stream that stalls (a stop does not interrupt it, only its own
deadline). In the registry model: the content of files and directories, a torn write below
one disk operation, and two errors in a row; `reset_agent_registry` (`bootstrap.rs:318`),
which installs the defaults over whatever there is and which only a test calls; and the
backfill of a pet (`registry.rs:439`), a mutation that a boot makes once and may fail to make. In the learning model: a delete that is dropped
inside the very call that closes the gate, which then stays closed until the next boot. In
the update model: the download and its verification, and what a canary's boot does to the
store beside the serving daemon. In the scheduler model: cron arithmetic and time zones
(a job is due or not), retention, several jobs, and the git of `diff_totals`, which runs
outside the two hours of the watcher without a timeout and is taken to return.

Not modelled at all: translation between provider formats, plugins, MCP servers, skills,
tools, artifacts, HTTP and RPC layers, the applications. They are I/O, formats and user
interface; their control state is in the components above.

## 6. Plan

1. `OAuthRefresh`: one flight per connection, a forced refresh behind an ordinary one,
   single-use refresh tokens.
2. `Automation`: the hook origin that is written after the session has started, and the caps
   that count it.
3. `Routes`: order of fallback and cooldowns as a pure algorithm against a reference;
   `Pairing`, `Ownership`.
4. An abstract specification of the prompt queue (a FIFO with redelivery) that
   `SessionLifecycle` implements as far as `NoOvertaking` permits.
5. Proofs: the refinement of that queue; the safety of the modules above, over the same lemmas.
