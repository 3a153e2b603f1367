-------------------------- MODULE SessionLifecycle --------------------------
(***************************************************************************)
(* One session of the control plane (crates/core/src/control/lifecycle.rs) *)
(* with its row and its prompt queue (crates/core/src/store.rs), its live  *)
(* harness (crates/core/src/harness/native/mod.rs), stop and end, a crash  *)
(* of the daemon and its boot (crates/core/src/daemon.rs).                 *)
(*                                                                         *)
(* A Turn is the tokio task that carries one primary run from the call     *)
(* that begins it to the end of spawn_prompt.  Its pc is the next await it *)
(* resumes from.  The task that ends a turn goes on to deliver the next    *)
(* queued prompt, so the same Turn then carries a new run.                 *)
(***************************************************************************)
EXTENDS Naturals, FiniteSets

CONSTANTS
  Turn, Prompt, Harness, None,
  MaxAttempts,   \* the auto-resume cap of resume_session
  Env            \* what clients and the environment do in an instance

ASSUME EnvAssumption ==
  /\ MaxAttempts \in Nat
  /\ IsFiniteSet(Prompt)
  /\ Env \subseteq {"start", "continue", "mention", "enqueue", "remove",
                    "stop", "end", "drain", "crash", "fail", "error",
                    "timeout", "invalid", "early"}

\* What set a turn off
Origin == {"start", "user", "queue", "resume", "boot"}

ASSUME DistinctAssumption ==
  None \notin Turn \cup Prompt \cup Harness \cup Origin

VARIABLES
  sess,      \* sessions.status; "none" before the row exists
  sid,       \* sessions.agent_session_id is set
  attempts,  \* sessions.resume_attempts
  tree,      \* the worktree: "none", "created" on disk, "recorded" in the row
  queue,     \* session_prompt_queue: the position of each row, 0 for no row
  claimed,   \* its rows with status 'claimed'
  run,       \* agent_runs: "none", "active" or "done", for each turn's run
  live,      \* the harness in the `running` map
  starting,  \* the `starting` map: "no", "yes", "leaving" (to be removed)
  startTok,  \* the startup token is cancelled
  draining,  \* the drain latch
  lock,      \* holder of each harness's turn_lock
  cfg,       \* the run each harness's deps name
  cut,       \* the live_cancel token of each harness is cancelled
  pc, by, prompt, hn, ranAs,   \* locals of each turn
  settling,  \* delivered prompts whose row is about to be deleted
  spc, epc,  \* stop_session and end_session
  boot,      \* phase of the daemon's boot
  accepted, handed, gone,  \* history: prompts enqueued, given to a turn,
             \* withdrawn by remove or end
  tooLate    \* history: the startup token was cancelled before dispatch

row      == <<sess, sid, attempts, tree>>
prompts  == <<queue, claimed, settling, accepted, handed, gone>>
plane    == <<live, starting, startTok, draining, tooLate>>
harness  == <<lock, cfg, cut>>
control  == <<spc, epc, boot>>
turns    == <<pc, by, prompt, hn, ranAs, run>>
vars     == <<row, prompts, plane, harness, control, turns>>

-----------------------------------------------------------------------------
Goto(t, l) == pc' = [pc EXCEPT ![t] = l]

\* The task ends.  A run that is not terminal stays behind in the table.
Leave(t) ==
  /\ Goto(t, "free")
  /\ by' = [by EXCEPT ![t] = None]
  /\ prompt' = [prompt EXCEPT ![t] = None]
  /\ hn' = [hn EXCEPT ![t] = None]
  /\ ranAs' = [ranAs EXCEPT ![t] = None]
  /\ run' = [run EXCEPT ![t] = IF @ = "done" THEN "none" ELSE @]

Free(t) == pc[t] = "free" /\ run[t] = "none"

\* Clients use a session once the call that starts it has returned; an early
\* one finds the row in the list of sessions before that.
Visible ==
  /\ sess # "none" /\ boot = "done"
  /\ "early" \in Env \/ \A t \in Turn : pc[t] # "register"

\* Faulty variant: the demotion does not look at the status it overwrites.
Demote_Unguarded ==
  /\ sess' = "idle"
  /\ attempts' = 0
  /\ UNCHANGED <<sid, tree>>

\* demote_if_running and promote_if_idle
Demote ==
  /\ sess' = IF sess = "running" THEN "idle" ELSE sess
  /\ attempts' = IF sess = "running" THEN 0 ELSE attempts
  /\ UNCHANGED <<sid, tree>>

Promote ==
  /\ sess' = IF sess = "idle" THEN "running" ELSE sess
  /\ UNCHANGED <<sid, attempts, tree>>

\* The guarded transition of a primary run to a terminal status.
Finish(t) == run' = [run EXCEPT ![t] = IF @ = "active" THEN "done" ELSE @]

\* start_harness_session: a new harness, its deps naming run t, replaces
\* whatever the `running` map holds.
NewHarness(t, h) ==
  /\ h # live
  /\ \A u \in Turn : hn[u] # h
  /\ live' = h
  /\ hn' = [hn EXCEPT ![t] = h]
  /\ cfg' = [cfg EXCEPT ![h] = t]
  /\ lock' = [lock EXCEPT ![h] = None]
  /\ cut' = [cut EXCEPT ![h] = FALSE]
  /\ sid' = TRUE

-----------------------------------------------------------------------------
(* Starting a session                                                      *)

\* start_owned_agent_session_with_prompt: row and root run, status Running
StartSession(t) ==
  /\ "start" \in Env
  /\ sess = "none" /\ boot = "done" /\ ~draining /\ Free(t)
  /\ sess' = "running"
  /\ by' = [by EXCEPT ![t] = "start"]
  /\ run' = [run EXCEPT ![t] = "active"]
  /\ Goto(t, "register")
  /\ UNCHANGED <<sid, attempts, tree, prompts, plane, harness, control,
                 prompt, hn, ranAs>>

\* ... then the startup token, and the task run_session_startup
RegisterStartup(t) ==
  /\ pc[t] = "register"
  /\ starting' = "yes"
  /\ startTok' = FALSE
  /\ Goto(t, "prepare")
  /\ UNCHANGED <<row, prompts, live, draining, tooLate, harness, control,
                 by, prompt, hn, ranAs, run>>

\* prepare_session_workspace (git), or the scratch directory of a chat
PrepareWorkspace(t) ==
  /\ pc[t] = "prepare"
  /\ \/ tree' = "created" /\ Goto(t, "record")
     \/ UNCHANGED tree /\ Goto(t, "check")
     \/ "fail" \in Env /\ UNCHANGED tree /\ Goto(t, "fail")
  /\ UNCHANGED <<sess, sid, attempts, prompts, plane, harness, control,
                 by, prompt, hn, ranAs, run>>

\* update_session_workspace
RecordWorkspace(t) ==
  /\ pc[t] = "record"
  /\ tree' = "recorded"
  /\ Goto(t, "check")
  /\ UNCHANGED <<sess, sid, attempts, prompts, plane, harness, control,
                 by, prompt, hn, ranAs, run>>

\* Faulty variant: no checkpoint after the harness has started.
Checkpoint_Once(t) ==
  /\ pc[t] \in {"check", "recheck"}
  /\ IF startTok /\ pc[t] = "check"
     THEN Finish(t) /\ Goto(t, "unwind")
     ELSE /\ Goto(t, IF pc[t] = "check" THEN "harness" ELSE "dispatch")
          /\ UNCHANGED run
  /\ UNCHANGED <<row, prompts, plane, harness, control, by, prompt, hn, ranAs>>

\* The cancel checkpoints before and after the harness starts.  The second
\* one also cancels the handle, whose live_cancel is not set yet.
Checkpoint(t) ==
  /\ pc[t] \in {"check", "recheck"}
  /\ IF startTok
     THEN /\ Finish(t)
          /\ Goto(t, "unwind")
     ELSE /\ Goto(t, IF pc[t] = "check" THEN "harness" ELSE "dispatch")
          /\ UNCHANGED run
  /\ UNCHANGED <<row, prompts, plane, harness, control, by, prompt,
                 hn, ranAs>>

\* The startup task returns without having driven a turn.
Unwind(t) ==
  /\ pc[t] = "unwind"
  /\ Leave(t)
  /\ starting' = "leaving"
  /\ UNCHANGED <<row, prompts, live, startTok, draining, tooLate, harness,
                 control>>

\* The last statement of run_session_startup and run_chat_startup
LeaveStartup ==
  /\ starting = "leaving"
  /\ starting' = "no"
  /\ UNCHANGED <<row, prompts, live, startTok, draining, tooLate, harness,
                 control, turns>>

\* Where a turn goes with the harness it just started
AfterStart(t) ==
  CASE by[t] = "start" -> "recheck"
    [] by[t] = "resume" -> "dispatch"
    [] OTHER -> "refresh"

\* The end of start_harness_session, for a startup, a cold resume or a resume
StartHarness(t, h) ==
  /\ pc[t] = "harness"
  /\ NewHarness(t, h)
  /\ Goto(t, AfterStart(t))
  /\ boot' = IF by[t] = "resume" THEN "deliver" ELSE boot
  /\ UNCHANGED <<sess, attempts, tree, prompts, starting, startTok, draining,
                 tooLate, spc, epc, by, prompt, ranAs, run>>

\* It fails.  resume_session then writes Idle whatever the status is; the
\* other callers fail the run and demote.
StartHarnessFails(t) ==
  /\ "fail" \in Env
  /\ pc[t] = "harness"
  /\ Goto(t, IF by[t] = "resume" THEN "resumeFail" ELSE "fail")
  /\ UNCHANGED <<row, prompts, plane, harness, control, by, prompt,
                 hn, ranAs, run>>

ResumeFails(t) ==
  /\ pc[t] = "resumeFail"
  /\ sess' = "idle"
  /\ Goto(t, "free")
  /\ by' = [by EXCEPT ![t] = None]
  /\ run' = [run EXCEPT ![t] = "none"]
  /\ boot' = "deliver"
  /\ UNCHANGED <<sid, attempts, tree, prompts, plane, harness, spc, epc,
                 prompt, hn, ranAs>>

\* Faulty variant: the failed continuation leaves its run as it is.
FailRun_Forgets(t) ==
  /\ pc[t] = "fail"
  /\ Goto(t, "unreserve")
  /\ UNCHANGED <<row, prompts, plane, harness, control, by, prompt, hn, ranAs,
                 run>>

\* fail_startup and the cold-resume error path: first the run ...
FailRun(t) ==
  /\ pc[t] = "fail"
  /\ Finish(t)
  /\ Goto(t, "unreserve")
  /\ UNCHANGED <<row, prompts, plane, harness, control, by, prompt,
                 hn, ranAs>>

\* Faulty variant: the failed continuation keeps its reservation.
Unreserve_Forgets(t) ==
  /\ pc[t] = "unreserve"
  /\ IF by[t] = "user" THEN Leave(t)
     ELSE /\ Goto(t, IF by[t] = "start" THEN "unwind" ELSE "restore")
          /\ UNCHANGED <<by, prompt, hn, ranAs, run>>
  /\ UNCHANGED <<row, prompts, plane, harness, control>>

\* ... then the demotion; a delivery goes on to restore its claim
Unreserve(t) ==
  /\ pc[t] = "unreserve"
  /\ Demote
  /\ IF by[t] = "user" THEN Leave(t)
     ELSE /\ Goto(t, IF by[t] = "start" THEN "unwind" ELSE "restore")
          /\ UNCHANGED <<by, prompt, hn, ranAs, run>>
  /\ UNCHANGED <<prompts, plane, harness, control>>

-----------------------------------------------------------------------------
(* Continuing a session                                                    *)

\* continue_agent_session_with_turn / _with_prompt, to begin_primary
Continue(t) ==
  /\ "continue" \in Env
  /\ Visible /\ ~draining /\ Free(t)
  /\ by' = [by EXCEPT ![t] = "user"]
  /\ run' = [run EXCEPT ![t] = "active"]
  /\ Goto(t, "reserve")
  /\ UNCHANGED <<row, prompts, plane, harness, control, prompt, hn,
                 ranAs>>

\* continue_session_with_primary_turn: the second drain check leaves the run
\* as it is; otherwise promote_if_idle
Reserve(t) ==
  /\ pc[t] = "reserve"
  /\ \/ /\ draining
        /\ IF by[t] = "user" THEN Leave(t)
           ELSE Goto(t, "restore") /\ UNCHANGED <<by, prompt, hn, ranAs, run>>
        /\ UNCHANGED row
     \/ /\ ~draining
        /\ Promote
        /\ Goto(t, "await")
        /\ UNCHANGED <<by, prompt, hn, ranAs, run>>
  /\ UNCHANGED <<prompts, plane, harness, control>>

\* wait_for_startup, bounded, then the lookup in the `running` map
AwaitStartup(t) ==
  /\ pc[t] = "await"
  /\ starting = "no" \/ "timeout" \in Env
  /\ hn' = [hn EXCEPT ![t] = live]
  /\ Goto(t, IF live = None THEN "harness" ELSE "refresh")
  /\ UNCHANGED <<row, prompts, plane, harness, control, by, prompt,
                 ranAs, run>>

\* refresh_primary_turn, under the harness's turn_lock
Refresh(t) ==
  /\ pc[t] = "refresh"
  /\ lock[hn[t]] = None
  /\ cfg' = [cfg EXCEPT ![hn[t]] = t]
  /\ Goto(t, "dispatch")
  /\ UNCHANGED <<row, prompts, plane, lock, cut, control, by, prompt,
                 hn, ranAs, run>>

\* dispatch_turn / spawn_prompt, after prepare_attachments.  The caller goes
\* on at once: a delivery deletes its row, a startup task returns.
Dispatch(t) ==
  /\ pc[t] = "dispatch"
  /\ \/ Goto(t, "send")
     \/ "mention" \in Env /\ by[t] \in {"start", "user"} /\ Goto(t, "coord")
  /\ starting' = IF by[t] = "start" THEN "leaving" ELSE starting
  /\ settling' = settling \cup ({prompt[t]} \ {None})
  /\ handed' = handed \cup ({prompt[t]} \ {None})
  /\ UNCHANGED <<row, queue, claimed, accepted, gone, live, startTok,
                 draining, tooLate, harness, control, by, prompt, hn,
                 ranAs, run>>

CoordinatorCancelled(t) == run[t] = "done" \/ sess \in {"interrupted", "ended"}

\* The coordinator of explicit mentions: the children are done; it gives up
\* when it was cancelled or an outcome could not be stored, else it drives
\* the synthesis turn.
Coordinate(t) ==
  /\ pc[t] = "coord"
  /\ \/ /\ CoordinatorCancelled(t)
        /\ Goto(t, "demote")
        /\ UNCHANGED run
     \/ /\ "fail" \in Env
        /\ Finish(t)
        /\ Goto(t, "demote")
     \/ /\ ~CoordinatorCancelled(t)
        /\ Goto(t, "send")
        /\ UNCHANGED run
  /\ UNCHANGED <<row, prompts, plane, harness, control, by, prompt,
                 hn, ranAs>>

\* send_prompt gets the turn_lock, snapshots deps, sets live_cancel, and
\* run_turn writes the user's row
BeginTurn(t) ==
  /\ pc[t] = "send"
  /\ lock[hn[t]] = None
  /\ lock' = [lock EXCEPT ![hn[t]] = t]
  /\ cut' = [cut EXCEPT ![hn[t]] = FALSE]
  /\ ranAs' = [ranAs EXCEPT ![t] = cfg[hn[t]]]
  /\ Goto(t, "turn")
  /\ UNCHANGED <<row, prompts, plane, cfg, control, by, prompt, hn, run>>

\* run_turn returns; a cancelled turn may return either way
EndTurn(t) ==
  /\ pc[t] = "turn"
  /\ lock' = [lock EXCEPT ![hn[t]] = None]
  /\ \/ Goto(t, "complete")
     \/ "error" \in Env /\ Goto(t, "failed")
  /\ UNCHANGED <<row, prompts, plane, cfg, cut, control, by, prompt,
                 hn, ranAs, run>>

\* The Ok arm of spawn_prompt: complete, then demote, and deliver the next
\* queued prompt only when that demotion found the session Running
Complete(t) ==
  /\ pc[t] = "complete"
  /\ Finish(t)
  /\ sid' = TRUE
  /\ Goto(t, "settle")
  /\ UNCHANGED <<sess, attempts, tree, prompts, plane, harness, control,
                 by, prompt, hn, ranAs>>

\* Faulty variant: the end of a turn does not look at the queue.
Settle_NoDelivery(t) ==
  /\ pc[t] = "settle"
  /\ Demote
  /\ Leave(t)
  /\ UNCHANGED <<prompts, plane, harness, control>>

Settle(t) ==
  /\ pc[t] = "settle"
  /\ Demote
  /\ IF sess = "running"
     THEN Goto(t, "deliver") /\ UNCHANGED <<by, prompt, hn, ranAs, run>>
     ELSE Leave(t)
  /\ UNCHANGED <<prompts, plane, harness, control>>

\* The Err arm: interrupt or fail the run, demote, deliver nothing
FailTurn(t) ==
  /\ pc[t] = "failed"
  /\ Finish(t)
  /\ Goto(t, "demote")
  /\ UNCHANGED <<row, prompts, plane, harness, control, by, prompt,
                 hn, ranAs>>

DemoteAndLeave(t) ==
  /\ pc[t] = "demote"
  /\ Demote
  /\ Leave(t)
  /\ UNCHANGED <<prompts, plane, harness, control>>

-----------------------------------------------------------------------------
(* The prompt queue                                                        *)

\* Rows with status 'pending', and the first of them by position
Rows    == {p \in Prompt : queue[p] > 0}
Pending == Rows \ claimed
Head    == {p \in Pending : \A q \in Pending : queue[p] <= queue[q]}

\* COALESCE(MAX(position), 0) + 1
IsNextPosition(n) ==
  /\ \A q \in Prompt : queue[q] < n
  /\ n = 1 \/ \E q \in Prompt : queue[q] = n - 1

\* enqueue_session_prompt: the row, then a delivery kick
Enqueue(t, p) ==
  /\ "enqueue" \in Env
  /\ Visible /\ Free(t)
  /\ p \notin accepted
  /\ \E n \in 1..Cardinality(Prompt) :
       IsNextPosition(n) /\ queue' = [queue EXCEPT ![p] = n]
  /\ accepted' = accepted \cup {p}
  /\ by' = [by EXCEPT ![t] = "queue"]
  /\ Goto(t, "deliver")
  /\ UNCHANGED <<row, claimed, settling, handed, gone, plane, harness,
                 control, prompt, hn, ranAs, run>>

\* remove_session_prompt: pending rows only
RemovePrompt(p) ==
  /\ "remove" \in Env
  /\ Visible
  /\ p \in Pending
  /\ queue' = [queue EXCEPT ![p] = 0]
  /\ gone' = gone \cup {p}
  /\ UNCHANGED <<row, claimed, settling, accepted, handed, plane, harness,
                 control, turns>>

\* claim_next_session_prompt_if_idle: one transaction
Deliver(t) ==
  /\ pc[t] = "deliver"
  /\ \/ /\ sess = "idle"
        /\ sess' = "running"
        /\ \E p \in Head :
             /\ claimed' = claimed \cup {p}
             /\ prompt' = [prompt EXCEPT ![t] = p]
        /\ by' = [by EXCEPT ![t] = IF @ = "boot" THEN @ ELSE "queue"]
        /\ hn' = [hn EXCEPT ![t] = None]
        /\ ranAs' = [ranAs EXCEPT ![t] = None]
        /\ run' = [run EXCEPT ![t] = "none"]
        /\ Goto(t, "admit")
     \/ /\ sess # "idle" \/ Pending = {}
        /\ Leave(t)
        /\ UNCHANGED <<sess, claimed>>
  /\ UNCHANGED <<sid, attempts, tree, queue, settling, accepted, handed, gone,
                 plane, harness, control>>

\* continue_reserved_session_with_prompt, to begin_primary
Admit(t) ==
  /\ pc[t] = "admit"
  /\ \/ /\ ~draining
        /\ run' = [run EXCEPT ![t] = "active"]
        /\ Goto(t, "reserve")
     \/ /\ draining \/ "fail" \in Env
        /\ Goto(t, "restore")
        /\ UNCHANGED run
  /\ UNCHANGED <<row, prompts, plane, harness, control, by, prompt,
                 hn, ranAs>>

\* Faulty variant: a failed delivery deletes the row it claimed.
Restore_Deletes(t) ==
  /\ pc[t] = "restore"
  /\ claimed' = claimed \ {prompt[t]}
  /\ queue' = [queue EXCEPT ![prompt[t]] = 0]
  /\ Goto(t, "demote")
  /\ UNCHANGED <<row, settling, accepted, handed, gone, plane, harness,
                 control, by, prompt, hn, ranAs, run>>

\* The Err arm of deliver_next_queued_session_prompt
Restore(t) ==
  /\ pc[t] = "restore"
  /\ claimed' = claimed \ {prompt[t]}
  /\ Goto(t, "demote")
  /\ UNCHANGED <<row, queue, settling, accepted, handed, gone, plane, harness,
                 control, by, prompt, hn, ranAs, run>>

\* Its Ok arm: take_completed_claimed_session_prompt
DeleteDelivered(p) ==
  /\ p \in settling
  /\ settling' = settling \ {p}
  /\ claimed' = claimed \ {p}
  /\ queue' = [queue EXCEPT ![p] = IF p \in claimed THEN 0 ELSE @]
  /\ UNCHANGED <<row, accepted, handed, gone, plane, harness, control, turns>>

-----------------------------------------------------------------------------
(* stop_session and end_session                                            *)

\* The startup task has not passed its last checkpoint.
BeforeDispatch ==
  \E t \in Turn :
    /\ by[t] = "start"
    /\ pc[t] \in {"prepare", "record", "check", "harness", "recheck"}

CancelStartup ==
  /\ startTok' = (startTok \/ starting # "no")
  /\ tooLate' = (tooLate \/ (starting # "no" /\ BeforeDispatch))
  /\ UNCHANGED <<live, starting, draining>>

\* HarnessSession::cancel trips the turn that is running, if there is one
CancelHandle ==
  cut' = [h \in Harness |-> cut[h] \/ (h = live /\ lock[h] # None)]

\* The sweep of the session's active roots
InterruptRuns ==
  run' = [t \in Turn |-> IF run[t] # "active" THEN run[t]
                         ELSE IF pc[t] = "free" THEN "none" ELSE "done"]

Stop ==
  /\ "stop" \in Env
  /\ Visible /\ spc = "idle"
  /\ CancelStartup
  /\ spc' = "cancel"
  /\ UNCHANGED <<row, prompts, harness, epc, boot, turns>>

StopHandle ==
  /\ spc = "cancel"
  /\ CancelHandle
  /\ spc' = "sweep"
  /\ UNCHANGED <<row, prompts, plane, lock, cfg, epc, boot, turns>>

StopSweep ==
  /\ spc = "sweep"
  /\ InterruptRuns
  /\ spc' = "status"
  /\ UNCHANGED <<row, prompts, plane, harness, epc, boot, pc, by,
                 prompt, hn, ranAs>>

\* update_status, unconditional
StopStatus ==
  /\ spc = "status"
  /\ sess' = "interrupted"
  /\ spc' = "idle"
  /\ UNCHANGED <<sid, attempts, tree, prompts, plane, harness, epc, boot,
                 turns>>

\* Faulty variant: the teardown does not wait for the startup it cancelled.
End_NoWait ==
  /\ "end" \in Env
  /\ Visible /\ epc = "idle"
  /\ CancelStartup
  /\ epc' = "status"
  /\ UNCHANGED <<row, prompts, harness, spc, boot, turns>>

End ==
  /\ "end" \in Env
  /\ Visible /\ epc = "idle"
  /\ CancelStartup
  /\ epc' = IF starting = "no" THEN "status" ELSE "wait"
  /\ UNCHANGED <<row, prompts, harness, spc, boot, turns>>

EndWait ==
  /\ epc = "wait"
  /\ starting = "no" \/ "timeout" \in Env
  /\ epc' = "status"
  /\ UNCHANGED <<row, prompts, plane, harness, spc, boot, turns>>

EndStatus ==
  /\ epc = "status"
  /\ sess' = "ended"
  /\ epc' = "handle"
  /\ UNCHANGED <<sid, attempts, tree, prompts, plane, harness, spc, boot,
                 turns>>

EndHandle ==
  /\ epc = "handle"
  /\ CancelHandle
  /\ live' = None
  /\ epc' = "queue"
  /\ UNCHANGED <<row, prompts, starting, startTok, draining, tooLate, lock,
                 cfg, spc, boot, turns>>

\* take_all_session_prompts, claimed rows included
EndQueue ==
  /\ epc = "queue"
  /\ queue' = [p \in Prompt |-> 0]
  /\ claimed' = {}
  /\ gone' = gone \cup Rows
  /\ epc' = "sweep"
  /\ UNCHANGED <<row, settling, accepted, handed, plane, harness, spc, boot,
                 turns>>

EndSweep ==
  /\ epc = "sweep"
  /\ InterruptRuns
  /\ epc' = "tree"
  /\ UNCHANGED <<row, prompts, plane, harness, spc, boot, pc, by,
                 prompt, hn, ranAs>>

\* worktree::remove and clear_session_worktree, when the row has a path
EndTree ==
  /\ epc = "tree"
  /\ tree' = IF tree = "recorded" THEN "none" ELSE tree
  /\ epc' = "idle"
  /\ UNCHANGED <<sess, sid, attempts, prompts, plane, harness, spc, boot,
                 turns>>

-----------------------------------------------------------------------------
(* Drain, crash and boot                                                   *)

Drain ==
  /\ "drain" \in Env
  /\ ~draining
  /\ draining' = TRUE
  /\ UNCHANGED <<row, prompts, live, starting, startTok, tooLate, harness,
                 control, turns>>

\* Everything in memory is lost; recover_after_restart interrupts the runs
\* before the next daemon serves anyone.
Crash ==
  /\ "crash" \in Env
  /\ sess # "none"
  /\ pc' = [t \in Turn |-> "free"]
  /\ by' = [t \in Turn |-> None]
  /\ prompt' = [t \in Turn |-> None]
  /\ hn' = [t \in Turn |-> None]
  /\ ranAs' = [t \in Turn |-> None]
  /\ run' = [t \in Turn |-> "none"]
  /\ lock' = [h \in Harness |-> None]
  /\ cfg' = [h \in Harness |-> None]
  /\ cut' = [h \in Harness |-> FALSE]
  /\ settling' = {}
  /\ live' = None
  /\ starting' = "no"
  /\ startTok' = FALSE
  /\ draining' = FALSE
  /\ tooLate' = FALSE
  /\ spc' = "idle"
  /\ epc' = "idle"
  /\ boot' = "recover"
  /\ UNCHANGED <<row, queue, claimed, accepted, handed, gone>>

\* Faulty variant: the boot leaves the claims of the dead process alone.
RecoverClaims_Skips ==
  /\ boot = "recover"
  /\ boot' = "reconcile"
  /\ UNCHANGED <<row, prompts, plane, harness, spc, epc, turns>>

\* recover_abandoned_session_prompt_claims
RecoverClaims ==
  /\ boot = "recover"
  /\ claimed' = {}
  /\ boot' = "reconcile"
  /\ UNCHANGED <<row, queue, settling, accepted, handed, gone, plane, harness,
                 spc, epc, turns>>

\* Faulty variant: the cap is off by one.
GivesUp_OffByOne == ~sid \/ attempts > MaxAttempts

\* Nothing to resume from, or too many attempts
GivesUp == ~sid \/ attempts >= MaxAttempts

\* reconcile and resume_session: a Running session is resumed, unless it was
\* never started or has used up its attempts; one whose agent no longer
\* resolves or whose project is gone is left as it is
Reconcile(t) ==
  /\ boot = "reconcile"
  /\ Free(t)
  /\ \/ /\ sess = "running" /\ GivesUp
        /\ sess' = "idle"
        /\ boot' = "deliver"
        /\ UNCHANGED <<attempts, pc, by, run>>
     \/ /\ sess = "running" /\ ~GivesUp
        /\ attempts' = attempts + 1
        /\ by' = [by EXCEPT ![t] = "resume"]
        /\ run' = [run EXCEPT ![t] = "active"]
        /\ Goto(t, "harness")
        /\ boot' = "resume"
        /\ UNCHANGED sess
     \/ /\ sess # "running" \/ "invalid" \in Env
        /\ boot' = "deliver"
        /\ UNCHANGED <<sess, attempts, pc, by, run>>
  /\ UNCHANGED <<sid, tree, prompts, plane, harness, spc, epc,
                 prompt, hn, ranAs>>

\* deliver_pending_idle_session_prompts_on_boot: one delivery, awaited ...
BootDeliver(t) ==
  /\ boot = "deliver"
  /\ Free(t)
  /\ boot' = "delivering"
  /\ by' = [by EXCEPT ![t] = "boot"]
  /\ Goto(t, "deliver")
  /\ UNCHANGED <<row, prompts, plane, harness, spc, epc, prompt, hn, ranAs,
                 run>>

\* ... then the daemon serves its clients
BootDone ==
  /\ boot = "delivering"
  /\ \A t \in Turn : by[t] = "boot" => pc[t] \in {"send", "turn", "complete",
                                                "settle", "failed"}
  /\ settling = {}
  /\ boot' = "done"
  /\ UNCHANGED <<row, prompts, plane, harness, spc, epc, turns>>

-----------------------------------------------------------------------------
\* A daemon that is up: no session yet, or one that is idle after an earlier
\* turn and has no harness in this process.
Init ==
  /\ \/ "start" \in Env /\ sess = "none" /\ sid = FALSE
     \/ sess = "idle" /\ sid = TRUE
  /\ attempts = 0
  /\ tree = "none"
  /\ queue = [p \in Prompt |-> 0]
  /\ claimed = {}
  /\ settling = {}
  /\ accepted = {} /\ handed = {} /\ gone = {}
  /\ live = None
  /\ starting = "no" /\ startTok = FALSE /\ draining = FALSE /\ tooLate = FALSE
  /\ lock = [h \in Harness |-> None]
  /\ cfg = [h \in Harness |-> None]
  /\ cut = [h \in Harness |-> FALSE]
  /\ pc = [t \in Turn |-> "free"]
  /\ by = [t \in Turn |-> None]
  /\ prompt = [t \in Turn |-> None]
  /\ hn = [t \in Turn |-> None]
  /\ ranAs = [t \in Turn |-> None]
  /\ run = [t \in Turn |-> "none"]
  /\ spc = "idle" /\ epc = "idle" /\ boot = "done"

TurnStep(t) ==
  \/ RegisterStartup(t) \/ PrepareWorkspace(t) \/ RecordWorkspace(t)
  \/ Checkpoint(t) \/ Unwind(t)
  \/ (\E h \in Harness : StartHarness(t, h)) \/ StartHarnessFails(t)
  \/ ResumeFails(t) \/ FailRun(t) \/ Unreserve(t)
  \/ Reserve(t) \/ AwaitStartup(t) \/ Refresh(t) \/ Dispatch(t)
  \/ Coordinate(t) \/ BeginTurn(t) \/ EndTurn(t)
  \/ Complete(t) \/ Settle(t) \/ FailTurn(t) \/ DemoteAndLeave(t)
  \/ Deliver(t) \/ Admit(t) \/ Restore(t)

ControlStep ==
  \/ LeaveStartup
  \/ \E p \in Prompt : DeleteDelivered(p)
  \/ StopHandle \/ StopSweep \/ StopStatus
  \/ EndWait \/ EndStatus \/ EndHandle \/ EndQueue \/ EndSweep \/ EndTree
  \/ RecoverClaims
  \/ \E t \in Turn : Reconcile(t) \/ BootDeliver(t)
  \/ BootDone

Call ==
  \/ \E t \in Turn : StartSession(t) \/ Continue(t)
  \/ \E t \in Turn, p \in Prompt : Enqueue(t, p)
  \/ \E p \in Prompt : RemovePrompt(p)
  \/ Stop \/ End \/ Drain \/ Crash

Next == (\E t \in Turn : TurnStep(t)) \/ ControlStep \/ Call

Spec == Init /\ [][Next]_vars

\* The runtime polls every ready task and the turn_lock is first come, first
\* served; a turn ends (it has an iteration budget; in the code an approval, which
\* has no deadline, may park it, and no turn parks here).  Clients need do nothing.
FairSpec ==
  /\ Spec
  /\ \A t \in Turn : SF_vars(TurnStep(t))
  /\ WF_vars(ControlStep)

-----------------------------------------------------------------------------
(* Properties                                                              *)

TurnPc == {"free", "register", "prepare", "record", "check", "recheck",
           "unwind", "harness", "resumeFail", "fail", "unreserve", "reserve",
           "await", "refresh", "dispatch", "coord", "send", "turn",
           "complete", "settle", "failed", "demote", "deliver", "admit",
           "restore"}

\* Every variable has its type.
TypeOK ==
  /\ sess \in {"none", "idle", "running", "interrupted", "ended"}
  /\ sid \in BOOLEAN
  /\ attempts \in 0..MaxAttempts
  /\ tree \in {"none", "created", "recorded"}
  /\ queue \in [Prompt -> Nat]
  /\ claimed \subseteq Prompt /\ settling \subseteq Prompt
  /\ accepted \subseteq Prompt /\ handed \subseteq Prompt
  /\ gone \subseteq Prompt
  /\ live \in Harness \cup {None}
  /\ starting \in {"no", "yes", "leaving"}
  /\ startTok \in BOOLEAN /\ draining \in BOOLEAN /\ tooLate \in BOOLEAN
  /\ lock \in [Harness -> Turn \cup {None}]
  /\ cfg \in [Harness -> Turn \cup {None}]
  /\ cut \in [Harness -> BOOLEAN]
  /\ pc \in [Turn -> TurnPc]
  /\ by \in [Turn -> Origin \cup {None}]
  /\ prompt \in [Turn -> Prompt \cup {None}]
  /\ hn \in [Turn -> Harness \cup {None}]
  /\ ranAs \in [Turn -> Turn \cup {None}]
  /\ run \in [Turn -> {"none", "active", "done"}]
  /\ spc \in {"idle", "cancel", "sweep", "status"}
  /\ epc \in {"idle", "wait", "status", "handle", "queue", "sweep", "tree"}
  /\ boot \in {"recover", "reconcile", "resume", "deliver", "delivering",
               "done"}

\* A session is Running only while something is going to take it out of that
\* state: a turn or a delivery in flight, a stop or an end, the boot.  No
\* error path of startup, cold resume, resume or delivery wedges it.
RunningHasDriver ==
  sess = "running" =>
    \/ \E t \in Turn : pc[t] # "free"
    \/ spc # "idle" \/ epc # "idle"
    \/ boot # "done"

\* A claimed row has an owner that will delete or restore it, or the boot is
\* going to recover it: no prompt is stuck between pending and delivered.
ClaimHasOwner ==
  \A p \in claimed :
    \/ p \in settling
    \/ boot = "recover"
    \/ \E t \in Turn : prompt[t] = p /\
         pc[t] \in {"admit", "reserve", "await", "harness", "refresh",
                    "dispatch", "fail", "unreserve", "restore"}

\* A prompt that was accepted, and not withdrawn, is still in the table or
\* was given to a turn, across failures, drains and crashes.
NoPromptDropped ==
  \A p \in accepted \ gone :
    p \in handed \/ p \in Rows

\* A primary run that is queued or running has a task that will end it; only
\* the drain latch, closing between the two checks, leaves one behind for
\* recover_after_restart.
RunHasDriver ==
  \A t \in Turn : run[t] = "active" => pc[t] # "free" \/ draining

\* A startup whose token was cancelled before it dispatched its turn never
\* sends the first prompt.
StoppedStartupNeverPrompts ==
  tooLate => \A t \in Turn : pc[t] = "turn" => by[t] # "start"

Over(status) == status \in {"interrupted", "ended"}

\* A stop or an end wins over whatever turn is still unwinding: once the row
\* says Interrupted or Ended, no late completion, failure, reservation or
\* delivery makes it Idle or Running again.
StopWins == [][Over(sess) => Over(sess')]_vars

\* end_session waits for the startup it cancelled, so that it sees the
\* worktree git prep created: an ended session leaves none behind.
WorktreeIsReclaimed ==
  sess = "ended" /\ epc = "idle" => tree = "none"

\* The worktree is deleted under a turn only when that turn was cancelled.
\* Comment in end_session: "Interrupt any in-flight turn first so teardown
\* doesn't race a still-working agent inside the worktree we're about to
\* delete."
TeardownAfterTurns ==
  [][\A t \in Turn : EndTree /\ tree = "recorded" /\ pc[t] = "turn"
                      => cut[hn[t]]]_vars

\* Turns of one session never run at the same time.  Comment of turn_lock:
\* "two concurrent `send_prompt`s (double-send, gateway + UI race) must never
\* interleave their `provider_turns` appends".
TurnsAreSerialized ==
  \A t, u \in Turn : pc[t] = "turn" /\ pc[u] = "turn" => t = u

\* A prompt is claimed only when those ahead of it were given to a turn.
\* Comment of claim_next_session_prompt_if_idle: concurrent clients can never
\* "advance its FIFO queue out of order".
NoOvertaking ==
  \A p, q \in Rows :
    queue[p] < queue[q] /\ q \in claimed => p \in handed

\* A turn runs under the run that was begun for it.  Comment of
\* refresh_primary_turn: "Replace the primary configuration used for the next
\* prompt."
RunsAsItself == \A t \in Turn : pc[t] = "turn" => ranAs[t] = t

\* Every accepted prompt is given to a turn once users stop sending their own:
\* whichever of the overlapping turns and kicks found the session busy, some
\* later demotion delivers what is pending.  (A user who keeps continuing the
\* session between a demotion and the claim behind it can starve the queue.)
QueueDrains ==
  <>[](\A t \in Turn : by[t] # "user")
    => \A p \in Prompt : p \in accepted ~> p \in handed
=============================================================================
